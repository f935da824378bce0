------------------------------ MODULE MCAlone ------------------------------
(***************************************************************************)
(* An instance for TLC of the modules in which one actor acts at a time:   *)
(* Retirement, Recurring, Anomaly and StatementFiles, about functions that *)
(* keep no state of their own, and StatementIngest for one process at a    *)
(* time.  They have no variable in common; a behaviour is about one of     *)
(* them.                                                                   *)
(*                                                                         *)
(* Everything is scaled down.  Retirement has two tax years with bands 11  *)
(* to 16 wide, so that most shares are no multiple of the step; one begins *)
(* at 0, and both catch-up ages are reached on the way.                    *)
(***************************************************************************)
EXTENDS Retirement, Recurring, Anomaly, StatementFiles, IngestRefinement, TLC

CONSTANTS north, south, kiosk, june, f1, k1, k2

VARIABLE topic  \* the module that the behaviour is about

\* An income may be negative.
SmallLoss == -1

band(low, high) == [low |-> low, high |-> high]

limits(ira, bands) ==
    [ira_limit |-> ira, ira_catchup |-> 10, ira_catchup_age |-> 50,
     hsa_cap |-> "self_only" :> 30 @@ "family" :> 50,
     hsa_catchup |-> 10, hsa_catchup_age |-> 51, roth_phaseout |-> bands]

TwoYears ==
    2025 :> limits(70, "single" :> band(5, 16) @@ "married_jointly" :> band(7, 23)
                         @@ "married_separately" :> band(0, 13))
      @@ 2026 :> limits(80, "single" :> band(6, 22) @@ "married_jointly" :> band(8, 20)
                              @@ "married_separately" :> band(0, 13))

TwoCadences == "weekly" :> band(2, 2) @@ "monthly" :> band(4, 5)

\* Three expenses, of which two are near each other, and a refund.
SignedAmounts == {-4, -2, -1, 1}

entry(date, amount, payee, memo) ==
    [date |-> date, amount |-> amount, payee |-> payee, memo |-> memo]

\* A refund of one branch and, the next day, payments to two.
ThreeEntries ==
    {entry(1, 5, north, NoText), entry(2, -5, north, june), entry(2, -5, south, june)}

\* OFX and QFX cut the payee off, so that the branches are the same.
CutOff ==
    [format \in {"csv", "pdf"} |-> [e \in ThreeEntries |-> e]]
      @@ [format \in {"ofx", "qfx"} |-> [e \in ThreeEntries |-> [e EXCEPT !.payee = kiosk]]]

EachDayAndBoth == {{1}, {2}, {1, 2}}

TwoTemplates ==
    {[layout |-> "names", payee |-> TRUE, memo |-> TRUE, invert |-> TRUE],
     [layout |-> "numbers", payee |-> TRUE, memo |-> TRUE, invert |-> FALSE]}

\* Of a behaviour that is not about retirement, the profile does not matter.
SomeProfile ==
    [birth_year |-> 1975, filing_status |-> "single", magi |-> Unset,
     hsa_coverage |-> Unset, contributed |-> NoContribution]

\* One file, which repeats one of its rows, ingested for two accounts.
OneFile == f1 :> (k1 :> 2 @@ k2 :> 1)

allVars == <<topic, retirementVars, charges, spend, fileVars, vars>>

AloneInit ==
    /\ RecurringInit /\ AnomalyInit /\ FilesInit /\ Init
    /\ \/ topic = "retirement" /\ RetirementInit
       \/ /\ topic \in {"recurring", "anomaly", "files", "ingest"}
          /\ tax_year = FirstYear /\ profile = SomeProfile

AloneNext ==
    /\ UNCHANGED topic
    /\ \/ /\ topic = "retirement" /\ RetirementNext
          /\ UNCHANGED <<charges, spend, fileVars, vars>>
       \/ /\ topic = "recurring" /\ RecurringNext
          /\ UNCHANGED <<retirementVars, spend, fileVars, vars>>
       \/ /\ topic = "anomaly" /\ AnomalyNext
          /\ UNCHANGED <<retirementVars, charges, fileVars, vars>>
       \/ /\ topic = "files" /\ FilesNext
          /\ UNCHANGED <<retirementVars, charges, spend, vars>>
       \/ /\ topic = "ingest" /\ Next
          /\ UNCHANGED <<retirementVars, charges, spend, fileVars>>

AloneSpec == AloneInit /\ [][AloneNext]_allVars
=============================================================================
