--------------------------- MODULE SyncRefinement ---------------------------
(***************************************************************************)
(* YnabSync implements BudgetCopy, for one sync at a time and a budget     *)
(* that is not edited during a pull.  A history variable, which the system *)
(* never reads, records what was in the budget at the last request.        *)
(***************************************************************************)
EXTENDS YnabSync

VARIABLE taken  \* history: entity -> its stamp when a request was last answered

historyVars == <<vars, taken>>

HistoryInit == Init /\ taken = NoDelta

HistoryNext ==
    /\ Next
    /\ taken' = IF \E p \in Procs, k \in Kinds : Fetch(p, k) THEN remote ELSE taken

HistorySpec == HistoryInit /\ [][HistoryNext]_historyVars

FairHistorySpec == HistorySpec /\ Fairness

Promise == INSTANCE BudgetCopy WITH
    Content <- [Entities -> 0..MaxEdits],
    budget <- remote,
    copy <- mirror

(***************************************************************************)
(* A sync that commits makes the database what the budget was at its last  *)
(* request, all of it, though the pull brought only what was edited since  *)
(* an older cursor, syncs before it failed or were killed anywhere, and    *)
(* the budget has been edited since (sync.py 37-72, source.py 84-118).     *)
(***************************************************************************)
CopiesWholeBudgets == Promise!CopySpec
=============================================================================
