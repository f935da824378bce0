---------------------------- MODULE BatchReview ----------------------------
(***************************************************************************)
(* What statement review promises its user, with no files, archive or      *)
(* program counters: a batch is offered for review with a fixed content,   *)
(* is confirmed or rejected once, and the reports gain exactly the content *)
(* of a batch when it is confirmed.  Nothing leaves the reports.           *)
(* StatementIngest implements this for one process at a time and           *)
(* statements without common rows (topic ingest of MCAlone).               *)
(***************************************************************************)
CONSTANTS
    Batch,  \* batch ids
    Row     \* statement rows

VARIABLES
    review,   \* offered batch -> its verdict so far
    content,  \* offered batch -> its rows
    ledger    \* the rows in the reports

absvars == <<review, content, ledger>>

AbsInit ==
    /\ review = << >>
    /\ content = << >>
    /\ ledger = {}

\* A batch is offered under an id that is free; none of its rows is reported.
Offer(b) ==
    /\ b \notin DOMAIN review
    /\ review' = [x \in DOMAIN review \cup {b} |->
                    IF x = b THEN "pending" ELSE review[x]]
    /\ \E rows \in SUBSET (Row \ ledger) :
          content' = [x \in DOMAIN review \cup {b} |->
                        IF x = b THEN rows ELSE content[x]]
    /\ UNCHANGED ledger

Accept(b) ==
    /\ review[b] = "pending"
    /\ review' = [review EXCEPT ![b] = "confirmed"]
    /\ ledger' = ledger \cup content[b]
    /\ UNCHANGED content

Refuse(b) ==
    /\ review[b] = "pending"
    /\ review' = [review EXCEPT ![b] = "rejected"]
    /\ UNCHANGED <<content, ledger>>

\* A batch may be forgotten as long as none of its rows is in the reports.
Forget(b) ==
    /\ content[b] \cap ledger = {}
    /\ review' = [x \in DOMAIN review \ {b} |-> review[x]]
    /\ content' = [x \in DOMAIN review \ {b} |-> content[x]]
    /\ UNCHANGED ledger

AbsNext ==
    \/ \E b \in Batch : Offer(b)
    \/ \E b \in DOMAIN review : Accept(b) \/ Refuse(b) \/ Forget(b)

AbsSpec == AbsInit /\ [][AbsNext]_absvars
=============================================================================
