----------------------------- MODULE BudgetCopy -----------------------------
(***************************************************************************)
(* What delta sync promises, with no requests, cursors or deltas: whoever  *)
(* may change the budget, the database is a copy of all of it as it was at *)
(* one moment, and is replaced as a whole by a later one.  It is never a   *)
(* mixture of two.  YnabSync implements this for one sync at a time and a  *)
(* budget that is not edited during a pull (module SyncRefinement).        *)
(***************************************************************************)
CONSTANT Content  \* what may be in a budget

VARIABLES
    budget,  \* what is in it now
    taken,   \* what was in it when it was last looked at
    copy     \* what is in the database

copyvars == <<budget, taken, copy>>

CopyInit ==
    /\ budget \in Content
    /\ taken = budget
    /\ copy = budget

Change ==
    /\ budget' \in Content
    /\ UNCHANGED <<taken, copy>>

Take ==
    /\ taken' = budget
    /\ UNCHANGED <<budget, copy>>

Install ==
    /\ copy' = taken
    /\ UNCHANGED <<budget, taken>>

CopyNext == Change \/ Take \/ Install

CopySpec == CopyInit /\ [][CopyNext]_copyvars
=============================================================================
