------------------------------ MODULE MCIngest ------------------------------
(***************************************************************************)
(* Instances of StatementIngest for TLC.  Two processes and two statements *)
(* of one account whose periods overlap in one row.                        *)
(***************************************************************************)
EXTENDS StatementIngest, TLC

CONSTANTS f1, f2, k1, k2

\* jan.csv ends with the row that feb.csv begins with.
OverlappingFiles == f1 :> (k1 :> 1 @@ k2 :> 0) @@ f2 :> (k1 :> 1 @@ k2 :> 1)

ProcSymmetry == Permutations(Procs)
=============================================================================
