------------------------------ MODULE MCLedger ------------------------------
(***************************************************************************)
(* Instances of Ledger for TLC: a YNAB transaction that is split, one part *)
(* a transfer, reshaped, unsplit and moved to another account, and a       *)
(* statement row that only a rule can categorize.                          *)
(***************************************************************************)
EXTENDS Ledger, TLC

CONSTANTS t1, t2, ynab, statement, c1, n1, n2, x1, x2, a1, a2, a3

TwoSources == t1 :> ynab @@ t2 :> statement

part(amount, c, text, transfer) ==
    [amount |-> amount, category_id |-> c, text |-> text, transfer |-> transfer]
content(amount, c, text, account, cleared, subs) ==
    [amount |-> amount, category_id |-> c, text |-> text, account |-> account,
     transfer |-> FALSE, cleared |-> cleared, deleted |-> FALSE, subs |-> subs]

Plain == content(3, c1, x1, a1, TRUE, << >>)
Halves == content(3, None, x1, a1, FALSE,
                  <<part(4, c1, x1, FALSE), part(-1, None, x2, TRUE)>>)

\* The other part of Halves was deleted, and the transaction moved.
OnePart == content(3, None, x1, a2, TRUE, <<part(3, None, x2, FALSE)>>)
Gone == [Plain EXCEPT !.deleted = TRUE]
StatementRow == content(-5, None, x2, a3, TRUE, << >>)

SplitAndUnsplit == t1 :> {Plain, Halves, OnePart, Gone} @@ t2 :> {StatementRow}
OnlySplit == t1 :> {Halves} @@ t2 :> {StatementRow}

\* The rule added last may outrank the first; both match x2.
TwoRules ==
    {[priority |-> 100, matches |-> {x1, x2}, name |-> n1],
     [priority |-> 1, matches |-> {x2}, name |-> n2]}
=============================================================================
