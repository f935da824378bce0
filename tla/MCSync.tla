------------------------------- MODULE MCSync -------------------------------
(***************************************************************************)
(* Instances of YnabSync for TLC: a budget with one account, one category, *)
(* a payee and a transaction that refers to all of them.                   *)
(***************************************************************************)
EXTENDS SyncRefinement, TLC

CONSTANTS acct, cat, payee, txn

OneOfEach ==
    acct :> "accounts" @@ cat :> "categories" @@ payee :> "payees"
      @@ txn :> "transactions"

TxnRefersToAll ==
    acct :> {} @@ cat :> {} @@ payee :> {acct} @@ txn :> {acct, cat, payee}
=============================================================================
