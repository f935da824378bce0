------------------------------ MODULE YnabSync ------------------------------
(***************************************************************************)
(* Delta sync of one YNAB budget: run_sync of sources/ynab/sync.py, pull   *)
(* of sources/ynab/source.py and the upserts of db/_upsert.py.             *)
(*                                                                         *)
(* The budget lives on YNAB's server (external, modelled from how the      *)
(* client uses it): every edit raises one counter, the server knowledge,   *)
(* and stamps the entities it touches.  A request that sends a cursor gets *)
(* the entities of one kind stamped after it, and the current knowledge.   *)
(* A stamp stands for the whole content of an entity, deletion included.   *)
(*                                                                         *)
(* A pull makes four requests, one step each, so the budget may be edited  *)
(* and other processes may sync in between.  The database transaction at   *)
(* the end is one step: its first statement is a write.                    *)
(*                                                                         *)
(* An operator whose name ends in _BUG_<what> is a plausible slip in the   *)
(* definition that follows it; the specification never uses it.            *)
(***************************************************************************)
EXTENDS Integers, FiniteSets

CONSTANTS
    Procs,      \* processes that may run a sync (CLI commands, MCP server)
    Entities,   \* accounts, categories, payees and transactions
    KindOf,     \* the kind of an entity, i.e. the endpoint that serves it
    Refs,       \* the entities a row refers to by a foreign key
    Unmappable, \* entities whose amounts are not whole cents
    MidPull,    \* may the budget be edited while a pull is under way?
    MaxEdits    \* bound on the edits of the budget

Kinds == {"accounts", "categories", "payees", "transactions"}

ASSUME KindOfAssumption == KindOf \in [Entities -> Kinds]
ASSUME RefsAssumption == Refs \in [Entities -> SUBSET Entities]
ASSUME MidPullAssumption == MidPull \in BOOLEAN
ASSUME MaxEditsAssumption == MaxEdits \in Nat

VARIABLES
    knowledge,  \* the server's knowledge counter
    remote,     \* entity -> stamp of its last edit on the server (0: none)
    mirror,     \* entity -> stamp of the version in the database (0: no row)
    cursor,     \* sync_state.server_knowledge (0: no row yet, or NULL)
    pc,         \* "idle", the kind to request next, or "apply"
    since,      \* the cursor a sync read and sends with its requests
    delta,      \* what its pull has received: entity -> stamp (0: not in it)
    newCursor   \* the highest server_knowledge its replies advertised

server == <<knowledge, remote>>
db == <<mirror, cursor>>
vars == <<knowledge, remote, mirror, cursor, pc, since, delta, newCursor>>

-----------------------------------------------------------------------------
\* pull requests the kinds in this order, then the sync applies the delta.
After ==
    [k \in Kinds |->
        CASE k = "accounts"   -> "categories"
          [] k = "categories" -> "payees"
          [] k = "payees"     -> "transactions"
          [] OTHER            -> "apply"]

\* The order in which the transaction upserts the kinds of a delta.
ApplyPosition_BUG_transactions_first ==
    [k \in Kinds |->
        CASE k = "accounts"   -> 2
          [] k = "categories" -> 3
          [] k = "payees"     -> 4
          [] OTHER            -> 1]

ApplyPosition ==
    [k \in Kinds |->
        CASE k = "accounts"   -> 1
          [] k = "categories" -> 2
          [] k = "payees"     -> 3
          [] OTHER            -> 4]

\* Accounts and categories refer to no other row, payees to the account of a
\* transfer, transactions to an account, a category and a payee.
ASSUME RefsOrder ==
    \A e \in Entities : \A r \in Refs[e] :
        \/ KindOf[e] = "payees" /\ KindOf[r] = "accounts"
        \/ KindOf[e] = "transactions" /\ KindOf[r] # "transactions"

NoDelta == [e \in Entities |-> 0]

Init ==
    /\ knowledge = 0
    /\ remote = NoDelta
    /\ mirror = NoDelta
    /\ cursor = 0
    /\ pc = [p \in Procs |-> "idle"]
    /\ since = [p \in Procs |-> 0]
    /\ delta = [p \in Procs |-> NoDelta]
    /\ newCursor = [p \in Procs |-> 0]

\* The sync of process p is over: it returned, raised, or was killed.
End(p) ==
    /\ pc' = [pc EXCEPT ![p] = "idle"]
    /\ since' = [since EXCEPT ![p] = 0]
    /\ delta' = [delta EXCEPT ![p] = NoDelta]
    /\ newCursor' = [newCursor EXCEPT ![p] = 0]

-----------------------------------------------------------------------------
\* A pull has some of its replies and awaits others.
Pulling(p) == pc[p] \in {"categories", "payees", "transactions"}

(***************************************************************************)
(* Someone edits the budget: one edit creates or changes some entities,    *)
(* and what they refer to exists by then.                                  *)
(***************************************************************************)
Edit(touched) ==
    /\ knowledge < MaxEdits
    /\ MidPull \/ \A p \in Procs : ~Pulling(p)
    /\ \A e \in touched : \A r \in Refs[e] : r \in touched \/ remote[r] # 0
    /\ knowledge' = knowledge + 1
    /\ remote' = [e \in Entities |->
                    IF e \in touched THEN knowledge + 1 ELSE remote[e]]
    /\ UNCHANGED <<db, pc, since, delta, newCursor>>

-----------------------------------------------------------------------------
\* validate succeeds; then the cursor is read.
Begin(p) ==
    /\ pc[p] = "idle"
    /\ pc' = [pc EXCEPT ![p] = "accounts"]
    /\ since' = [since EXCEPT ![p] = cursor]
    /\ UNCHANGED <<server, db, delta, newCursor>>

(***************************************************************************)
(* One request is answered.  Retries inside the client are not visible     *)
(* here.  The replies are mapped only when all are in: an amount that is   *)
(* not a whole number of cents raises ValueError, and the sync can do      *)
(* nothing but end.                                                        *)
(***************************************************************************)
reply_BUG_sends_next_cursor(p, k) ==
    [e \in Entities |->
        IF KindOf[e] = k /\ remote[e] > since[p] + 1
        THEN remote[e] ELSE delta[p][e]]

reply(p, k) ==
    [e \in Entities |->
        IF KindOf[e] = k /\ remote[e] > since[p]
        THEN remote[e] ELSE delta[p][e]]

Mappable(d) == \A e \in Unmappable : d[e] = 0

Fetch_BUG_cursor_off_by_one(p, k) ==
    /\ pc[p] = k
    /\ k = "transactions" => Mappable(reply(p, k))
    /\ pc' = [pc EXCEPT ![p] = After[k]]
    /\ delta' = [delta EXCEPT ![p] = reply(p, k)]
    /\ newCursor' = [newCursor EXCEPT ![p] = knowledge + 1]
    /\ UNCHANGED <<server, db, since>>

Fetch(p, k) ==
    /\ pc[p] = k
    /\ k = "transactions" => Mappable(reply(p, k))
    /\ pc' = [pc EXCEPT ![p] = After[k]]
    /\ delta' = [delta EXCEPT ![p] = reply(p, k)]
    /\ newCursor' = [newCursor EXCEPT ![p] =
                       IF knowledge > @ THEN knowledge ELSE @]
    /\ UNCHANGED <<server, db, since>>

(***************************************************************************)
(* Foreign keys are checked row by row: what a row refers to is in the     *)
(* database already, or was upserted earlier in the same transaction.      *)
(***************************************************************************)
ForeignKeysHold(d) ==
    \A e \in Entities : d[e] # 0 =>
        \A r \in Refs[e] :
            \/ mirror[r] # 0
            \/ d[r] # 0 /\ ApplyPosition[KindOf[r]] < ApplyPosition[KindOf[e]]

upserted(d) == [e \in Entities |-> IF d[e] # 0 THEN d[e] ELSE mirror[e]]

\* The transaction of run_sync: rows and cursor land together.
Apply(p) ==
    /\ pc[p] = "apply"
    /\ ForeignKeysHold(delta[p])
    /\ mirror' = upserted(delta[p])
    /\ cursor' = newCursor[p]
    /\ End(p)
    /\ UNCHANGED server

(***************************************************************************)
(* The sync ends without a trace: the client gives up on a request, a row  *)
(* cannot be mapped, a foreign key fails and the transaction rolls back,   *)
(* or the process is killed.                                               *)
(***************************************************************************)
Abort_BUG_forgets_cursor(p) ==
    /\ pc[p] # "idle"
    /\ cursor' = 0
    /\ End(p)
    /\ UNCHANGED <<server, mirror>>

\* The upserts were not in one transaction: those of the accounts are kept.
Abort_BUG_keeps_accounts(p) ==
    /\ pc[p] # "idle"
    /\ mirror' = [e \in Entities |->
                    IF pc[p] = "apply" /\ KindOf[e] = "accounts"
                    THEN upserted(delta[p])[e] ELSE mirror[e]]
    /\ End(p)
    /\ UNCHANGED <<server, cursor>>

Abort(p) ==
    /\ pc[p] # "idle"
    /\ End(p)
    /\ UNCHANGED <<server, db>>

Sync(p) == Begin(p) \/ (\E k \in Kinds : Fetch(p, k)) \/ Apply(p) \/ Abort(p)

Next ==
    \/ \E touched \in SUBSET Entities \ {{}} : Edit(touched)
    \/ \E p \in Procs : Sync(p)

Spec == Init /\ [][Next]_vars

\* The sync can only raise: ValueError of a row, or a failing foreign key.
MustRaise(p) ==
    \/ pc[p] = "transactions" /\ ~Mappable(reply(p, "transactions"))
    \/ pc[p] = "apply" /\ ~ForeignKeysHold(delta[p])

(***************************************************************************)
(* The user, a timer or an assistant runs the sync again and again, it     *)
(* does not hang, and no endpoint fails forever.  Nobody has to edit the   *)
(* budget.                                                                 *)
(***************************************************************************)
Fairness ==
    \A p \in Procs :
        /\ WF_vars(Begin(p))
        /\ WF_vars(MustRaise(p) /\ Abort(p))
        /\ \A k \in Kinds : SF_vars(Fetch(p, k))
        /\ SF_vars(Apply(p))

FairSpec == Spec /\ Fairness

-----------------------------------------------------------------------------
(***************************************************************************)
(* Properties                                                              *)
(***************************************************************************)

\* Counters and stamps stay within the knowledge the server has handed out.
TypeOK ==
    /\ knowledge \in 0..MaxEdits
    /\ remote \in [Entities -> 0..knowledge]
    /\ mirror \in [Entities -> 0..knowledge]
    /\ cursor \in 0..knowledge
    /\ pc \in [Procs -> Kinds \cup {"idle", "apply"}]
    /\ since \in [Procs -> 0..knowledge]
    /\ delta \in [Procs -> [Entities -> 0..knowledge]]
    /\ newCursor \in [Procs -> 0..knowledge]

(***************************************************************************)
(* What the cursor stands for: the database has the current version of     *)
(* every entity last edited at or before it.  What is behind the cursor    *)
(* and missing is never asked for again.                                   *)
(***************************************************************************)
CursorCovers ==
    \A e \in Entities :
        remote[e] <= cursor => mirror[e] = remote[e]

(***************************************************************************)
(* The transaction of a pull that came through never fails on a foreign    *)
(* key: kinds are upserted in dependency order (lines 54-64), and what the *)
(* delta leaves out is in the database already.                            *)
(***************************************************************************)
AppliesCleanly ==
    \A p \in Procs : pc[p] = "apply" => ForeignKeysHold(delta[p])

\* No row goes back to an older version and the cursor never goes back.
NeverReverts ==
    [][/\ cursor' >= cursor
       /\ \A e \in Entities : mirror'[e] >= mirror[e]]_vars

\* When the edits end, the database becomes and stays equal to the budget,
\* whatever failed on the way.
CatchesUp == <>[](mirror = remote)

(***************************************************************************)
(* The design's promise for a row that cannot be mapped: it is skipped and *)
(* the sync completes, so that every other row still catches up.           *)
(***************************************************************************)
OthersCatchUp ==
    <>[](\A e \in Entities \ Unmappable : mirror[e] = remote[e])
=============================================================================
