----------------------------- MODULE SyncProofs -----------------------------
(***************************************************************************)
(* Proofs about YnabSync, for any budget.  Type correctness holds for any  *)
(* processes and edits.  What the cursor promises is proved for one sync   *)
(* at a time and a budget that is not edited during a pull; the run        *)
(* sync_mid_pull refutes it without the second assumption.  Under both     *)
(* YnabSync implements BudgetCopy.                                         *)
(***************************************************************************)
EXTENDS SyncRefinement, TLAPS

OneProcess == \A p, q \in Procs : p = q
QuietPulls == MidPull = FALSE

-----------------------------------------------------------------------------
LEMMA TypeInit == Init => TypeOK
  BY MaxEditsAssumption DEF Init, TypeOK, NoDelta

LEMMA EndType ==
    ASSUME TypeOK, NEW p \in Procs, End(p), UNCHANGED knowledge
    PROVE  /\ pc' \in [Procs -> Kinds \cup {"idle", "apply"}]
           /\ since' \in [Procs -> 0..knowledge']
           /\ delta' \in [Procs -> [Entities -> 0..knowledge']]
           /\ newCursor' \in [Procs -> 0..knowledge']
  BY MaxEditsAssumption DEF TypeOK, End, NoDelta

LEMMA TypeStep == TypeOK /\ [Next]_vars => TypeOK'
<1> SUFFICES ASSUME TypeOK, [Next]_vars PROVE TypeOK'
  OBVIOUS
<1>0. knowledge \in Nat
  BY DEF TypeOK
<1>1. CASE UNCHANGED vars
  BY <1>1 DEF vars, TypeOK
<1>2. ASSUME NEW touched \in SUBSET Entities, Edit(touched)
      PROVE  TypeOK'
  <2>1. knowledge' = knowledge + 1 /\ knowledge' \in 0..MaxEdits
    BY <1>0, <1>2, MaxEditsAssumption DEF Edit
  <2>2. remote' \in [Entities -> 0..knowledge']
    BY <1>0, <1>2, <2>1 DEF Edit, TypeOK
  <2>3. \A n \in 0..knowledge : n \in 0..knowledge'
    BY <1>0, <2>1
  <2>4. UNCHANGED <<mirror, cursor, pc, since, delta, newCursor>>
    BY <1>2 DEF Edit, db
  <2> QED
    BY <2>1, <2>2, <2>3, <2>4 DEF TypeOK
<1>3. ASSUME NEW p \in Procs, Begin(p)
      PROVE  TypeOK'
  BY <1>3 DEF Begin, TypeOK, server, db, Kinds
<1>4. ASSUME NEW p \in Procs, NEW k \in Kinds, Fetch(p, k)
      PROVE  TypeOK'
  <2>1. After[k] \in Kinds \cup {"apply"}
    BY DEF After, Kinds
  <2>2. reply(p, k) \in [Entities -> 0..knowledge]
    BY DEF reply, TypeOK
  <2> QED
    BY <1>0, <1>4, <2>1, <2>2 DEF Fetch, TypeOK, server, db
<1>5. ASSUME NEW p \in Procs, Apply(p)
      PROVE  TypeOK'
  <2>1. upserted(delta[p]) \in [Entities -> 0..knowledge]
    BY DEF upserted, TypeOK
  <2>2. /\ mirror' = upserted(delta[p]) /\ cursor' = newCursor[p]
        /\ End(p) /\ UNCHANGED <<knowledge, remote>>
    BY <1>5 DEF Apply, server
  <2> QED
    BY <2>1, <2>2, EndType DEF TypeOK
<1>6. ASSUME NEW p \in Procs, Abort(p)
      PROVE  TypeOK'
  <2>1. End(p) /\ UNCHANGED <<knowledge, remote, mirror, cursor>>
    BY <1>6 DEF Abort, server, db
  <2> QED
    BY <2>1, EndType DEF TypeOK
<1> QED
  BY <1>1, <1>2, <1>3, <1>4, <1>5, <1>6 DEF Next, Sync

\* Every reachable state is well typed: no version and no cursor is ahead of
\* the server.
THEOREM TypeCorrect == Spec => []TypeOK
  BY TypeInit, TypeStep, PTL DEF Spec

-----------------------------------------------------------------------------
(***************************************************************************)
(* The inductive invariant follows a sync from its cursor to its commit.   *)
(***************************************************************************)

\* The kinds a pull has received when it is about to do s.
Received ==
    [s \in Kinds \cup {"apply"} |->
        CASE s = "accounts"     -> {}
          [] s = "categories"   -> {"accounts"}
          [] s = "payees"       -> {"accounts", "categories"}
          [] s = "transactions" -> {"accounts", "categories", "payees"}
          [] OTHER              -> Kinds]

\* What exists on the server refers to what exists.
RefsExist ==
    \A e \in Entities : remote[e] # 0 => \A r \in Refs[e] : remote[r] # 0

\* No row is newer than the cursor: they land together.
MirrorBehind == \A e \in Entities : mirror[e] <= cursor

\* Nobody moved the cursor since this sync read it.
SinceIsCursor == \A p \in Procs : pc[p] # "idle" => since[p] = cursor

\* A process that runs no sync holds no delta.
IdleHoldsNothing == \A p \in Procs : pc[p] = "idle" => delta[p] = NoDelta

\* A pull holds what it asked for, of the kinds it has received.
PullExact ==
    \A p \in Procs : pc[p] \in Kinds =>
        /\ pc[p] # "accounts" => newCursor[p] = knowledge
        /\ \A e \in Entities :
              delta[p][e] = IF KindOf[e] \in Received[pc[p]] /\ remote[e] > since[p]
                            THEN remote[e] ELSE 0

\* A complete delta holds everything from the old cursor up to the new one,
\* except what was edited after the pull.
DeltaExact ==
    \A p \in Procs : pc[p] = "apply" =>
        /\ since[p] <= newCursor[p]
        /\ \A e \in Entities :
              /\ delta[p][e] # 0 => since[p] < delta[p][e] /\ delta[p][e] <= newCursor[p]
              /\ remote[e] <= newCursor[p] =>
                    delta[p][e] = IF remote[e] > since[p] THEN remote[e] ELSE 0
              /\ delta[p][e] # 0 =>
                    \A r \in Refs[e] : mirror[r] # 0 \/ delta[p][r] # 0

SyncInv ==
    /\ RefsExist
    /\ MirrorBehind
    /\ SinceIsCursor
    /\ IdleHoldsNothing
    /\ PullExact
    /\ DeltaExact
    /\ CursorCovers

LEMMA SyncInit == Init => SyncInv
  BY DEF Init, SyncInv, RefsExist, MirrorBehind, SinceIsCursor, IdleHoldsNothing, PullExact, DeltaExact,
         CursorCovers, NoDelta, Kinds

LEMMA EditStep ==
    ASSUME QuietPulls, TypeOK, SyncInv,
           NEW touched \in SUBSET Entities, Edit(touched)
    PROVE  SyncInv'
<1> USE DEF SyncInv
<1>1. /\ knowledge \in Nat /\ knowledge' = knowledge + 1
      /\ remote \in [Entities -> 0..knowledge]
      /\ cursor \in 0..knowledge
      /\ newCursor \in [Procs -> 0..knowledge]
      /\ UNCHANGED <<mirror, cursor, pc, since, delta, newCursor>>
  BY DEF TypeOK, Edit, db
<1>2. \A p \in Procs : pc[p] \notin {"categories", "payees", "transactions"}
  BY DEF Edit, QuietPulls, Pulling
<1>3. \A e \in Entities : remote'[e] = IF e \in touched THEN knowledge + 1 ELSE remote[e]
  BY DEF Edit
<1>4. RefsExist'
  BY <1>1, <1>3, RefsAssumption DEF RefsExist, Edit
<1>5. MirrorBehind' /\ SinceIsCursor' /\ IdleHoldsNothing'
  BY <1>1 DEF MirrorBehind, SinceIsCursor, IdleHoldsNothing
<1>6. PullExact'
  <2> SUFFICES ASSUME NEW p \in Procs, pc[p] \in Kinds
               PROVE  /\ pc[p] = "accounts"
                      /\ \A e \in Entities : delta[p][e] = 0
    BY <1>1 DEF PullExact, Received, Kinds
  <2>1. pc[p] = "accounts"
    BY <1>2 DEF Kinds
  <2>2. Received[pc[p]] = {}
    BY <2>1 DEF Received, Kinds
  <2> QED
    BY <2>1, <2>2 DEF PullExact
<1>7. DeltaExact'
  <2> SUFFICES ASSUME NEW p \in Procs, pc[p] = "apply", NEW e \in Entities,
                      remote'[e] <= newCursor[p]
               PROVE  remote'[e] = remote[e]
    BY <1>1 DEF DeltaExact
  <2> QED
    BY <1>1, <1>3
<1>8. CursorCovers'
  BY <1>1, <1>3 DEF CursorCovers
<1> QED
  BY <1>4, <1>5, <1>6, <1>7, <1>8

LEMMA FetchStep ==
    ASSUME OneProcess, TypeOK, SyncInv,
           NEW p \in Procs, NEW k \in Kinds, Fetch(p, k)
    PROVE  SyncInv'
<1> USE DEF SyncInv
<1>1. /\ pc[p] = k /\ pc'[p] = After[k]
      /\ delta'[p] = reply(p, k)
      /\ newCursor'[p] = IF knowledge > newCursor[p] THEN knowledge ELSE newCursor[p]
      /\ UNCHANGED <<knowledge, remote, mirror, cursor, since>>
  BY DEF Fetch, TypeOK, server, db
<1>2. /\ knowledge \in Nat
      /\ remote \in [Entities -> 0..knowledge]
      /\ since[p] \in 0..knowledge
      /\ newCursor[p] \in 0..knowledge
      /\ KindOf \in [Entities -> Kinds]
  BY KindOfAssumption DEF TypeOK
<1>3. \A q \in Procs : q = p
  BY DEF OneProcess
<1>4. newCursor'[p] = knowledge
  BY <1>1, <1>2
<1>5. /\ After[k] \in Kinds \cup {"apply"} /\ After[k] # "accounts"
      /\ Received[After[k]] = Received[k] \cup {k}
  BY DEF After, Received, Kinds
<1>6. \A e \in Entities :
         delta'[p][e] = IF KindOf[e] \in Received[After[k]] /\ remote[e] > since[p]
                        THEN remote[e] ELSE 0
  <2> TAKE e \in Entities
  <2>1. delta[p][e] = IF KindOf[e] \in Received[k] /\ remote[e] > since[p]
                      THEN remote[e] ELSE 0
    BY <1>1 DEF PullExact
  <2>2. delta'[p][e] = IF KindOf[e] = k /\ remote[e] > since[p]
                       THEN remote[e] ELSE delta[p][e]
    BY <1>1 DEF reply
  <2> QED
    BY <1>5, <2>1, <2>2
<1>7. RefsExist' /\ MirrorBehind' /\ CursorCovers'
  BY <1>1 DEF RefsExist, MirrorBehind, CursorCovers
<1>8. SinceIsCursor' /\ IdleHoldsNothing'
  BY <1>1, <1>3, <1>5 DEF SinceIsCursor, IdleHoldsNothing, Kinds
<1>9. PullExact'
  BY <1>1, <1>3, <1>4, <1>6 DEF PullExact
<1>10. DeltaExact'
  <2> SUFFICES ASSUME After[k] = "apply"
               PROVE  /\ since[p] <= newCursor'[p]
                      /\ \A e \in Entities :
                            /\ delta'[p][e] # 0 => since[p] < delta'[p][e]
                                                     /\ delta'[p][e] <= newCursor'[p]
                            /\ remote[e] <= newCursor'[p] =>
                                  delta'[p][e] = IF remote[e] > since[p]
                                                 THEN remote[e] ELSE 0
                            /\ delta'[p][e] # 0 =>
                                  \A r \in Refs[e] : mirror[r] # 0 \/ delta'[p][r] # 0
    BY <1>1, <1>3 DEF DeltaExact
  <2>1. \A e \in Entities :
           delta'[p][e] = IF remote[e] > since[p] THEN remote[e] ELSE 0
    <3>1. Received["apply"] = Kinds
      BY DEF Received, Kinds
    <3>2. \A e \in Entities : KindOf[e] \in Received[After[k]]
      BY <1>2, <3>1
    <3> QED
      BY <1>6, <3>2
  <2>2. ASSUME NEW e \in Entities, delta'[p][e] # 0, NEW r \in Refs[e]
        PROVE  mirror[r] # 0 \/ delta'[p][r] # 0
    <3>1. r \in Entities /\ remote[r] # 0
      BY <2>1, <2>2, RefsAssumption DEF RefsExist
    <3>2. since[p] = cursor
      BY <1>1 DEF SinceIsCursor, Kinds
    <3>3. CASE remote[r] > since[p]
      BY <2>1, <3>1, <3>3
    <3>4. CASE remote[r] <= since[p]
      BY <3>1, <3>2, <3>4 DEF CursorCovers
    <3> QED
      BY <1>2, <3>1, <3>3, <3>4
  <2> QED
    BY <1>2, <1>4, <2>1, <2>2
<1> QED
  BY <1>7, <1>8, <1>9, <1>10

LEMMA ApplyStep ==
    ASSUME OneProcess, TypeOK, SyncInv, NEW p \in Procs, Apply(p)
    PROVE  /\ SyncInv'
           /\ cursor' >= cursor
           /\ \A e \in Entities : mirror'[e] >= mirror[e]
<1> USE DEF SyncInv
<1>1. /\ pc[p] = "apply" /\ pc'[p] = "idle" /\ delta'[p] = NoDelta
      /\ cursor' = newCursor[p]
      /\ UNCHANGED <<knowledge, remote>>
      /\ \A e \in Entities :
            mirror'[e] = IF delta[p][e] # 0 THEN delta[p][e] ELSE mirror[e]
  BY DEF Apply, upserted, End, TypeOK, server
<1>2. /\ knowledge \in Nat
      /\ remote \in [Entities -> 0..knowledge]
      /\ mirror \in [Entities -> 0..knowledge]
      /\ cursor \in 0..knowledge
      /\ newCursor[p] \in 0..knowledge
      /\ delta[p] \in [Entities -> 0..knowledge]
  BY DEF TypeOK
<1>3. \A q \in Procs : q = p
  BY DEF OneProcess
<1>4. since[p] = cursor /\ cursor <= newCursor[p]
  BY <1>1 DEF SinceIsCursor, DeltaExact
<1>5. \A e \in Entities : mirror'[e] >= mirror[e] /\ mirror'[e] <= cursor'
  <2> TAKE e \in Entities
  <2>1. mirror[e] <= cursor
    BY DEF MirrorBehind
  <2>2. delta[p][e] # 0 => cursor < delta[p][e] /\ delta[p][e] <= newCursor[p]
    BY <1>1, <1>4 DEF DeltaExact
  <2> QED
    BY <1>1, <1>2, <1>4, <2>1, <2>2
<1>6. CursorCovers'
  <2> SUFFICES ASSUME NEW e \in Entities, remote[e] <= newCursor[p]
               PROVE  mirror'[e] = remote[e]
    BY <1>1 DEF CursorCovers
  <2>1. delta[p][e] = IF remote[e] > cursor THEN remote[e] ELSE 0
    BY <1>1, <1>4 DEF DeltaExact
  <2>2. CASE remote[e] > cursor
    BY <1>1, <1>2, <2>1, <2>2
  <2>3. CASE remote[e] <= cursor
    BY <1>1, <1>2, <2>1, <2>3 DEF CursorCovers
  <2> QED
    BY <1>2, <2>2, <2>3
<1>7. RefsExist'
  BY <1>1 DEF RefsExist
<1>8. SinceIsCursor' /\ IdleHoldsNothing' /\ PullExact' /\ DeltaExact'
  BY <1>1, <1>3 DEF SinceIsCursor, IdleHoldsNothing, PullExact, DeltaExact, Kinds
<1>9. MirrorBehind'
  BY <1>5 DEF MirrorBehind
<1> QED
  BY <1>1, <1>2, <1>4, <1>5, <1>6, <1>7, <1>8, <1>9

LEMMA SyncStep ==
    ASSUME OneProcess, QuietPulls, TypeOK, SyncInv, [Next]_vars
    PROVE  /\ SyncInv'
           /\ cursor' >= cursor
           /\ \A e \in Entities : mirror'[e] >= mirror[e]
<1>0. cursor >= cursor /\ \A e \in Entities : mirror[e] >= mirror[e]
  BY DEF TypeOK
<1>1. CASE UNCHANGED vars
  <2>1. UNCHANGED <<knowledge, remote, mirror, cursor, pc, since, delta, newCursor>>
    BY <1>1 DEF vars
  <2> QED
    BY <1>0, <2>1 DEF SyncInv, RefsExist, MirrorBehind, SinceIsCursor, IdleHoldsNothing, PullExact,
       DeltaExact, CursorCovers
<1>2. ASSUME NEW touched \in SUBSET Entities, Edit(touched)
      PROVE  SyncInv' /\ UNCHANGED <<mirror, cursor>>
  BY <1>2, EditStep DEF Edit, db
<1>3. ASSUME NEW p \in Procs, NEW k \in Kinds, Fetch(p, k)
      PROVE  SyncInv' /\ UNCHANGED <<mirror, cursor>>
  BY <1>3, FetchStep DEF Fetch, db
<1>4. ASSUME NEW p \in Procs, Begin(p)
      PROVE  SyncInv' /\ UNCHANGED <<mirror, cursor>>
  <2>1. /\ pc[p] = "idle" /\ pc'[p] = "accounts" /\ since'[p] = cursor
        /\ UNCHANGED <<knowledge, remote, mirror, cursor, delta, newCursor>>
        /\ \A q \in Procs : q = p
    BY <1>4 DEF Begin, TypeOK, server, db, OneProcess
  <2>2. Received["accounts"] = {}
    BY DEF Received, Kinds
  <2>3. /\ RefsExist' /\ MirrorBehind' /\ SinceIsCursor' /\ IdleHoldsNothing'
        /\ DeltaExact' /\ CursorCovers'
    BY <2>1 DEF SyncInv, RefsExist, MirrorBehind, SinceIsCursor, IdleHoldsNothing,
       DeltaExact, CursorCovers
  <2>4. \A e \in Entities : delta'[p][e] = 0
    BY <2>1 DEF SyncInv, IdleHoldsNothing, NoDelta
  <2>5. PullExact'
    BY <2>1, <2>2, <2>4 DEF PullExact
  <2> QED
    BY <2>1, <2>3, <2>5 DEF SyncInv
<1>5. ASSUME NEW p \in Procs, Abort(p)
      PROVE  SyncInv' /\ UNCHANGED <<mirror, cursor>>
  <2>1. /\ pc'[p] = "idle" /\ delta'[p] = NoDelta
        /\ UNCHANGED <<knowledge, remote, mirror, cursor>>
        /\ \A q \in Procs : q = p
    BY <1>5 DEF Abort, End, TypeOK, server, db, OneProcess
  <2> QED
    BY <2>1 DEF SyncInv, RefsExist, MirrorBehind, SinceIsCursor, IdleHoldsNothing,
       PullExact, DeltaExact, CursorCovers, Kinds
<1> QED
  BY <1>0, <1>1, <1>2, <1>3, <1>4, <1>5, ApplyStep DEF Next, Sync

(***************************************************************************)
(* The cursor promises the truth: what was edited at or before it is in    *)
(* the database, in its current version.                                   *)
(***************************************************************************)
THEOREM CursorIsTruthful ==
    ASSUME OneProcess, QuietPulls
    PROVE  Spec => []CursorCovers
<1>1. TypeOK /\ SyncInv /\ [Next]_vars => SyncInv'
  BY SyncStep
<1>2. SyncInv => CursorCovers
  BY DEF SyncInv
<1> QED
  BY <1>1, <1>2, TypeInit, TypeStep, SyncInit, PTL DEF Spec

\* A complete pull always commits: no foreign key can fail.
THEOREM NoForeignKeyFails ==
    ASSUME OneProcess, QuietPulls
    PROVE  Spec => []AppliesCleanly
<1>1. TypeOK /\ SyncInv /\ [Next]_vars => SyncInv'
  BY SyncStep
<1>2. SyncInv => AppliesCleanly
  <2> SUFFICES ASSUME SyncInv, NEW p \in Procs, pc[p] = "apply",
                      NEW e \in Entities, delta[p][e] # 0, NEW r \in Refs[e],
                      mirror[r] = 0
               PROVE  delta[p][r] # 0 /\ ApplyPosition[KindOf[r]] < ApplyPosition[KindOf[e]]
    BY DEF AppliesCleanly, ForeignKeysHold
  <2>1. delta[p][r] # 0
    BY DEF SyncInv, DeltaExact
  <2>2. \/ KindOf[e] = "payees" /\ KindOf[r] = "accounts"
        \/ KindOf[e] = "transactions" /\ KindOf[r] # "transactions"
    BY RefsOrder
  <2>3. KindOf[r] \in Kinds
    BY RefsAssumption, KindOfAssumption
  <2>4. ApplyPosition[KindOf[r]] < ApplyPosition[KindOf[e]]
    BY <2>2, <2>3 DEF ApplyPosition, Kinds
  <2> QED
    BY <2>1, <2>4
<1> QED
  BY <1>1, <1>2, TypeInit, TypeStep, SyncInit, PTL DEF Spec

\* One sync at a time never moves a row or the cursor back.
THEOREM SyncNeverReverts ==
    ASSUME OneProcess, QuietPulls
    PROVE  Spec => NeverReverts
<1>1. TypeOK /\ SyncInv /\ [Next]_vars => SyncInv'
  BY SyncStep
<1>2. TypeOK /\ SyncInv /\ [Next]_vars =>
        [/\ cursor' >= cursor
         /\ \A e \in Entities : mirror'[e] >= mirror[e]]_vars
  BY SyncStep
<1> QED
  BY <1>1, <1>2, TypeInit, TypeStep, SyncInit, PTL DEF Spec, NeverReverts

-----------------------------------------------------------------------------
(***************************************************************************)
(* The refinement of BudgetCopy.  On top of SyncInv, which follows a sync  *)
(* from its cursor to its commit, one fact is needed: what a complete      *)
(* delta makes of the database is what was taken.                          *)
(***************************************************************************)
DeltaMakesTaken ==
    \A p \in Procs : pc[p] = "apply" => upserted(delta[p]) = taken

CopyInv == TypeOK /\ SyncInv /\ DeltaMakesTaken

LEMMA CopyInvInit == HistoryInit => CopyInv
<1> SUFFICES ASSUME HistoryInit PROVE CopyInv
  OBVIOUS
<1>1. TypeOK /\ SyncInv
  BY TypeInit, SyncInit DEF HistoryInit
<1>2. DeltaMakesTaken
  BY DEF HistoryInit, Init, DeltaMakesTaken
<1> QED
  BY <1>1, <1>2 DEF CopyInv

\* The last reply completes the delta: what it lacks is behind the cursor, and
\* so in the database in its current version.
LEMMA LastReply ==
    ASSUME OneProcess, CopyInv, NEW p \in Procs, NEW k \in Kinds, Fetch(p, k),
           pc'[p] = "apply"
    PROVE  upserted(delta[p])' = remote
<1>1. /\ pc[p] = k /\ k = "transactions"
      /\ delta'[p] = reply(p, k)
      /\ UNCHANGED <<remote, mirror, cursor>>
  BY DEF Fetch, After, Kinds, CopyInv, TypeOK, server, db
<1>2. /\ remote \in [Entities -> 0..knowledge] /\ mirror \in [Entities -> 0..knowledge]
      /\ since[p] = cursor /\ cursor \in Nat /\ knowledge \in Nat
      /\ KindOf \in [Entities -> Kinds]
  BY <1>1, KindOfAssumption DEF CopyInv, TypeOK, SyncInv, SinceIsCursor, Kinds
<1>3. \A e \in Entities :
         delta[p][e] = IF KindOf[e] # "transactions" /\ remote[e] > cursor
                       THEN remote[e] ELSE 0
  <2>1. Received["transactions"] = Kinds \ {"transactions"}
    BY DEF Received, Kinds
  <2> QED
    BY <1>1, <1>2, <2>1 DEF CopyInv, SyncInv, PullExact
<1>4. \A e \in Entities : delta'[p][e] = IF remote[e] > cursor THEN remote[e] ELSE 0
  BY <1>1, <1>2, <1>3 DEF reply
<1>5. \A e \in Entities : remote[e] <= cursor => mirror[e] = remote[e]
  BY DEF CopyInv, SyncInv, CursorCovers
<1>6. \A e \in Entities :
         (IF delta'[p][e] # 0 THEN delta'[p][e] ELSE mirror[e]) = remote[e]
  BY <1>2, <1>4, <1>5
<1> QED
  BY <1>1, <1>2, <1>6 DEF upserted

LEMMA DeltaMakesTakenStep ==
    ASSUME OneProcess, QuietPulls, CopyInv, HistoryNext
    PROVE  DeltaMakesTaken'
<1> SUFFICES ASSUME NEW q \in Procs, pc'[q] = "apply"
             PROVE  upserted(delta[q])' = taken'
  BY DEF DeltaMakesTaken
<1>1. CASE \E p \in Procs, k \in Kinds : Fetch(p, k)
  <2>1. PICK k \in Kinds : Fetch(q, k)
    BY <1>1 DEF OneProcess
  <2>2. taken' = remote
    BY <1>1 DEF HistoryNext
  <2> QED
    BY <2>1, <2>2, LastReply
<1>2. CASE ~ \E p \in Procs, k \in Kinds : Fetch(p, k)
  <2>1. taken' = taken
    BY <1>2 DEF HistoryNext
  <2>2. PICK touched \in SUBSET Entities : Edit(touched)
    <3>1. ASSUME NEW p \in Procs, Begin(p) \/ Apply(p) \/ Abort(p)
          PROVE  pc'[q] \in {"accounts", "idle"}
      BY <3>1 DEF Begin, Apply, Abort, End, OneProcess, CopyInv, TypeOK
    <3> QED
      BY <1>2, <3>1 DEF HistoryNext, Next, Sync
  <2>3. UNCHANGED <<pc, delta, mirror>>
    BY <2>2 DEF Edit, db
  <2> QED
    BY <2>1, <2>3 DEF CopyInv, DeltaMakesTaken, upserted
<1> QED
  BY <1>1, <1>2

LEMMA CopyInvStep ==
    ASSUME OneProcess, QuietPulls
    PROVE  CopyInv /\ [HistoryNext]_historyVars => CopyInv'
<1> SUFFICES ASSUME CopyInv, [HistoryNext]_historyVars PROVE CopyInv'
  OBVIOUS
<1>1. [Next]_vars
  BY DEF HistoryNext, historyVars, vars
<1>2. TypeOK' /\ SyncInv'
  BY <1>1, TypeStep, SyncStep DEF CopyInv
<1>3. DeltaMakesTaken'
  <2>1. CASE HistoryNext
    BY <2>1, DeltaMakesTakenStep
  <2>2. CASE UNCHANGED historyVars
    BY <2>2 DEF historyVars, vars, CopyInv, DeltaMakesTaken, upserted
  <2> QED
    BY <2>1, <2>2
<1> QED
  BY <1>2, <1>3 DEF CopyInv

\* An edit is a change, an answered request a look at the budget, a commit an
\* installation of what was seen; every other step is invisible.
LEMMA StepCopies ==
    ASSUME OneProcess, CopyInv, CopyInv', [HistoryNext]_historyVars
    PROVE  [Promise!CopyNext]_(Promise!copyvars)
<1>1. CASE UNCHANGED <<remote, taken, mirror>>
  BY <1>1 DEF Promise!copyvars
<1>2. ASSUME HistoryNext, NEW p \in Procs, NEW k \in Kinds, Fetch(p, k)
      PROVE  Promise!Take
  BY <1>2 DEF HistoryNext, Fetch, server, db, Promise!Take
<1>3. ASSUME HistoryNext, ~ \E p \in Procs, k \in Kinds : Fetch(p, k)
      PROVE  taken' = taken
  BY <1>3 DEF HistoryNext
<1>4. ASSUME NEW touched \in SUBSET Entities, Edit(touched), taken' = taken
      PROVE  Promise!Change
  <2>1. remote' \in [Entities -> 0..MaxEdits]
    BY MaxEditsAssumption DEF CopyInv, TypeOK
  <2> QED
    BY <1>4, <2>1 DEF Edit, db, Promise!Change
<1>5. ASSUME NEW p \in Procs, Apply(p), taken' = taken
      PROVE  Promise!Install
  BY <1>5 DEF Apply, server, CopyInv, DeltaMakesTaken, Promise!Install
<1>6. ASSUME NEW p \in Procs, Begin(p) \/ Abort(p), taken' = taken
      PROVE  UNCHANGED <<remote, taken, mirror>>
  BY <1>6 DEF Begin, Abort, server, db
<1> QED
  BY <1>1, <1>2, <1>3, <1>4, <1>5, <1>6
     DEF HistoryNext, historyVars, vars, Next, Sync, Promise!CopyNext

\* One sync at a time, of a budget that is quiet while it is pulled, replaces
\* the database by the whole budget of one moment, and does nothing else to it.
THEOREM WholeBudgets ==
    ASSUME OneProcess, QuietPulls
    PROVE  HistorySpec => CopiesWholeBudgets
<1>1. CopyInv /\ [HistoryNext]_historyVars => CopyInv'
  BY CopyInvStep
<1>2. HistoryInit => Promise!CopyInit
  BY MaxEditsAssumption DEF HistoryInit, Init, NoDelta, Promise!CopyInit
<1>3. CopyInv /\ CopyInv' /\ [HistoryNext]_historyVars =>
        [Promise!CopyNext]_(Promise!copyvars)
  BY StepCopies
<1> QED
  BY <1>1, <1>2, <1>3, CopyInvInit, PTL
     DEF HistorySpec, CopiesWholeBudgets, Promise!CopySpec
=============================================================================
