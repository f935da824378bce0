---------------------------- MODULE IngestProofs ----------------------------
(***************************************************************************)
(* Proofs about StatementIngest, for any processes, accounts, files and    *)
(* rows.  The invariants are proved one on top of the other:               *)
(*   TypeInv (TypeOK and StmtHeld), then RowFollowsBatch,                  *)
(*   OneBatchPerStatement, NewestBatchOwnsRow, and ArchiveInv              *)
(*   (ArchivedBeforeStaged and CopyHeld), each inductive given TypeInv,    *)
(*   and for one process at a time ReviewInv.                              *)
(***************************************************************************)
EXTENDS IngestRefinement, Sums, TLAPS

-----------------------------------------------------------------------------
(***************************************************************************)
(* Type correctness.  TypeOK is not inductive: Stage writes stmt[p] into   *)
(* the new batch and Register into sources, and it is a statement or a     *)
(* source only because the process that ingests or registers holds one.    *)
(***************************************************************************)
StmtHeld ==
    \A p \in Procs :
        /\ pc[p] \in {"drop", "parse", "copy", "stage"} => stmt[p] \in Statements
        /\ pc[p] = "register" => stmt[p] \in Sources

TypeInv == TypeOK /\ StmtHeld

\* The ids of a statement's rows are row ids of its source.
LEMMA ExternalIdsType ==
    ASSUME NEW st \in Statements
    PROVE  external_ids(st) \subseteq RowIds
<1>1. SUFFICES ASSUME NEW r \in external_ids(st)
               PROVE  r \in RowIds
  OBVIOUS
<1>2. st[1] \in Sources /\ st[2] \in Files
  BY DEF Statements
<1>3. PICK k \in Keys : \E n \in 0..(Occurs[st[2]][k] - 1) : r = <<st[1], k, n>>
  BY DEF external_ids
<1>4. PICK n \in 0..(Occurs[st[2]][k] - 1) : r = <<st[1], k, n>>
  BY <1>3
<1>5. Occurs[st[2]][k] \in Nat
  BY <1>2, OccursAssumption
<1>6. n \in Nat
  BY <1>5
<1> QED
  BY <1>2, <1>4, <1>6 DEF RowIds

LEMMA TypeInit == Init => TypeInv
<1> SUFFICES ASSUME Init PROVE TypeInv
  OBVIOUS
<1>1. DOMAIN batches = {} /\ DOMAIN txns = {}
  BY DEF Init
<1>2. nextId \in 1..(MaxBatches + 1)
  BY MaxBatchesAssumption DEF Init
<1>3. batches \in [DOMAIN batches -> BatchRow] /\ txns \in [DOMAIN txns -> TxnRow]
  BY <1>1 DEF Init
<1>4. bid \in [Procs -> 0..MaxBatches]
  BY MaxBatchesAssumption DEF Init
<1>5. StmtHeld
  BY DEF Init, StmtHeld
<1> QED
  BY <1>1, <1>2, <1>3, <1>4, <1>5 DEF Init, TypeInv, TypeOK, Options

\* Ending a command, and moving on within it, keep the locals well typed.
LEMMA LocalsType ==
    ASSUME TypeInv, NEW p \in Procs,
           \/ End(p)
           \/ \E next \in {"parse", "copy", "stage"} :
                 GoTo(p, next) /\ pc[p] \in {"drop", "parse", "copy"}
    PROVE  /\ pc' \in [Procs -> {"idle", "register", "drop", "parse", "copy",
                                 "stage", "confirm", "reject"}]
           /\ stmt' \in [Procs -> Statements \cup Sources \cup {None}]
           /\ bid' \in [Procs -> 0..MaxBatches]
           /\ flags' \in [Procs -> Options]
           /\ StmtHeld'
<1> USE DEF TypeInv, TypeOK, StmtHeld, Options
<1>1. CASE End(p)
  BY <1>1, MaxBatchesAssumption DEF End
<1>2. CASE \E next \in {"parse", "copy", "stage"} :
              GoTo(p, next) /\ pc[p] \in {"drop", "parse", "copy"}
  BY <1>2 DEF GoTo
<1> QED
  BY <1>1, <1>2

LEMMA TypeStep == TypeInv /\ [Next]_vars => TypeInv'
<1> SUFFICES ASSUME TypeInv, [Next]_vars PROVE TypeInv'
  OBVIOUS
<1> USE DEF TypeInv
<1>1. CASE UNCHANGED vars
  BY <1>1 DEF vars, TypeOK, StmtHeld
<1>2. ASSUME NEW p \in Procs, NEW st \in Statements, NEW options \in Options,
             IngestStart(p, st, options)
      PROVE  TypeInv'
  <2> DEFINE prior == IF BatchesOf(st) = {} THEN 0
                      ELSE CHOOSE b \in BatchesOf(st) : TRUE
  <2>1. prior \in 0..MaxBatches
    BY MaxBatchesAssumption DEF TypeOK, BatchesOf
  <2>2. /\ bid' = [bid EXCEPT ![p] = prior]
        /\ pc' \in {[pc EXCEPT ![p] = "drop"], [pc EXCEPT ![p] = "parse"]}
        /\ stmt' = [stmt EXCEPT ![p] = st]
        /\ flags' = [flags EXCEPT ![p] = options]
        /\ UNCHANGED <<batches, nextId, txns, sources, archive>>
    BY <1>2 DEF IngestStart, db
  <2> HIDE DEF prior
  <2>3. StmtHeld'
    BY <2>2 DEF TypeOK, StmtHeld
  <2> QED
    BY <2>1, <2>2, <2>3 DEF TypeOK
<1>3. ASSUME NEW p \in Procs, DropPrior(p)
      PROVE  TypeInv'
  <2>1. GoTo(p, "parse") /\ pc[p] = "drop"
    BY <1>3 DEF DropPrior
  <2>2. /\ DOMAIN batches' \subseteq DOMAIN batches
        /\ batches' \in [DOMAIN batches' -> BatchRow]
    BY <1>3 DEF DropPrior, Restrict, TypeOK
  <2>3. UNCHANGED <<nextId, txns, sources, archive>>
    BY <1>3 DEF DropPrior
  <2> QED
    BY <2>1, <2>2, <2>3, LocalsType DEF TypeOK
<1>4. ASSUME NEW p \in Procs,
             RegisterRefused(p) \/ DropRefused(p) \/ ParseFails(p) \/ CopyFails(p)
               \/ StageRefused(p) \/ Crash(p)
      PROVE  TypeInv'
  <2>1. End(p) /\ UNCHANGED <<batches, nextId, txns, sources, archive>>
    BY <1>4 DEF RegisterRefused, DropRefused, ParseFails, CopyFails, StageRefused, Crash, db
  <2> QED
    BY <2>1, LocalsType DEF TypeOK
<1>5. ASSUME NEW p \in Procs, ParsedThenCopy(p) \/ ParsedNoArchive(p) \/ CopyDone(p)
      PROVE  TypeInv'
  <2>1. /\ pc[p] \in {"parse", "copy"}
        /\ \E next \in {"copy", "stage"} : GoTo(p, next)
        /\ UNCHANGED <<batches, nextId, txns, sources>>
    BY <1>5 DEF ParsedThenCopy, ParsedNoArchive, CopyDone, db
  <2>2. archive' \in [Statements -> {"none", "full"} \cup Procs]
    BY <1>5 DEF ParsedThenCopy, ParsedNoArchive, CopyDone, TypeOK
  <2> QED
    BY <2>1, <2>2, LocalsType DEF TypeOK
<1>6. ASSUME NEW p \in Procs, Stage(p)
      PROVE  TypeInv'
  <2> DEFINE row == [stmt |-> stmt[p], review_status |-> "pending",
                     archived |-> "archive" \in flags[p]]
  <2>1. stmt[p] \in Statements
    BY <1>6 DEF Stage, StmtHeld
  <2>2. row \in BatchRow
    BY <2>1 DEF BatchRow
  <2>3. /\ nextId \in BatchIds
        /\ nextId' = nextId + 1
        /\ batches' = insert_batch(row, nextId)
        /\ txns' = upsert_rows(stmt[p], nextId)
        /\ End(p)
        /\ UNCHANGED <<sources, archive>>
    BY <1>6 DEF Stage, TypeOK, BatchIds
  <2> HIDE DEF row
  <2>4. /\ DOMAIN batches' = DOMAIN batches \cup {nextId}
        /\ batches' \in [DOMAIN batches' -> BatchRow]
    BY <2>2, <2>3 DEF insert_batch, TypeOK
  <2>5. DOMAIN batches' \subseteq 1..(nextId' - 1) /\ nextId' \in 1..(MaxBatches + 1)
    BY <2>3, <2>4, MaxBatchesAssumption DEF TypeOK, BatchIds
  <2>6. [status |-> "pending_review", batch |-> nextId] \in TxnRow
    BY <2>3 DEF TxnRow
  <2>7. /\ DOMAIN txns' = DOMAIN txns \cup external_ids(stmt[p])
        /\ txns' \in [DOMAIN txns' -> TxnRow]
    BY <2>3, <2>6 DEF upsert_rows, TypeOK
  <2>8. DOMAIN txns' \subseteq RowIds
    BY <2>1, <2>7, ExternalIdsType DEF TypeOK
  <2> QED
    BY <2>3, <2>4, <2>5, <2>7, <2>8, LocalsType DEF TypeOK
<1>7. ASSUME NEW p \in Procs, NEW b \in DOMAIN batches,
             NEW verdict \in {"confirm", "reject"}, ReviewStart(p, b, verdict)
      PROVE  TypeInv'
  <2>1. b \in 0..MaxBatches
    BY MaxBatchesAssumption DEF TypeOK
  <2>2. StmtHeld'
    BY <1>7 DEF ReviewStart, StmtHeld, TypeOK
  <2> QED
    BY <1>7, <2>1, <2>2 DEF ReviewStart, TypeOK, db
<1>8. ASSUME NEW p \in Procs, Confirm(p) \/ Reject(p)
      PROVE  TypeInv'
  <2>1. /\ End(p)
        /\ UNCHANGED <<nextId, sources, archive>>
        /\ \E status \in {"confirmed", "rejected"} : batches' = resolve(bid[p], status)
        /\ txns' = confirm_rows(bid[p]) \/ txns' = reject_rows(bid[p])
    BY <1>8 DEF Confirm, Reject
  <2>2. DOMAIN batches' = DOMAIN batches /\ batches' \in [DOMAIN batches' -> BatchRow]
    BY <2>1 DEF resolve, TypeOK, BatchRow
  <2>3. DOMAIN txns' \subseteq DOMAIN txns /\ txns' \in [DOMAIN txns' -> TxnRow]
    <3>1. CASE txns' = confirm_rows(bid[p])
      BY <3>1 DEF confirm_rows, TypeOK, TxnRow
    <3>2. CASE txns' = reject_rows(bid[p])
      BY <3>2 DEF reject_rows, Restrict, TypeOK
    <3> QED
      BY <2>1, <3>1, <3>2
  <2> QED
    BY <2>1, <2>2, <2>3, LocalsType DEF TypeOK
<1>9. ASSUME NEW p \in Procs, NEW s \in Sources, RegisterStart(p, s)
      PROVE  TypeInv'
  <2>1. StmtHeld'
    BY <1>9 DEF RegisterStart, StmtHeld, TypeOK
  <2> QED
    BY <1>9, <2>1 DEF RegisterStart, TypeOK, db
<1>10. ASSUME NEW p \in Procs, Register(p)
       PROVE  TypeInv'
  <2>1. /\ End(p)
        /\ sources' = sources \cup {stmt[p]}
        /\ UNCHANGED <<batches, nextId, txns, archive>>
    BY <1>10 DEF Register
  <2>2. stmt[p] \in Sources
    BY <1>10 DEF Register, StmtHeld
  <2> QED
    BY <2>1, <2>2, LocalsType DEF TypeOK
<1> QED
  BY <1>1, <1>2, <1>3, <1>4, <1>5, <1>6, <1>7, <1>8, <1>9, <1>10
     DEF Next, Registration, Ingest, Review

\* Every reachable state is well typed, and a process that ingests holds the
\* statement it ingests.
THEOREM TypeCorrect == Spec => []TypeOK
<1>1. TypeInv => TypeOK
  BY DEF TypeInv
<1> QED
  BY <1>1, TypeInit, TypeStep, PTL DEF Spec

-----------------------------------------------------------------------------
(***************************************************************************)
(* The tables change in four ways.                                         *)
(***************************************************************************)
Dropped(b) ==
    /\ RowsOf(b) = {}
    /\ batches' = Restrict(batches, DOMAIN batches \ {b})
    /\ UNCHANGED txns

Staged(st, row) ==
    /\ st \in Statements /\ row \in BatchRow /\ nextId \in BatchIds
    /\ row.stmt = st /\ row.review_status = "pending"
    /\ BatchesOf(st) = {}
    /\ batches' = insert_batch(row, nextId)
    /\ txns' = upsert_rows(st, nextId)

Resolved(b) ==
    \/ batches' = resolve(b, "confirmed") /\ txns' = confirm_rows(b)
    \/ batches' = resolve(b, "rejected") /\ txns' = reject_rows(b)

LEMMA StageIsStaged ==
    ASSUME TypeInv, NEW p \in Procs, Stage(p)
    PROVE  \E st \in Statements, row \in BatchRow : Staged(st, row)
<1> DEFINE row == [stmt |-> stmt[p], review_status |-> "pending",
                   archived |-> "archive" \in flags[p]]
<1>1. stmt[p] \in Statements /\ row \in BatchRow
  BY DEF Stage, TypeInv, StmtHeld, BatchRow
<1>2. nextId \in BatchIds
  BY DEF Stage, TypeInv, TypeOK, BatchIds
<1>3. row.stmt = stmt[p] /\ row.review_status = "pending"
  OBVIOUS
<1>4. /\ BatchesOf(stmt[p]) = {}
      /\ batches' = insert_batch(row, nextId)
      /\ txns' = upsert_rows(stmt[p], nextId)
  BY DEF Stage, UniqueKeyFree
<1> HIDE DEF row
<1>5. Staged(stmt[p], row)
  BY <1>1, <1>2, <1>3, <1>4 DEF Staged
<1> QED
  BY <1>1, <1>5

LEMMA TableSteps ==
    ASSUME TypeInv, [Next]_vars
    PROVE  \/ UNCHANGED <<batches, txns>>
           \/ \E b \in 0..MaxBatches : Dropped(b) \/ Resolved(b)
           \/ \E st \in Statements, row \in BatchRow : Staged(st, row)
<1>1. CASE UNCHANGED vars
  BY <1>1 DEF vars
<1>2. ASSUME NEW p \in Procs, DropPrior(p)
      PROVE  \E b \in 0..MaxBatches : Dropped(b)
  BY <1>2 DEF DropPrior, Dropped, Referenced, TypeInv, TypeOK
<1>3. ASSUME NEW p \in Procs, Stage(p)
      PROVE  \E st \in Statements, row \in BatchRow : Staged(st, row)
  BY <1>3, StageIsStaged
<1>4. ASSUME NEW p \in Procs, Confirm(p) \/ Reject(p)
      PROVE  \E b \in 0..MaxBatches : Resolved(b)
  BY <1>4 DEF Confirm, Reject, Resolved, TypeInv, TypeOK
<1>5. ASSUME NEW p \in Procs,
             \/ \E st \in Statements, options \in Options :
                   IngestStart(p, st, options)
             \/ \E s \in Sources : RegisterStart(p, s)
             \/ Register(p)
             \/ RegisterRefused(p)
             \/ DropRefused(p)
             \/ ParsedThenCopy(p)
             \/ ParsedNoArchive(p)
             \/ ParseFails(p)
             \/ CopyDone(p)
             \/ CopyFails(p)
             \/ StageRefused(p)
             \/ \E b \in DOMAIN batches, verdict \in {"confirm", "reject"} :
                   ReviewStart(p, b, verdict)
             \/ Crash(p)
      PROVE  UNCHANGED <<batches, txns>>
  BY <1>5 DEF IngestStart, RegisterStart, Register, RegisterRefused, DropRefused,
              ParsedThenCopy, ParsedNoArchive, ParseFails, CopyDone, CopyFails, StageRefused, ReviewStart, Crash, db
<1> QED
  BY <1>1, <1>2, <1>3, <1>4, <1>5 DEF Next, Registration, Ingest, Review

-----------------------------------------------------------------------------
(***************************************************************************)
(* Rows follow their batch.  The stale checks of confirm and reject do no  *)
(* harm to this: whatever the status was, the transaction moves the batch  *)
(* and all of its rows together, and a batch that was dropped had no rows. *)
(***************************************************************************)
LEMMA RowFollowsBatchStep ==
    TypeInv /\ RowFollowsBatch /\ [Next]_vars => RowFollowsBatch'
<1> SUFFICES ASSUME TypeInv, RowFollowsBatch, [Next]_vars PROVE RowFollowsBatch'
  OBVIOUS
<1> USE DEF RowFollowsBatch
<1>0. /\ batches \in [DOMAIN batches -> BatchRow]
      /\ txns \in [DOMAIN txns -> TxnRow]
      /\ DOMAIN batches \subseteq 1..(nextId - 1)
      /\ nextId \in 1..(MaxBatches + 1)
  BY DEF TypeInv, TypeOK
<1>1. CASE UNCHANGED <<batches, txns>>
  BY <1>1
<1>2. ASSUME NEW b \in 0..MaxBatches, Dropped(b)
      PROVE  RowFollowsBatch'
  BY <1>2 DEF Dropped, RowsOf, Restrict
<1>3. ASSUME NEW st \in Statements, NEW row \in BatchRow, Staged(st, row)
      PROVE  RowFollowsBatch'
  <2>1. nextId \notin DOMAIN batches
    BY <1>0
  <2>2. \A x \in DOMAIN batches : x \in DOMAIN batches' /\ batches'[x] = batches[x]
    BY <1>3, <2>1 DEF Staged, insert_batch
  <2>3. nextId \in DOMAIN batches' /\ batches'[nextId].review_status = "pending"
    BY <1>3 DEF Staged, insert_batch
  <2>4. \A r \in DOMAIN txns' :
           \/ txns'[r] = [status |-> "pending_review", batch |-> nextId]
           \/ r \in DOMAIN txns /\ txns'[r] = txns[r]
    BY <1>3 DEF Staged, upsert_rows
  <2> QED
    BY <2>2, <2>3, <2>4
<1>4. ASSUME NEW b \in 0..MaxBatches, Resolved(b)
      PROVE  RowFollowsBatch'
  <2>1. CASE batches' = resolve(b, "confirmed") /\ txns' = confirm_rows(b)
    <3>1. ASSUME NEW r \in DOMAIN txns'
          PROVE  /\ r \in DOMAIN txns
                 /\ txns'[r].batch = txns[r].batch
                 /\ IF txns[r].batch = b THEN txns'[r].status = "confirmed"
                                         ELSE txns'[r] = txns[r]
      BY <1>0, <2>1 DEF confirm_rows, TxnRow
    <3>2. /\ DOMAIN batches' = DOMAIN batches
          /\ \A x \in DOMAIN batches : x # b => batches'[x] = batches[x]
          /\ b \in DOMAIN batches => batches'[b].review_status = "confirmed"
      BY <1>0, <2>1 DEF resolve, BatchRow
    <3> QED
      BY <3>1, <3>2
  <2>2. CASE batches' = resolve(b, "rejected") /\ txns' = reject_rows(b)
    <3>1. \A r \in DOMAIN txns' :
             r \in DOMAIN txns /\ txns'[r] = txns[r] /\ txns[r].batch # b
      BY <2>2 DEF reject_rows, Restrict, RowsOf
    <3>2. /\ DOMAIN batches' = DOMAIN batches
          /\ \A x \in DOMAIN batches : x # b => batches'[x] = batches[x]
      BY <2>2 DEF resolve
    <3> QED
      BY <3>1, <3>2
  <2> QED
    BY <1>4, <2>1, <2>2 DEF Resolved
<1> QED
  BY <1>1, <1>2, <1>3, <1>4, TableSteps

\* Under any interleaving, failure or crash, the rows under review are those of
\* pending batches and the rows in the reports those of confirmed batches.
THEOREM RowsFollowBatches == Spec => []RowFollowsBatch
<1>1. Init => RowFollowsBatch
  BY DEF Init, RowFollowsBatch
<1> QED
  BY <1>1, TypeInit, TypeStep, RowFollowsBatchStep, PTL DEF Spec

-----------------------------------------------------------------------------
\* UNIQUE (file_hash, source_id) decides the race of two ingests of one file.
LEMMA OneBatchStep ==
    TypeInv /\ OneBatchPerStatement /\ [Next]_vars => OneBatchPerStatement'
<1> SUFFICES ASSUME TypeInv, OneBatchPerStatement, [Next]_vars
             PROVE  OneBatchPerStatement'
  OBVIOUS
<1> USE DEF OneBatchPerStatement
<1>0. batches \in [DOMAIN batches -> BatchRow]
  BY DEF TypeInv, TypeOK
<1>1. CASE UNCHANGED <<batches, txns>>
  BY <1>1
<1>2. ASSUME NEW b \in 0..MaxBatches, Dropped(b)
      PROVE  OneBatchPerStatement'
  BY <1>2 DEF Dropped, Restrict
<1>3. ASSUME NEW st \in Statements, NEW row \in BatchRow, Staged(st, row)
      PROVE  OneBatchPerStatement'
  <2>1. \A x \in DOMAIN batches : batches[x].stmt # st
    BY <1>3 DEF Staged, BatchesOf
  <2>2. /\ DOMAIN batches' = DOMAIN batches \cup {nextId}
        /\ batches'[nextId].stmt = st
        /\ \A x \in DOMAIN batches : x # nextId => batches'[x] = batches[x]
    BY <1>3 DEF Staged, insert_batch
  <2> QED
    BY <2>1, <2>2
<1>4. ASSUME NEW b \in 0..MaxBatches, Resolved(b)
      PROVE  OneBatchPerStatement'
  <2>1. /\ DOMAIN batches' = DOMAIN batches
        /\ \A x \in DOMAIN batches : batches'[x].stmt = batches[x].stmt
    BY <1>0, <1>4 DEF Resolved, resolve, BatchRow
  <2> QED
    BY <2>1
<1> QED
  BY <1>1, <1>2, <1>3, <1>4, TableSteps

\* No interleaving of ingests leaves two batches for one file of one account.
THEOREM StatementsUnique == Spec => []OneBatchPerStatement
<1>1. Init => OneBatchPerStatement
  BY DEF Init, OneBatchPerStatement
<1> QED
  BY <1>1, TypeInit, TypeStep, OneBatchStep, PTL DEF Spec

-----------------------------------------------------------------------------
\* AUTOINCREMENT gives a staged batch the highest id, and the upsert moves every
\* row of its statement to it.
LEMMA NewestBatchStep ==
    TypeInv /\ NewestBatchOwnsRow /\ [Next]_vars => NewestBatchOwnsRow'
<1> SUFFICES ASSUME TypeInv, NewestBatchOwnsRow, [Next]_vars
             PROVE  NewestBatchOwnsRow'
  OBVIOUS
<1> USE DEF NewestBatchOwnsRow
<1>0. /\ batches \in [DOMAIN batches -> BatchRow]
      /\ txns \in [DOMAIN txns -> TxnRow]
      /\ DOMAIN batches \subseteq 1..(nextId - 1)
      /\ nextId \in 1..(MaxBatches + 1)
  BY DEF TypeInv, TypeOK
<1>1. CASE UNCHANGED <<batches, txns>>
  BY <1>1 DEF external_ids
<1>2. ASSUME NEW b \in 0..MaxBatches, Dropped(b)
      PROVE  NewestBatchOwnsRow'
  <2>1. \A x \in DOMAIN batches' : x \in DOMAIN batches /\ batches'[x] = batches[x]
    BY <1>2 DEF Dropped, Restrict
  <2>2. txns' = txns
    BY <1>2 DEF Dropped
  <2> QED
    BY <2>1, <2>2 DEF external_ids
<1>3. ASSUME NEW st \in Statements, NEW row \in BatchRow, Staged(st, row),
             NEW r \in DOMAIN txns', NEW x \in DOMAIN batches',
             r \in external_ids(batches'[x].stmt)
      PROVE  x <= txns'[r].batch
  <2>1. x = nextId \/ (x \in DOMAIN batches /\ batches'[x] = batches[x])
    BY <1>3 DEF Staged, insert_batch
  <2>2. x <= nextId /\ x \in Int
    BY <1>0, <2>1
  <2>3. batches'[nextId].stmt = st
    BY <1>3 DEF Staged, insert_batch
  <2>4. CASE r \in external_ids(st)
    <3>1. txns'[r].batch = nextId
      BY <1>3, <2>4 DEF Staged, upsert_rows
    <3> QED
      BY <2>2, <3>1
  <2>5. CASE r \notin external_ids(st)
    <3>1. r \in DOMAIN txns /\ txns'[r] = txns[r]
      BY <1>3, <2>5 DEF Staged, upsert_rows
    <3>2. x \in DOMAIN batches /\ batches'[x] = batches[x]
      BY <1>3, <2>1, <2>3, <2>5
    <3> QED
      BY <1>3, <3>1, <3>2
  <2> QED
    BY <2>4, <2>5
<1>4. ASSUME NEW b \in 0..MaxBatches, Resolved(b)
      PROVE  NewestBatchOwnsRow'
  <2>1. /\ DOMAIN batches' = DOMAIN batches
        /\ \A x \in DOMAIN batches : batches'[x].stmt = batches[x].stmt
    BY <1>0, <1>4 DEF Resolved, resolve, BatchRow
  <2>2. \A r \in DOMAIN txns' : r \in DOMAIN txns /\ txns'[r].batch = txns[r].batch
    BY <1>0, <1>4 DEF Resolved, confirm_rows, reject_rows, Restrict, TxnRow
  <2> QED
    BY <2>1, <2>2
<1>5. ASSUME NEW st \in Statements, NEW row \in BatchRow, Staged(st, row)
      PROVE  NewestBatchOwnsRow'
  BY <1>3, <1>5 DEF external_ids
<1> QED
  BY <1>1, <1>2, <1>4, <1>5, TableSteps

\* The newest batch whose statement contains a row is the one that decides it.
THEOREM NewestBatchDecides == Spec => []NewestBatchOwnsRow
<1>1. Init => NewestBatchOwnsRow
  BY DEF Init, NewestBatchOwnsRow
<1> QED
  BY <1>1, TypeInit, TypeStep, NewestBatchStep, PTL DEF Spec

-----------------------------------------------------------------------------
(***************************************************************************)
(* Archiving before staging.  The invariant reaches back to the process    *)
(* that is about to stage: once its copy was opened, the archive holds a   *)
(* file for its statement, and no step removes it.                         *)
(***************************************************************************)
CopyHeld ==
    \A p \in Procs :
        pc[p] = "copy" \/ (pc[p] = "stage" /\ "archive" \in flags[p]) =>
            archive[stmt[p]] # "none"

ArchiveInv == CopyHeld /\ ArchivedBeforeStaged

LEMMA ArchiveStays ==
    ASSUME TypeInv, [Next]_vars, NEW st \in Statements, archive[st] # "none"
    PROVE  archive'[st] # "none"
<1>1. ASSUME NEW p \in Procs, ParsedThenCopy(p) \/ CopyDone(p)
      PROVE  archive'[st] # "none"
  BY <1>1, ProcsAssumption DEF ParsedThenCopy, CopyDone, TypeInv, TypeOK
<1>2. CASE UNCHANGED archive
  BY <1>2
<1> QED
  BY <1>1, <1>2 DEF Next, Registration, Ingest, Review, vars, db, IngestStart,
     RegisterStart, Register, RegisterRefused, DropPrior, DropRefused, ParsedNoArchive, ParseFails, CopyFails, Stage, StageRefused, ReviewStart, Confirm,
     Reject, Crash

LEMMA ArchiveInvStep == TypeInv /\ ArchiveInv /\ [Next]_vars => ArchiveInv'
<1> SUFFICES ASSUME TypeInv, ArchiveInv, [Next]_vars PROVE ArchiveInv'
  OBVIOUS
<1>0. /\ batches \in [DOMAIN batches -> BatchRow]
      /\ DOMAIN batches \subseteq 1..(nextId - 1)
      /\ nextId \in 1..(MaxBatches + 1)
      /\ archive \in [Statements -> {"none", "full"} \cup Procs]
      /\ pc \in [Procs -> {"idle", "register", "drop", "parse", "copy",
                           "stage", "confirm", "reject"}]
      /\ stmt \in [Procs -> Statements \cup Sources \cup {None}]
      /\ flags \in [Procs -> Options]
      /\ \A p \in Procs : pc[p] \in {"copy", "stage"} => stmt[p] \in Statements
  BY DEF TypeInv, TypeOK, StmtHeld
<1>1. CopyHeld'
  <2> SUFFICES ASSUME NEW q \in Procs,
                      pc'[q] = "copy" \/ (pc'[q] = "stage" /\ "archive" \in flags'[q])
               PROVE  archive'[stmt'[q]] # "none"
    BY DEF CopyHeld
  <2>1. CASE pc'[q] = pc[q] /\ stmt'[q] = stmt[q] /\ flags'[q] = flags[q]
    BY <1>0, <2>1, ArchiveStays DEF ArchiveInv, CopyHeld
  <2>2. ASSUME ParsedThenCopy(q)
        PROVE  archive'[stmt'[q]] # "none"
    <3>1. stmt'[q] = stmt[q] /\ stmt[q] \in Statements
      BY <2>2 DEF ParsedThenCopy, GoTo, TypeInv, StmtHeld
    <3>2. archive'[stmt[q]] = q
      BY <1>0, <2>2, <3>1 DEF ParsedThenCopy
    <3> QED
      BY <3>1, <3>2, ProcsAssumption
  <2>3. ASSUME CopyDone(q)
        PROVE  archive'[stmt'[q]] # "none"
    <3>1. pc[q] = "copy" /\ stmt'[q] = stmt[q]
      BY <2>3 DEF CopyDone, GoTo
    <3> QED
      BY <1>0, <3>1, ArchiveStays DEF ArchiveInv, CopyHeld
  <2>4. ASSUME NEW p \in Procs,
               \/ \E st \in Statements, options \in Options :
                     IngestStart(p, st, options)
               \/ \E s \in Sources : RegisterStart(p, s)
               \/ DropPrior(p)
               \/ ParsedNoArchive(p)
               \/ \E b \in DOMAIN batches, verdict \in {"confirm", "reject"} :
                     ReviewStart(p, b, verdict)
               \/ End(p)
        PROVE  \/ pc'[q] = pc[q] /\ stmt'[q] = stmt[q] /\ flags'[q] = flags[q]
               \/ /\ q = p
                  /\ pc'[q] \in {"idle", "register", "drop", "parse", "confirm",
                                 "reject"}
               \/ q = p /\ "archive" \notin flags'[q] /\ pc'[q] = "stage"
    BY <1>0, <2>4 DEF IngestStart, RegisterStart, DropPrior, ParsedNoArchive, ReviewStart, End, GoTo
  <2>5. ASSUME NEW p \in Procs, p # q, ParsedThenCopy(p) \/ CopyDone(p)
        PROVE  pc'[q] = pc[q] /\ stmt'[q] = stmt[q] /\ flags'[q] = flags[q]
    BY <1>0, <2>5 DEF ParsedThenCopy, CopyDone, GoTo
  <2>6. ASSUME NEW p \in Procs,
               Register(p) \/ RegisterRefused(p) \/ DropRefused(p) \/ ParseFails(p)
                 \/ CopyFails(p) \/ Stage(p) \/ StageRefused(p) \/ Confirm(p) \/ Reject(p) \/ Crash(p)
        PROVE  End(p)
    BY <2>6 DEF Register, RegisterRefused, DropRefused, ParseFails, CopyFails, Stage,
                StageRefused, Confirm, Reject, Crash
  <2>7. CASE UNCHANGED vars
    BY <2>1, <2>7 DEF vars
  <2>8. CASE Next
    BY <2>1, <2>2, <2>3, <2>4, <2>5, <2>6, <2>8 DEF Next, Registration, Ingest, Review
  <2> QED
    BY <2>7, <2>8
<1>2. ArchivedBeforeStaged'
  <2>1. \A b \in DOMAIN batches : batches[b].stmt \in Statements
    BY <1>0 DEF BatchRow
  <2>2. ASSUME \A b \in DOMAIN batches' :
                  /\ b \in DOMAIN batches
                  /\ batches'[b].stmt = batches[b].stmt
                  /\ batches'[b].archived = batches[b].archived
        PROVE  ArchivedBeforeStaged'
    BY <2>1, <2>2, ArchiveStays DEF ArchivedBeforeStaged, ArchiveInv
  <2>3. ASSUME NEW p \in Procs, Stage(p)
        PROVE  ArchivedBeforeStaged'
    <3>1. /\ DOMAIN batches' = DOMAIN batches \cup {nextId}
          /\ batches'[nextId].stmt = stmt[p]
          /\ batches'[nextId].archived = ("archive" \in flags[p])
          /\ \A b \in DOMAIN batches : b # nextId => batches'[b] = batches[b]
      BY <2>3 DEF Stage, insert_batch
    <3>2. pc[p] = "stage" /\ stmt[p] \in Statements /\ archive' = archive
      BY <1>0, <2>3 DEF Stage
    <3>3. "archive" \in flags[p] => archive[stmt[p]] # "none"
      BY <3>2 DEF ArchiveInv, CopyHeld
    <3> QED
      BY <3>1, <3>2, <3>3 DEF ArchivedBeforeStaged, ArchiveInv
  <2>4. CASE UNCHANGED batches
    BY <2>2, <2>4
  <2>5. ASSUME NEW b \in 0..MaxBatches, Dropped(b)
        PROVE  ArchivedBeforeStaged'
    BY <2>2, <2>5 DEF Dropped, Restrict
  <2>6. ASSUME NEW b \in 0..MaxBatches, Resolved(b)
        PROVE  ArchivedBeforeStaged'
    BY <1>0, <2>2, <2>6 DEF Resolved, resolve, BatchRow
  <2>7. ASSUME NEW p \in Procs, Confirm(p) \/ Reject(p)
        PROVE  \E b \in 0..MaxBatches : Resolved(b)
    BY <2>7 DEF Confirm, Reject, Resolved, TypeInv, TypeOK
  <2>8. ASSUME NEW p \in Procs, DropPrior(p)
        PROVE  \E b \in 0..MaxBatches : Dropped(b)
    BY <2>8 DEF DropPrior, Dropped, Referenced, TypeInv, TypeOK
  <2>9. CASE UNCHANGED vars
    BY <2>4, <2>9 DEF vars
  <2>10. CASE Next
    BY <2>3, <2>4, <2>5, <2>6, <2>7, <2>8, <2>10 DEF Next, Registration, Ingest,
       Review, IngestStart, RegisterStart, Register, RegisterRefused, DropRefused, ParsedThenCopy, ParsedNoArchive, ParseFails, CopyDone, CopyFails,
       StageRefused, ReviewStart, Crash, db
  <2> QED
    BY <2>9, <2>10
<1> QED
  BY <1>1, <1>2 DEF ArchiveInv

\* A batch that names an archived copy has one, whatever fails or crashes.
THEOREM ArchivedFirst == Spec => []ArchivedBeforeStaged
<1>1. Init => ArchiveInv
  BY DEF Init, ArchiveInv, CopyHeld, ArchivedBeforeStaged
<1>2. ArchiveInv => ArchivedBeforeStaged
  BY DEF ArchiveInv
<1> QED
  BY <1>1, <1>2, TypeInit, TypeStep, ArchiveInvStep, PTL DEF Spec

-----------------------------------------------------------------------------
(***************************************************************************)
(* What may happen to the reports in one step.                             *)
(***************************************************************************)
LEMMA PublishStep ==
    ASSUME TypeInv, RowFollowsBatch, [Next]_vars,
           NEW r \in DOMAIN txns', InReports(r)', ~InReports(r)
    PROVE  /\ r \in DOMAIN txns
           /\ txns'[r].batch = txns[r].batch
           /\ batches[txns[r].batch].review_status # "confirmed"
           /\ batches'[txns[r].batch].review_status = "confirmed"
<1> USE DEF InReports
<1>0. /\ batches \in [DOMAIN batches -> BatchRow]
      /\ txns \in [DOMAIN txns -> TxnRow]
  BY DEF TypeInv, TypeOK
<1>1. ~ \E b \in 0..MaxBatches : Dropped(b)
  BY DEF Dropped
<1>2. ASSUME NEW st \in Statements, NEW row \in BatchRow, Staged(st, row)
      PROVE  FALSE
  <2>1. txns' = upsert_rows(st, nextId)
    BY <1>2 DEF Staged
  <2>2. txns'[r] = [status |-> "pending_review", batch |-> nextId]
          \/ (r \in DOMAIN txns /\ txns'[r] = txns[r])
    BY <2>1 DEF upsert_rows
  <2> QED
    BY <2>2
<1>3. PICK b \in 0..MaxBatches : Resolved(b)
  BY <1>1, <1>2, TableSteps
<1>4. ~ (batches' = resolve(b, "rejected") /\ txns' = reject_rows(b))
  BY DEF reject_rows, Restrict
<1>5. batches' = resolve(b, "confirmed") /\ txns' = confirm_rows(b)
  BY <1>3, <1>4 DEF Resolved
<1>6. r \in DOMAIN txns /\ txns[r].batch = b /\ txns'[r].batch = b
  BY <1>0, <1>5 DEF confirm_rows, TxnRow
<1>7. b \in DOMAIN batches /\ batches[b].review_status # "confirmed"
  BY <1>6 DEF RowFollowsBatch
<1>8. batches'[b].review_status = "confirmed"
  BY <1>0, <1>5, <1>7 DEF resolve, BatchRow
<1> QED
  BY <1>6, <1>7, <1>8

LEMMA LossStep ==
    ASSUME TypeInv, RowFollowsBatch, [Next]_vars,
           NEW r \in DOMAIN txns, InReports(r), ~InReports(r)'
    PROVE  \/ \E b \in DOMAIN batches' \ DOMAIN batches :
                 /\ r \in external_ids(batches'[b].stmt)
                 /\ txns'[r].batch = b
           \/ batches'[txns[r].batch].review_status = "rejected"
<1> USE DEF InReports
<1>0. /\ batches \in [DOMAIN batches -> BatchRow]
      /\ txns \in [DOMAIN txns -> TxnRow]
      /\ DOMAIN batches \subseteq 1..(nextId - 1)
      /\ nextId \in 1..(MaxBatches + 1)
  BY DEF TypeInv, TypeOK
<1>1. ~ UNCHANGED <<batches, txns>>
  OBVIOUS
<1>2. ~ \E b \in 0..MaxBatches : Dropped(b)
  BY DEF Dropped
<1>3. ASSUME NEW st \in Statements, NEW row \in BatchRow, Staged(st, row)
      PROVE  \E b \in DOMAIN batches' \ DOMAIN batches :
                /\ r \in external_ids(batches'[b].stmt)
                /\ txns'[r].batch = b
  <2>1. nextId \in DOMAIN batches' \ DOMAIN batches /\ batches'[nextId].stmt = st
    BY <1>0, <1>3 DEF Staged, insert_batch
  <2>2. r \in external_ids(st) /\ txns'[r].batch = nextId
    BY <1>3 DEF Staged, upsert_rows
  <2> QED
    BY <2>1, <2>2
<1>4. ASSUME NEW b \in 0..MaxBatches, Resolved(b)
      PROVE  batches'[txns[r].batch].review_status = "rejected"
  <2>1. ~ (batches' = resolve(b, "confirmed") /\ txns' = confirm_rows(b))
    BY <1>0 DEF confirm_rows, TxnRow
  <2>2. batches' = resolve(b, "rejected") /\ txns' = reject_rows(b)
    BY <1>4, <2>1 DEF Resolved
  <2>3. txns[r].batch = b
    BY <2>2 DEF reject_rows, Restrict, RowsOf
  <2>4. b \in DOMAIN batches
    BY <2>3 DEF RowFollowsBatch
  <2> QED
    BY <1>0, <2>2, <2>3, <2>4 DEF resolve, BatchRow
<1> QED
  BY <1>1, <1>2, <1>3, <1>4, TableSteps

\* Rows enter the reports out of review only, with the confirmation of their
\* batch.
THEOREM PublishedByConfirm == Spec => OnlyConfirmPublishes
<1>1. TypeInv /\ RowFollowsBatch /\ [Next]_vars =>
        [\A r \in DOMAIN txns' :
            InReports(r)' /\ ~InReports(r) =>
                /\ r \in DOMAIN txns
                /\ txns'[r].batch = txns[r].batch
                /\ batches[txns[r].batch].review_status # "confirmed"
                /\ batches'[txns[r].batch].review_status = "confirmed"]_vars
  BY PublishStep
<1> QED
  BY <1>1, TypeInit, TypeStep, RowsFollowBatches, PTL DEF Spec, OnlyConfirmPublishes

\* Rows leave the reports only by an overlapping statement or a late reject.
THEOREM LossExplained == Spec => ConfirmedLossExplained
<1>1. TypeInv /\ RowFollowsBatch /\ [Next]_vars =>
        [\A r \in DOMAIN txns :
            InReports(r) /\ ~InReports(r)' =>
                \/ \E b \in DOMAIN batches' \ DOMAIN batches :
                      /\ r \in external_ids(batches'[b].stmt)
                      /\ txns'[r].batch = b
                \/ batches'[txns[r].batch].review_status = "rejected"]_vars
  BY LossStep
<1> QED
  BY <1>1, TypeInit, TypeStep, RowsFollowBatches, PTL DEF Spec, ConfirmedLossExplained

-----------------------------------------------------------------------------
(***************************************************************************)
(* One process at a time, and no two statements share a row: the archived  *)
(* copies are whole, batches are complete, and BatchReview is implemented. *)
(*                                                                         *)
(* All rests on what a process knows of the batches after it has looked    *)
(* (LocalsFresh), which no other process can make stale, and on the rows   *)
(* of an open batch, which no other statement can take (RowsExact).        *)
(***************************************************************************)
OneProcess == \A p, q \in Procs : p = q

StatementsDisjoint ==
    \A s, t \in Statements : s # t => external_ids(s) \cap external_ids(t) = {}

-----------------------------------------------------------------------------
\* A batch that was not rejected has the rows of its statement, and no others.
RowsExact ==
    \A b \in DOMAIN batches :
        batches[b].review_status # "rejected" =>
            RowsOf(b) = external_ids(batches[b].stmt)

AllRejected(st) == \A b \in BatchesOf(st) : batches[b].review_status = "rejected"

LocalsFresh ==
    \A p \in Procs :
        /\ pc[p] \in {"confirm", "reject"} =>
              bid[p] \in DOMAIN batches /\ batches[bid[p]].review_status = "pending"
        /\ pc[p] = "drop" => bid[p] \in BatchesOf(stmt[p])
        /\ pc[p] \in {"parse", "copy", "stage"} => AllRejected(stmt[p])
        /\ pc[p] = "copy" => archive[stmt[p]] = p
        /\ pc[p] = "stage" /\ "archive" \in flags[p] => archive[stmt[p]] = "full"

TablesInv == TypeInv /\ RowFollowsBatch /\ OneBatchPerStatement

ReviewInv == TablesInv /\ RowsExact /\ LocalsFresh /\ ArchiveIntact

LEMMA TablesStep == TablesInv /\ [Next]_vars => TablesInv'
  BY TypeStep, RowFollowsBatchStep, OneBatchStep DEF TablesInv

LEMMA ReviewInit == Init => ReviewInv
<1> SUFFICES ASSUME Init PROVE ReviewInv
  OBVIOUS
<1>1. DOMAIN batches = {} /\ DOMAIN txns = {} /\ pc = [p \in Procs |-> "idle"]
  BY DEF Init
<1>2. TablesInv
  BY <1>1, TypeInit DEF TablesInv, RowFollowsBatch, OneBatchPerStatement
<1> QED
  BY <1>1, <1>2 DEF ReviewInv, RowsExact, LocalsFresh, ArchiveIntact

-----------------------------------------------------------------------------
(***************************************************************************)
(* The steps of TableSteps, with what their processes know of the batch.   *)
(***************************************************************************)
LEMMA ReviewSteps ==
    ASSUME TablesInv, LocalsFresh, [Next]_vars
    PROVE  \/ UNCHANGED <<batches, txns>>
           \/ \E b \in DOMAIN batches : Dropped(b)
           \/ \E b \in DOMAIN batches :
                 batches[b].review_status = "pending" /\ Resolved(b)
           \/ \E st \in Statements, row \in BatchRow : Staged(st, row)
<1>1. CASE UNCHANGED vars
  BY <1>1 DEF vars
<1>2. ASSUME NEW p \in Procs, DropPrior(p)
      PROVE  \E b \in DOMAIN batches : Dropped(b)
  <2>1. bid[p] \in DOMAIN batches
    BY <1>2 DEF DropPrior, LocalsFresh, BatchesOf
  <2> QED
    BY <1>2, <2>1 DEF DropPrior, Dropped, Referenced
<1>3. ASSUME NEW p \in Procs, Confirm(p) \/ Reject(p)
      PROVE  \E b \in DOMAIN batches :
                batches[b].review_status = "pending" /\ Resolved(b)
  <2>1. bid[p] \in DOMAIN batches /\ batches[bid[p]].review_status = "pending"
    BY <1>3 DEF Confirm, Reject, LocalsFresh
  <2> QED
    BY <1>3, <2>1 DEF Confirm, Reject, Resolved
<1>4. ASSUME NEW p \in Procs, Stage(p)
      PROVE  \E st \in Statements, row \in BatchRow : Staged(st, row)
  BY <1>4, StageIsStaged DEF TablesInv
<1>5. ASSUME NEW p \in Procs,
             \/ Registration(p)
             \/ \E st \in Statements, options \in Options :
                   IngestStart(p, st, options)
             \/ DropRefused(p) \/ ParsedThenCopy(p) \/ ParsedNoArchive(p)
             \/ ParseFails(p) \/ CopyDone(p) \/ CopyFails(p) \/ StageRefused(p)
             \/ \E b \in DOMAIN batches, verdict \in {"confirm", "reject"} :
                   ReviewStart(p, b, verdict)
             \/ Crash(p)
      PROVE  UNCHANGED <<batches, txns>>
  BY <1>5 DEF Registration, IngestStart, RegisterStart, Register, RegisterRefused,
              DropRefused, ParsedThenCopy, ParsedNoArchive, ParseFails, CopyDone,
              CopyFails, StageRefused, ReviewStart, Crash, db
<1> QED
  BY <1>1, <1>2, <1>3, <1>4, <1>5 DEF Next, Ingest, Review

-----------------------------------------------------------------------------
(***************************************************************************)
(* The rows of a batch.                                                    *)
(***************************************************************************)
LEMMA RowsExactStep ==
    ASSUME StatementsDisjoint, TablesInv, RowsExact, LocalsFresh, [Next]_vars
    PROVE  RowsExact'
<1>0. /\ batches \in [DOMAIN batches -> BatchRow]
      /\ txns \in [DOMAIN txns -> TxnRow]
      /\ DOMAIN batches \subseteq 1..(nextId - 1)
      /\ nextId \in 1..(MaxBatches + 1)
      /\ \A r \in DOMAIN txns : txns[r].batch \in DOMAIN batches
  BY DEF TablesInv, TypeInv, TypeOK, RowFollowsBatch
<1>1. CASE UNCHANGED <<batches, txns>>
  BY <1>1 DEF RowsExact, RowsOf, external_ids
<1>2. ASSUME NEW b \in DOMAIN batches, Dropped(b)
      PROVE  RowsExact'
  <2>1. \A x \in DOMAIN batches' : x \in DOMAIN batches /\ batches'[x] = batches[x]
    BY <1>2 DEF Dropped, Restrict
  <2>2. txns' = txns
    BY <1>2 DEF Dropped
  <2> QED
    BY <2>1, <2>2 DEF RowsExact, RowsOf, external_ids
<1>3. ASSUME NEW st \in Statements, NEW row \in BatchRow, Staged(st, row),
             NEW b \in DOMAIN batches', batches'[b].review_status # "rejected"
      PROVE  RowsOf(b)' = external_ids(batches'[b].stmt)
  <2>1. nextId \notin DOMAIN batches
    BY <1>0
  <2>2. /\ DOMAIN txns' = DOMAIN txns \cup external_ids(st)
        /\ \A r \in external_ids(st) : txns'[r].batch = nextId
        /\ \A r \in DOMAIN txns \ external_ids(st) : txns'[r] = txns[r]
    BY <1>3 DEF Staged, upsert_rows
  <2>3. CASE b = nextId
    <3>1. batches'[b].stmt = st
      BY <1>3, <2>3 DEF Staged, insert_batch
    <3>2. RowsOf(b)' = external_ids(st)
      BY <1>0, <2>1, <2>2, <2>3 DEF RowsOf
    <3> QED
      BY <3>1, <3>2
  <2>4. CASE b # nextId
    <3>1. b \in DOMAIN batches /\ batches'[b] = batches[b]
      BY <1>3, <2>4 DEF Staged, insert_batch
    <3>2. batches[b].stmt \in Statements /\ batches[b].stmt # st
      BY <1>0, <1>3, <3>1 DEF Staged, BatchesOf, BatchRow
    <3>3. external_ids(batches[b].stmt) \cap external_ids(st) = {}
      BY <1>3, <3>2 DEF StatementsDisjoint
    <3>4. RowsOf(b) = external_ids(batches[b].stmt)
      BY <1>3, <3>1 DEF RowsExact
    <3>5. RowsOf(b)' = RowsOf(b)
      BY <2>2, <2>4, <3>3, <3>4 DEF RowsOf
    <3> QED
      BY <3>1, <3>4, <3>5
  <2> QED
    BY <2>3, <2>4
<1>4. ASSUME NEW b \in DOMAIN batches, batches[b].review_status = "pending", Resolved(b)
      PROVE  RowsExact'
  <2>1. /\ DOMAIN batches' = DOMAIN batches
        /\ \A x \in DOMAIN batches : batches'[x].stmt = batches[x].stmt
        /\ \A x \in DOMAIN batches \ {b} : batches'[x] = batches[x]
    BY <1>0, <1>4 DEF Resolved, resolve, BatchRow
  <2>2. \/ batches'[b].review_status = "rejected"
        \/ RowsOf(b)' = RowsOf(b)
    BY <1>0, <1>4 DEF Resolved, resolve, RowsOf, confirm_rows, BatchRow, TxnRow
  <2>3. \A x \in DOMAIN batches \ {b} : RowsOf(x)' = RowsOf(x)
    BY <1>0, <1>4 DEF Resolved, RowsOf, confirm_rows, reject_rows, Restrict, TxnRow
  <2> QED
    BY <1>4, <2>1, <2>2, <2>3 DEF RowsExact, external_ids
<1> QED
  BY <1>1, <1>2, <1>3, <1>4, ReviewSteps DEF RowsExact

-----------------------------------------------------------------------------
(***************************************************************************)
(* What a process knows.  Nobody else can change it.                       *)
(***************************************************************************)
LEMMA LocalsFreshStep ==
    ASSUME OneProcess, TablesInv, LocalsFresh, [Next]_vars
    PROVE  LocalsFresh'
<1> USE DEF LocalsFresh
<1>0. /\ batches \in [DOMAIN batches -> BatchRow]
      /\ DOMAIN batches \subseteq 1..(nextId - 1)
      /\ archive \in [Statements -> {"none", "full"} \cup Procs]
      /\ pc \in [Procs -> {"idle", "register", "drop", "parse", "copy",
                           "stage", "confirm", "reject"}]
      /\ stmt \in [Procs -> Statements \cup Sources \cup {None}]
      /\ bid \in [Procs -> 0..MaxBatches]
      /\ flags \in [Procs -> Options]
      /\ \A p \in Procs : pc[p] \in {"parse", "copy", "stage"} => stmt[p] \in Statements
      /\ nextId \in 1..(MaxBatches + 1)
  BY DEF TablesInv, TypeInv, TypeOK, StmtHeld
<1>1. CASE UNCHANGED vars
  BY <1>1 DEF vars, AllRejected, BatchesOf
<1>2. ASSUME NEW p \in Procs, End(p)
      PROVE  LocalsFresh'
  <2>1. \A q \in Procs : pc'[q] = "idle"
    BY <1>0, <1>2 DEF End, OneProcess
  <2> QED
    BY <2>1
<1>3. ASSUME NEW p \in Procs, NEW s \in Sources, RegisterStart(p, s)
      PROVE  LocalsFresh'
  <2>1. \A q \in Procs : pc'[q] = "register"
    BY <1>0, <1>3 DEF RegisterStart, OneProcess
  <2> QED
    BY <2>1
<1>4. ASSUME NEW p \in Procs, NEW st \in Statements, NEW options \in Options,
             IngestStart(p, st, options)
      PROVE  LocalsFresh'
  <2> DEFINE prior == IF BatchesOf(st) = {} THEN 0
                      ELSE CHOOSE b \in BatchesOf(st) : TRUE
             dropIt == prior # 0 /\ "reingest" \in options
  <2>1. /\ bid'[p] = prior /\ stmt'[p] = st
        /\ pc'[p] = IF dropIt THEN "drop" ELSE "parse"
        /\ UNCHANGED batches
        /\ ~AlreadyIngested(st, options)
        /\ \A q \in Procs : q = p
    BY <1>0, <1>4 DEF IngestStart, db, OneProcess
  <2>2. BatchesOf(st)' = BatchesOf(st)
    BY <2>1 DEF BatchesOf
  <2>3. prior # 0 => prior \in BatchesOf(st)
    OBVIOUS
  <2>4. prior = 0 => BatchesOf(st) = {}
    <3>1. 0 \notin BatchesOf(st)
      BY <1>0 DEF BatchesOf
    <3> QED
      BY <3>1
  <2>5. "reingest" \notin options => AllRejected(st)
    BY <1>0, <2>1 DEF AlreadyIngested, AllRejected, BatchesOf, BatchRow
  <2>6. ~dropIt => AllRejected(st)
    BY <2>4, <2>5 DEF AllRejected
  <2> HIDE DEF prior
  <2>7. AllRejected(stmt[p])' <=> AllRejected(st)
    BY <2>1, <2>2 DEF AllRejected
  <2>8. BatchesOf(stmt[p])' = BatchesOf(st)
    BY <2>1, <2>2 DEF BatchesOf
  <2> QED
    BY <2>1, <2>3, <2>6, <2>7, <2>8
<1>5. ASSUME NEW p \in Procs, DropPrior(p)
      PROVE  LocalsFresh'
  <2>1. /\ bid[p] \in BatchesOf(stmt[p])
        /\ batches' = Restrict(batches, DOMAIN batches \ {bid[p]})
        /\ pc'[p] = "parse" /\ stmt'[p] = stmt[p]
        /\ \A q \in Procs : q = p
    BY <1>0, <1>5 DEF DropPrior, GoTo, OneProcess
  <2>2. BatchesOf(stmt[p]) = {bid[p]}
    BY <2>1 DEF TablesInv, OneBatchPerStatement, BatchesOf
  <2>3. BatchesOf(stmt[p])' = {}
    BY <2>1, <2>2 DEF BatchesOf, Restrict
  <2>4. AllRejected(stmt[p])'
    BY <2>1, <2>3 DEF AllRejected, BatchesOf
  <2> QED
    BY <2>1, <2>4
<1>6. ASSUME NEW p \in Procs, ParsedThenCopy(p) \/ ParsedNoArchive(p) \/ CopyDone(p)
      PROVE  LocalsFresh'
  <2>1. /\ pc[p] \in {"parse", "copy"} /\ AllRejected(stmt[p]) /\ stmt[p] \in Statements
        /\ stmt' = stmt /\ flags' = flags /\ batches' = batches
        /\ \A q \in Procs : q = p
    BY <1>0, <1>6 DEF ParsedThenCopy, ParsedNoArchive, CopyDone, GoTo, db, OneProcess
  <2>2. AllRejected(stmt[p])'
    BY <2>1 DEF AllRejected, BatchesOf
  <2>3. \/ pc'[p] = "copy" /\ archive'[stmt[p]] = p
        \/ pc'[p] = "stage" /\ "archive" \notin flags[p]
        \/ pc'[p] = "stage" /\ archive'[stmt[p]] = "full"
    BY <1>0, <1>6, <2>1 DEF ParsedThenCopy, ParsedNoArchive, CopyDone, GoTo
  <2> QED
    BY <2>1, <2>2, <2>3
<1>7. ASSUME NEW p \in Procs, NEW b \in DOMAIN batches,
             NEW verdict \in {"confirm", "reject"}, ReviewStart(p, b, verdict)
      PROVE  LocalsFresh'
  <2>1. /\ pc'[p] \in {"confirm", "reject"} /\ bid'[p] = b
        /\ batches' = batches /\ batches[b].review_status = "pending"
        /\ \A q \in Procs : q = p
    BY <1>0, <1>7 DEF ReviewStart, Reviewable, db, OneProcess
  <2> QED
    BY <2>1
<1>8. ASSUME NEW p \in Procs,
             Register(p) \/ RegisterRefused(p) \/ DropRefused(p) \/ ParseFails(p)
               \/ CopyFails(p) \/ Stage(p) \/ StageRefused(p) \/ Confirm(p)
               \/ Reject(p) \/ Crash(p)
      PROVE  End(p)
  BY <1>8 DEF Register, RegisterRefused, DropRefused, ParseFails, CopyFails, Stage,
              StageRefused, Confirm, Reject, Crash
<1> QED
  BY <1>1, <1>2, <1>3, <1>4, <1>5, <1>6, <1>7, <1>8
     DEF Next, Registration, Ingest, Review

-----------------------------------------------------------------------------
(***************************************************************************)
(* The archive.  Only a copy that was opened truncates a file, and only    *)
(* after the batches of its statement were rejected or dropped.            *)
(***************************************************************************)
LEMMA ArchiveIntactStep ==
    ASSUME OneProcess, TablesInv, LocalsFresh, ArchiveIntact, [Next]_vars
    PROVE  ArchiveIntact'
<1>0. /\ batches \in [DOMAIN batches -> BatchRow]
      /\ archive \in [Statements -> {"none", "full"} \cup Procs]
      /\ \A p \in Procs :
            pc[p] \in {"drop", "parse", "copy", "stage"} => stmt[p] \in Statements
  BY DEF TablesInv, TypeInv, TypeOK, StmtHeld
<1>1. CASE UNCHANGED <<batches, archive>>
  BY <1>1 DEF ArchiveIntact
<1>2. ASSUME NEW p \in Procs, ParsedThenCopy(p) \/ CopyDone(p)
      PROVE  ArchiveIntact'
  <2>1. /\ AllRejected(stmt[p]) /\ stmt[p] \in Statements
        /\ batches' = batches
        /\ \A st \in Statements \ {stmt[p]} : archive'[st] = archive[st]
    BY <1>0, <1>2 DEF ParsedThenCopy, CopyDone, LocalsFresh, db
  <2>2. \A b \in DOMAIN batches :
           batches[b].stmt \in Statements
    BY <1>0 DEF BatchRow
  <2>3. \A b \in DOMAIN batches :
           batches[b].review_status # "rejected" => batches[b].stmt # stmt[p]
    BY <2>1 DEF AllRejected, BatchesOf
  <2> QED
    BY <2>1, <2>2, <2>3 DEF ArchiveIntact
<1>3. ASSUME NEW p \in Procs, Stage(p)
      PROVE  ArchiveIntact'
  <2>1. /\ DOMAIN batches' = DOMAIN batches \cup {nextId}
        /\ batches'[nextId].stmt = stmt[p]
        /\ batches'[nextId].archived = ("archive" \in flags[p])
        /\ \A b \in DOMAIN batches \ {nextId} : batches'[b] = batches[b]
        /\ archive' = archive
    BY <1>3 DEF Stage, insert_batch
  <2>2. "archive" \in flags[p] => archive[stmt[p]] = "full"
    BY <1>3 DEF Stage, LocalsFresh
  <2> QED
    BY <2>1, <2>2 DEF ArchiveIntact
<1>4. ASSUME NEW p \in Procs, DropPrior(p)
      PROVE  ArchiveIntact'
  BY <1>4 DEF DropPrior, Restrict, ArchiveIntact
<1>5. ASSUME NEW p \in Procs, Confirm(p) \/ Reject(p)
      PROVE  ArchiveIntact'
  <2>1. /\ bid[p] \in DOMAIN batches /\ batches[bid[p]].review_status = "pending"
        /\ \E status \in {"confirmed", "rejected"} : batches' = resolve(bid[p], status)
        /\ archive' = archive
    BY <1>5 DEF Confirm, Reject, LocalsFresh
  <2>2. /\ DOMAIN batches' = DOMAIN batches
        /\ \A b \in DOMAIN batches :
              /\ batches'[b].stmt = batches[b].stmt
              /\ batches'[b].archived = batches[b].archived
              /\ batches'[b].review_status # "rejected" =>
                    batches[b].review_status # "rejected"
    BY <1>0, <2>1 DEF resolve, BatchRow
  <2> QED
    BY <2>1, <2>2 DEF ArchiveIntact
<1>6. ASSUME NEW p \in Procs,
             \/ Registration(p)
             \/ \E st \in Statements, options \in Options :
                   IngestStart(p, st, options)
             \/ DropRefused(p) \/ ParsedNoArchive(p) \/ ParseFails(p)
             \/ CopyFails(p) \/ StageRefused(p)
             \/ \E b \in DOMAIN batches, verdict \in {"confirm", "reject"} :
                   ReviewStart(p, b, verdict)
             \/ Crash(p)
      PROVE  UNCHANGED <<batches, archive>>
  BY <1>6 DEF Registration, IngestStart, RegisterStart, Register, RegisterRefused,
              DropRefused, ParsedNoArchive, ParseFails, CopyFails, StageRefused,
              ReviewStart, Crash, db
<1> QED
  BY <1>1, <1>2, <1>3, <1>4, <1>5, <1>6 DEF Next, Ingest, Review, vars

LEMMA ReviewStep ==
    ASSUME OneProcess, StatementsDisjoint
    PROVE  ReviewInv /\ [Next]_vars => ReviewInv'
  BY TablesStep, RowsExactStep, LocalsFreshStep, ArchiveIntactStep DEF ReviewInv

\* The archived copy of a batch that was not rejected is whole, however often
\* its statement was ingested, with whatever failures and crashes.
THEOREM ArchiveWhole ==
    ASSUME OneProcess, StatementsDisjoint
    PROVE  Spec => []ArchiveIntact
<1>1. ReviewInv /\ [Next]_vars => ReviewInv'
  BY ReviewStep
<1>2. ReviewInv => ArchiveIntact
  BY DEF ReviewInv
<1> QED
  BY <1>1, <1>2, ReviewInit, PTL DEF Spec

-----------------------------------------------------------------------------
(***************************************************************************)
(* The refinement.  Staging offers the batch, a verdict accepts or refuses *)
(* it, a drop forgets it; every other step is invisible to the promise.    *)
(***************************************************************************)
review == [b \in DOMAIN batches |-> batches[b].review_status]
content == [b \in DOMAIN batches |-> external_ids(batches[b].stmt)]
ledger == {r \in DOMAIN txns : txns[r].status = "confirmed"}

\* A row in the reports is of the one batch that has it, and that is confirmed.
LEMMA ReportedRow ==
    ASSUME TablesInv, RowsExact, NEW r \in ledger
    PROVE  \E b \in DOMAIN batches :
              /\ batches[b].review_status = "confirmed"
              /\ txns[r].batch = b /\ r \in content[b]
<1>1. /\ r \in DOMAIN txns /\ txns[r].batch \in DOMAIN batches
      /\ batches[txns[r].batch].review_status = "confirmed"
  BY DEF TablesInv, RowFollowsBatch, ledger
<1>2. r \in RowsOf(txns[r].batch)
  BY <1>1 DEF RowsOf
<1> QED
  BY <1>1, <1>2 DEF RowsExact, content

LEMMA StageOffers ==
    ASSUME StatementsDisjoint, TablesInv, RowsExact,
           NEW st \in Statements, NEW row \in BatchRow, Staged(st, row)
    PROVE  Promise!Offer(nextId)
<1>0. /\ batches \in [DOMAIN batches -> BatchRow]
      /\ nextId \notin DOMAIN batches
  BY DEF TablesInv, TypeInv, TypeOK
<1>1. /\ DOMAIN batches' = DOMAIN batches \cup {nextId}
      /\ batches'[nextId].stmt = st /\ batches'[nextId].review_status = "pending"
      /\ \A b \in DOMAIN batches : b # nextId /\ batches'[b] = batches[b]
  BY <1>0 DEF Staged, insert_batch
<1>2. external_ids(st) \cap ledger = {}
  <2> SUFFICES ASSUME NEW r \in ledger, r \in external_ids(st) PROVE FALSE
    OBVIOUS
  <2>1. PICK b \in DOMAIN batches : r \in content[b]
    BY ReportedRow
  <2>2. batches[b].stmt \in Statements /\ batches[b].stmt # st
    BY <1>0 DEF BatchRow, Staged, BatchesOf
  <2> QED
    BY <2>1, <2>2 DEF StatementsDisjoint, content
<1>3. ledger' = ledger
  <2>1. /\ DOMAIN txns' = DOMAIN txns \cup external_ids(st)
        /\ \A r \in external_ids(st) : txns'[r].status = "pending_review"
        /\ \A r \in DOMAIN txns \ external_ids(st) : txns'[r] = txns[r]
    BY DEF Staged, upsert_rows
  <2> QED
    BY <1>2, <2>1 DEF ledger
<1>4. /\ review' = [x \in DOMAIN review \cup {nextId} |->
                      IF x = nextId THEN "pending" ELSE review[x]]
      /\ content' = [x \in DOMAIN review \cup {nextId} |->
                       IF x = nextId THEN external_ids(st) ELSE content[x]]
  BY <1>1 DEF review, content, external_ids
<1>5. nextId \notin DOMAIN review
  BY <1>0 DEF review
<1>6. external_ids(st) \in SUBSET (AllRows \ ledger)
  BY <1>2 DEF AllRows
<1> QED
  BY <1>3, <1>4, <1>5, <1>6 DEF Promise!Offer, review, content, ledger

LEMMA VerdictIsGiven ==
    ASSUME TablesInv, RowsExact, NEW b \in DOMAIN batches,
           batches[b].review_status = "pending", Resolved(b)
    PROVE  Promise!Accept(b) \/ Promise!Refuse(b)
<1>0. /\ batches \in [DOMAIN batches -> BatchRow]
      /\ txns \in [DOMAIN txns -> TxnRow]
      /\ RowsOf(b) = content[b]
      /\ \A r \in RowsOf(b) : txns[r].status = "pending_review"
  BY DEF TablesInv, TypeInv, TypeOK, RowsExact, RowFollowsBatch, RowsOf, content, TxnRow
<1>1. review[b] = "pending"
  BY DEF review
<1>2. ASSUME NEW status \in {"confirmed", "rejected"}, batches' = resolve(b, status)
      PROVE  content' = content /\ review' = [review EXCEPT ![b] = status]
  <2>1. /\ DOMAIN batches' = DOMAIN batches
        /\ \A x \in DOMAIN batches :
              /\ batches'[x].stmt = batches[x].stmt
              /\ batches'[x].review_status =
                   IF x = b THEN status ELSE batches[x].review_status
    BY <1>0, <1>2 DEF resolve, BatchRow
  <2>2. content' = content
    BY <2>1 DEF content, external_ids
  <2>3. review' = [x \in DOMAIN batches |-> IF x = b THEN status ELSE review[x]]
    BY <2>1 DEF review
  <2>4. [review EXCEPT ![b] = status] =
          [x \in DOMAIN batches |-> IF x = b THEN status ELSE review[x]]
    BY DEF review
  <2> QED
    BY <2>2, <2>3, <2>4
<1>3. CASE batches' = resolve(b, "confirmed") /\ txns' = confirm_rows(b)
  <2>1. /\ DOMAIN txns' = DOMAIN txns
        /\ \A r \in DOMAIN txns :
              txns'[r].status = IF r \in RowsOf(b) THEN "confirmed" ELSE txns[r].status
    BY <1>0, <1>3 DEF confirm_rows, RowsOf, TxnRow
  <2>2. ledger' = ledger \cup RowsOf(b)
    BY <2>1 DEF ledger, RowsOf
  <2> QED
    BY <1>0, <1>1, <1>2, <1>3, <2>2 DEF Promise!Accept, review, content, ledger
<1>4. CASE batches' = resolve(b, "rejected") /\ txns' = reject_rows(b)
  <2>1. /\ DOMAIN txns' = DOMAIN txns \ RowsOf(b)
        /\ \A r \in DOMAIN txns' : txns'[r] = txns[r]
    BY <1>4 DEF reject_rows, Restrict
  <2>2. ledger' = ledger
    BY <1>0, <2>1 DEF ledger, RowsOf
  <2> QED
    BY <1>1, <1>2, <1>4, <2>2 DEF Promise!Refuse, review, content, ledger
<1> QED
  BY <1>3, <1>4 DEF Resolved

\* What is dropped has no row in the reports: another batch that had one would
\* be of the same statement.
LEMMA DropForgets ==
    ASSUME StatementsDisjoint, TablesInv, RowsExact,
           NEW b \in DOMAIN batches, Dropped(b)
    PROVE  Promise!Forget(b)
<1>0. batches \in [DOMAIN batches -> BatchRow]
  BY DEF TablesInv, TypeInv, TypeOK
<1>1. content[b] \cap ledger = {}
  <2> SUFFICES ASSUME NEW r \in ledger, r \in content[b] PROVE FALSE
    OBVIOUS
  <2>1. PICK c \in DOMAIN batches : txns[r].batch = c /\ r \in content[c]
    BY ReportedRow
  <2>2. batches[b].stmt \in Statements /\ batches[c].stmt \in Statements
    BY <1>0 DEF BatchRow
  <2>3. batches[b].stmt = batches[c].stmt
    BY <2>1, <2>2 DEF StatementsDisjoint, content
  <2>4. c = b
    BY <2>3 DEF TablesInv, OneBatchPerStatement
  <2>5. r \in RowsOf(b)
    BY <2>1, <2>4 DEF RowsOf, ledger
  <2> QED
    BY <2>5 DEF Dropped
<1>2. /\ DOMAIN batches' = DOMAIN batches \ {b}
      /\ \A x \in DOMAIN batches' : batches'[x] = batches[x]
      /\ txns' = txns
  BY DEF Dropped, Restrict
<1>3. /\ review' = [x \in DOMAIN review \ {b} |-> review[x]]
      /\ content' = [x \in DOMAIN review \ {b} |-> content[x]]
      /\ ledger' = ledger
  BY <1>2 DEF review, content, ledger, external_ids
<1> QED
  BY <1>1, <1>3 DEF Promise!Forget, review, content, ledger

LEMMA StepKept ==
    ASSUME StatementsDisjoint, TablesInv, RowsExact, LocalsFresh, [Next]_vars
    PROVE  [Promise!AbsNext]_(Promise!absvars)
<1>1. CASE UNCHANGED <<batches, txns>>
  BY <1>1 DEF Promise!absvars, external_ids
<1>2. ASSUME NEW b \in DOMAIN batches, Dropped(b)
      PROVE  Promise!AbsNext
  BY <1>2, DropForgets DEF Promise!AbsNext
<1>3. ASSUME NEW b \in DOMAIN batches, batches[b].review_status = "pending", Resolved(b)
      PROVE  Promise!AbsNext
  BY <1>3, VerdictIsGiven DEF Promise!AbsNext
<1>4. ASSUME NEW st \in Statements, NEW row \in BatchRow, Staged(st, row)
      PROVE  Promise!AbsNext
  <2>1. nextId \in BatchIds
    BY <1>4 DEF Staged
  <2>2. Promise!Offer(nextId)
    BY <1>4, StageOffers
  <2> QED
    BY <2>1, <2>2, Zenon DEF Promise!AbsNext, Promise!Offer
<1> QED
  BY <1>1, <1>2, <1>3, <1>4, ReviewSteps

\* One process at a time, over statements that share no rows, keeps the promise
\* of BatchReview: the reports gain whole batches, once, and lose nothing.
THEOREM ReviewPromise ==
    ASSUME OneProcess, StatementsDisjoint
    PROVE  Spec => PromiseKept
<1>1. ReviewInv /\ [Next]_vars => ReviewInv'
  BY ReviewStep
<1>2. Init => Promise!AbsInit
  BY DEF Init, Promise!AbsInit
<1>3. ReviewInv /\ [Next]_vars => [Promise!AbsNext]_(Promise!absvars)
  BY StepKept DEF ReviewInv
<1> QED
  BY <1>1, <1>2, <1>3, ReviewInit, PTL DEF Spec, PromiseKept, Promise!AbsSpec

-----------------------------------------------------------------------------
(***************************************************************************)
(* Counting.  The n-th repetition of a row has an id of its own, so that   *)
(* there are as many ids as rows in the file.                              *)
(***************************************************************************)
IdsOf(st, k) == {<<st[1], k, n>> : n \in 0..(Occurs[st[2]][k] - 1)}

LEMMA IdsOfOneKey ==
    ASSUME NEW st \in Statements, NEW k \in Keys
    PROVE  IsFiniteSet(IdsOf(st, k)) /\ Cardinality(IdsOf(st, k)) = Occurs[st[2]][k]
<1> DEFINE numbers == 0..(Occurs[st[2]][k] - 1)
           id == [n \in numbers |-> <<st[1], k, n>>]
<1>1. Occurs[st[2]][k] \in Nat
  BY OccursAssumption DEF Statements
<1>2. IsFiniteSet(numbers) /\ Cardinality(numbers) = Occurs[st[2]][k]
  <2>1. PICK n \in Nat : n = Occurs[st[2]][k]
    BY <1>1
  <2>2. n - 1 \in Int /\ (IF 0 > n - 1 THEN 0 ELSE n - 1 - 0 + 1) = n
    OBVIOUS
  <2>3. IsFiniteSet(0..(n - 1)) /\ Cardinality(0..(n - 1)) = n
    BY <2>2, FS_Interval
  <2> QED
    BY <2>1, <2>3
<1>3. id \in Bijection(numbers, IdsOf(st, k))
  BY DEF Bijection, Injection, Surjection, IsInjective, IdsOf
<1> HIDE DEF numbers, id
<1> QED
  BY <1>2, <1>3, FS_Bijection DEF ExistsBijection

LEMMA RowsOfStatement ==
    ASSUME NEW st \in Statements
    PROVE  Cardinality(external_ids(st)) = txn_count(st)
<1> DEFINE occurs == Occurs[st[2]]
           idsOf(K) == UNION {IdsOf(st, k) : k \in K}
           Good == {K \in SUBSET Keys :
                      /\ IsFiniteSet(idsOf(K))
                      /\ Cardinality(idsOf(K)) = SumFunctionOnSet(occurs, K)}
<1>1. DOMAIN occurs = Keys /\ \A k \in Keys : occurs[k] \in Nat
  BY OccursAssumption DEF Statements
<1>2. {} \in Good
  <2>1. idsOf({}) = {}
    OBVIOUS
  <2> HIDE DEF idsOf, occurs
  <2> QED
    BY <2>1, FS_EmptySet, SumOfNothing
<1>3. ASSUME NEW K \in SUBSET Keys, NEW k \in Keys \ K, K \in Good PROVE K \cup {k} \in Good
  <2>1. PICK ids : ids = idsOf(K)
    OBVIOUS
  <2>2. idsOf(K \cup {k}) = ids \cup IdsOf(st, k)
    BY <2>1
  <2>3. ids \cap IdsOf(st, k) = {}
    BY <2>1 DEF IdsOf
  <2>4. IsFiniteSet(ids) /\ Cardinality(ids) = SumFunctionOnSet(occurs, K)
    BY <1>3, <2>1
  <2>5. IsFiniteSet(IdsOf(st, k)) /\ Cardinality(IdsOf(st, k)) = occurs[k]
    BY IdsOfOneKey
  <2>6. /\ IsFiniteSet(ids \cup IdsOf(st, k))
        /\ Cardinality(ids \cup IdsOf(st, k)) = Cardinality(ids) + Cardinality(IdsOf(st, k))
    <3>1. PICK more : more = IdsOf(st, k)
      OBVIOUS
    <3>2. IsFiniteSet(more) /\ Cardinality(more) \in Nat /\ Cardinality(ids) \in Nat
      BY <2>4, <2>5, <3>1, FS_CardinalityType
    <3>3. Cardinality(ids \cup more) = Cardinality(ids) + Cardinality(more) - Cardinality({})
      BY <2>3, <2>4, <3>1, <3>2, FS_Union
    <3>4. IsFiniteSet(ids \cup more)
      BY <2>4, <3>2, FS_Union
    <3> QED
      BY <3>1, <3>2, <3>3, <3>4, FS_EmptySet
  <2>7. SumFunctionOnSet(occurs, K \cup {k}) = SumFunctionOnSet(occurs, K) + occurs[k]
    <3>1. IsFiniteSet(K) /\ IntegersOn(occurs, K \cup {k})
      BY <1>1, KeysAssumption, FS_Subset DEF IntegersOn
    <3> HIDE DEF occurs
    <3> QED
      BY <3>1, SumWith
  <2> HIDE DEF idsOf, occurs
  <2> QED
    BY <2>2, <2>4, <2>5, <2>6, <2>7
<1>4. Keys \in Good
  <2> HIDE DEF Good
  <2> QED
    BY <1>2, <1>3, KeysAssumption, OneByOne
<1>5. idsOf(Keys) = external_ids(st)
  BY DEF IdsOf, external_ids
<1>6. SumFunctionOnSet(occurs, Keys) = txn_count(st)
  BY <1>1 DEF txn_count, SumFunction
<1> QED
  BY <1>4, <1>5, <1>6

LEMMA ReviewCounts == ReviewInv => BatchComplete
<1> SUFFICES ASSUME ReviewInv, NEW b \in DOMAIN batches,
                    batches[b].review_status # "rejected"
             PROVE  Cardinality(RowsOf(b)) = txn_count(batches[b].stmt)
  BY DEF BatchComplete
<1>1. RowsOf(b) = external_ids(batches[b].stmt)
  BY DEF ReviewInv, RowsExact
<1>2. batches[b].stmt \in Statements
  BY DEF ReviewInv, TablesInv, TypeInv, TypeOK, BatchRow
<1> QED
  BY <1>1, <1>2, RowsOfStatement

\* A batch that was not rejected has as many rows as its statement, however often
\* rows are repeated in it.
THEOREM BatchesComplete ==
    ASSUME OneProcess, StatementsDisjoint
    PROVE  Spec => []BatchComplete
<1>1. ReviewInv /\ [Next]_vars => ReviewInv'
  BY ReviewStep
<1> QED
  BY <1>1, ReviewInit, ReviewCounts, PTL DEF Spec
=============================================================================
