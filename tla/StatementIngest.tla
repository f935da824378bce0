-------------------------- MODULE StatementIngest --------------------------
(***************************************************************************)
(* Staging and reviewing bank statements: register_account, ingest_file,   *)
(* confirm_batch and reject_batch of sources/statement/ingest.py,          *)
(* archive_file of archive.py and the row upsert of db/_upsert.py.         *)
(*                                                                         *)
(* Several processes (CLI commands, the MCP server) share one SQLite file. *)
(* A `with store.transaction()' block is one step: its first statement is  *)
(* a write, so SQLite serialises it against every other writer.  A SELECT  *)
(* outside such a block is a step of its own, and so is a DELETE in        *)
(* autocommit mode.  What a process read earlier may be stale when used.   *)
(*                                                                         *)
(* A statement is a file ingested for a source, which has one account.     *)
(* File content is abstracted to how often each distinct row (date,        *)
(* amount, payee, memo) occurs in it.                                      *)
(*                                                                         *)
(* An operator whose name ends in _BUG_<what> is a plausible slip in the   *)
(* definition that follows it; the specification never uses it.            *)
(***************************************************************************)
EXTENDS Integers, FiniteSets, Functions

CONSTANTS
    Procs,       \* processes that may run a command, one at a time each
    Sources,     \* statement sources, each with its account, by nickname
    Files,       \* distinct file contents, i.e. file hashes
    Keys,        \* distinct row payloads: date, amount, payee and memo
    Occurs,      \* Occurs[f][k]: how often row k occurs in file f
    MaxBatches,  \* bound on the statement_batches ids ever assigned
    None         \* no statement

\* There are finitely many rows in all the files there are.
ASSUME KeysAssumption == IsFiniteSet(Keys)
ASSUME OccursAssumption == Occurs \in [Files -> [Keys -> Nat]]
ASSUME MaxBatchesAssumption == MaxBatches \in Nat \ {0}
ASSUME NoneAssumption == None \notin Sources \X Files
ASSUME ProcsAssumption == {"none", "full"} \cap Procs = {}

VARIABLES
    batches,  \* table statement_batches: id -> row
    nextId,   \* the next AUTOINCREMENT id of that table: none is reused
    txns,     \* statement rows of table transactions: id -> row
    sources,  \* tables sources and accounts: the sources registered
    archive,  \* statement -> "none", "full", or the last process to truncate it
    pc,       \* what each process does next
    stmt,     \* the statement a process ingests, or the source it registers
    bid,      \* the batch id a process read (0: it found none)
    flags     \* the options of its ingest: "archive", "reingest"

db == <<batches, nextId, txns, sources>>
vars == <<batches, nextId, txns, sources, archive, pc, stmt, bid, flags>>

-----------------------------------------------------------------------------
Statements == Sources \X Files
BatchIds == 1..MaxBatches
Options == SUBSET {"archive", "reingest"}

BatchRow == [stmt : Statements,
             review_status : {"pending", "confirmed", "rejected"},
             archived : BOOLEAN]

(***************************************************************************)
(* The primary key of a statement row hashes its source and payload; the   *)
(* n-th repetition of a payload within one file gets the suffix `:n'.      *)
(***************************************************************************)
RowIds == Sources \X Keys \X Nat
TxnRow == [status : {"pending_review", "confirmed"}, batch : BatchIds]

external_ids_BUG_no_suffix(st) ==
    {<<st[1], k, 0>> : k \in {x \in Keys : Occurs[st[2]][x] > 0}}

external_ids(st) ==
    UNION {{<<st[1], k, n>> : n \in 0..(Occurs[st[2]][k] - 1)} : k \in Keys}

\* The number of rows the statement has, stored with its batch.
txn_count(st) == SumFunction(Occurs[st[2]])

BatchesOf(st) == {b \in DOMAIN batches : batches[b].stmt = st}
RowsOf(b) == {r \in DOMAIN txns : txns[r].batch = b}

Init ==
    /\ batches = << >>
    /\ nextId = 1
    /\ txns = << >>
    /\ sources = {}
    /\ archive = [st \in Statements |-> "none"]
    /\ pc = [p \in Procs |-> "idle"]
    /\ stmt = [p \in Procs |-> None]
    /\ bid = [p \in Procs |-> 0]
    /\ flags = [p \in Procs |-> {}]

\* Process p ends its command: it returns, raises, or is killed.
End(p) ==
    /\ pc' = [pc EXCEPT ![p] = "idle"]
    /\ stmt' = [stmt EXCEPT ![p] = None]
    /\ bid' = [bid EXCEPT ![p] = 0]
    /\ flags' = [flags EXCEPT ![p] = {}]

GoTo(p, next) ==
    /\ pc' = [pc EXCEPT ![p] = next]
    /\ UNCHANGED <<stmt, bid, flags>>

-----------------------------------------------------------------------------
(***************************************************************************)
(* register_account                                                        *)
(***************************************************************************)

\* A SELECT finds no such source, or AccountAlreadyRegistered is raised.
RegisterStart(p, s) ==
    /\ pc[p] = "idle"
    /\ s \notin sources
    /\ pc' = [pc EXCEPT ![p] = "register"]
    /\ stmt' = [stmt EXCEPT ![p] = s]
    /\ UNCHANGED <<db, archive, bid, flags>>

\* The transaction inserts the source and its account.
Register(p) ==
    /\ pc[p] = "register"
    /\ stmt[p] \notin sources
    /\ sources' = sources \cup {stmt[p]}
    /\ End(p)
    /\ UNCHANGED <<batches, nextId, txns, archive>>

\* The IntegrityError of the primary key: another process was faster.
RegisterRefused(p) ==
    /\ pc[p] = "register"
    /\ stmt[p] \in sources
    /\ End(p)
    /\ UNCHANGED <<db, archive>>

-----------------------------------------------------------------------------
(***************************************************************************)
(* ingest_file                                                             *)
(***************************************************************************)

(***************************************************************************)
(* FileAlreadyIngested, when the prior batch of this statement is pending  *)
(* or confirmed and --reingest was not given: the command ends, having     *)
(* changed nothing.                                                        *)
(***************************************************************************)
AlreadyIngested_BUG_confirmed_only(st, options) ==
    /\ "reingest" \notin options
    /\ \E b \in BatchesOf(st) : batches[b].review_status = "confirmed"

AlreadyIngested(st, options) ==
    /\ "reingest" \notin options
    /\ \E b \in BatchesOf(st) :
          batches[b].review_status \in {"pending", "confirmed"}

\* Resolve the account (or AccountNotConfigured), hash the file, read the
\* statement's prior batch.
IngestStart(p, st, options) ==
    /\ pc[p] = "idle"
    /\ st[1] \in sources
    /\ ~AlreadyIngested(st, options)
    /\ LET prior == IF BatchesOf(st) = {} THEN 0
                    ELSE CHOOSE b \in BatchesOf(st) : TRUE
           dropIt == prior # 0 /\ "reingest" \in options
       IN  /\ bid' = [bid EXCEPT ![p] = prior]
           /\ pc' = [pc EXCEPT ![p] = IF dropIt THEN "drop" ELSE "parse"]
    /\ stmt' = [stmt EXCEPT ![p] = st]
    /\ flags' = [flags EXCEPT ![p] = options]
    /\ UNCHANGED <<db, archive>>

(***************************************************************************)
(* DELETE FROM statement_batches, in autocommit mode.  transactions.       *)
(* batch_id REFERENCES it with foreign keys on, so the statement fails     *)
(* while a row names the batch.  To delete a missing row is no error.      *)
(***************************************************************************)
Referenced_BUG_foreign_keys_off(b) == FALSE

Referenced(b) == RowsOf(b) # {}

DropPrior(p) ==
    /\ pc[p] = "drop"
    /\ ~Referenced(bid[p])
    /\ batches' = Restrict(batches, DOMAIN batches \ {bid[p]})
    /\ GoTo(p, "parse")
    /\ UNCHANGED <<nextId, txns, sources, archive>>

\* The IntegrityError of that DELETE.
DropRefused(p) ==
    /\ pc[p] = "drop"
    /\ Referenced(bid[p])
    /\ End(p)
    /\ UNCHANGED <<db, archive>>

(***************************************************************************)
(* find_parser, load_template and parse only read; then archive_file opens *)
(* its destination, which truncates it, unless archiving is switched off.  *)
(***************************************************************************)
ParsedThenCopy_BUG_skips_copy(p) ==
    /\ pc[p] = "parse"
    /\ "archive" \in flags[p]
    /\ GoTo(p, "stage")
    /\ UNCHANGED <<db, archive>>

ParsedThenCopy(p) ==
    /\ pc[p] = "parse"
    /\ "archive" \in flags[p]
    /\ archive' = [archive EXCEPT ![stmt[p]] = p]
    /\ GoTo(p, "copy")
    /\ UNCHANGED db

ParsedNoArchive(p) ==
    /\ pc[p] = "parse"
    /\ "archive" \notin flags[p]
    /\ GoTo(p, "stage")
    /\ UNCHANGED <<db, archive>>

\* UnknownFormat, ParseFailed, a template error, or a failed mkdir or open.
ParseFails(p) ==
    /\ pc[p] = "parse"
    /\ End(p)
    /\ UNCHANGED <<db, archive>>

(***************************************************************************)
(* The copy is complete.  If another process truncated the destination     *)
(* meanwhile, what p wrote before that is lost: the file is whole only if  *)
(* p had not begun to write, or if the other process finishes too.         *)
(***************************************************************************)
CopyDone(p) ==
    /\ pc[p] = "copy"
    /\ \/ archive' = [archive EXCEPT ![stmt[p]] = "full"]
       \/ archive[stmt[p]] # p /\ UNCHANGED archive
    /\ GoTo(p, "stage")
    /\ UNCHANGED db

\* copy2 raises half-way: ArchiveFailed.  The truncated copy stays.
CopyFails(p) ==
    /\ pc[p] = "copy"
    /\ End(p)
    /\ UNCHANGED <<db, archive>>

(***************************************************************************)
(* The staging transaction: insert the batch as pending, then upsert each  *)
(* row of the statement as pending_review of this batch.  On conflict the  *)
(* upsert overwrites status and batch_id of the row already there.         *)
(***************************************************************************)
UniqueKeyFree_BUG_no_constraint(st) == TRUE

UniqueKeyFree(st) == BatchesOf(st) = {}

upsert_rows_BUG_prior_batch_id(st, b) ==
    [r \in DOMAIN txns \cup external_ids(st) |->
        IF r \in external_ids(st)
        THEN [status |-> "pending_review", batch |-> b - 1]
        ELSE txns[r]]
upsert_rows_BUG_keeps_owner(st, b) ==
    [r \in DOMAIN txns \cup external_ids(st) |->
        IF r \in DOMAIN txns THEN txns[r]
        ELSE [status |-> "pending_review", batch |-> b]]
upsert_rows_BUG_default_status(st, b) ==
    [r \in DOMAIN txns \cup external_ids(st) |->
        IF r \in external_ids(st)
        THEN [status |-> "confirmed", batch |-> b]
        ELSE txns[r]]

upsert_rows(st, b) ==
    [r \in DOMAIN txns \cup external_ids(st) |->
        IF r \in external_ids(st)
        THEN [status |-> "pending_review", batch |-> b]
        ELSE txns[r]]

insert_batch(row, b) ==
    [x \in DOMAIN batches \cup {b} |-> IF x = b THEN row ELSE batches[x]]

Stage(p) ==
    /\ pc[p] = "stage"
    /\ UniqueKeyFree(stmt[p])
    /\ nextId <= MaxBatches
    /\ batches' = insert_batch([stmt |-> stmt[p],
                                review_status |-> "pending",
                                archived |-> "archive" \in flags[p]], nextId)
    /\ txns' = upsert_rows(stmt[p], nextId)
    /\ nextId' = nextId + 1
    /\ End(p)
    /\ UNCHANGED <<sources, archive>>

\* The IntegrityError of UNIQUE (file_hash, source_id): all is rolled back.
StageRefused(p) ==
    /\ pc[p] = "stage"
    /\ ~UniqueKeyFree(stmt[p])
    /\ End(p)
    /\ UNCHANGED <<db, archive>>

-----------------------------------------------------------------------------
(***************************************************************************)
(* confirm_batch and reject_batch                                          *)
(***************************************************************************)

\* Both read review_status first and raise ValueError unless it is pending.
Reviewable_BUG_any_status(b) == TRUE

Reviewable(b) == batches[b].review_status = "pending"

ReviewStart(p, b, verdict) ==
    /\ pc[p] = "idle"
    /\ Reviewable(b)
    /\ pc' = [pc EXCEPT ![p] = verdict]
    /\ bid' = [bid EXCEPT ![p] = b]
    /\ UNCHANGED <<db, archive, stmt, flags>>

\* UPDATE statement_batches ... WHERE id = ?, without looking at the status.
resolve(b, status) ==
    [x \in DOMAIN batches |->
        IF x = b THEN [batches[x] EXCEPT !.review_status = status]
        ELSE batches[x]]

confirm_rows(b) ==
    [r \in DOMAIN txns |->
        IF txns[r].batch = b /\ txns[r].status = "pending_review"
        THEN [txns[r] EXCEPT !.status = "confirmed"]
        ELSE txns[r]]

Confirm(p) ==
    /\ pc[p] = "confirm"
    /\ txns' = confirm_rows(bid[p])
    /\ batches' = resolve(bid[p], "confirmed")
    /\ End(p)
    /\ UNCHANGED <<nextId, sources, archive>>

\* DELETE FROM transactions WHERE batch_id = ?, whatever their status.
reject_rows_BUG_by_statement(b) ==
    Restrict(txns, {r \in DOMAIN txns :
                      b \in DOMAIN batches => r \notin external_ids(batches[b].stmt)})

reject_rows(b) == Restrict(txns, DOMAIN txns \ RowsOf(b))

Reject(p) ==
    /\ pc[p] = "reject"
    /\ txns' = reject_rows(bid[p])
    /\ batches' = resolve(bid[p], "rejected")
    /\ End(p)
    /\ UNCHANGED <<nextId, sources, archive>>

-----------------------------------------------------------------------------
\* The process is killed; an open transaction is rolled back.
Crash(p) ==
    /\ pc[p] # "idle"
    /\ End(p)
    /\ UNCHANGED <<db, archive>>

Registration(p) ==
    \/ \E s \in Sources : RegisterStart(p, s)
    \/ Register(p)
    \/ RegisterRefused(p)

Ingest(p) ==
    \/ \E st \in Statements, options \in Options : IngestStart(p, st, options)
    \/ DropPrior(p)
    \/ DropRefused(p)
    \/ ParsedThenCopy(p)
    \/ ParsedNoArchive(p)
    \/ ParseFails(p)
    \/ CopyDone(p)
    \/ CopyFails(p)
    \/ Stage(p)
    \/ StageRefused(p)

Review(p) ==
    \/ \E b \in DOMAIN batches, verdict \in {"confirm", "reject"} :
          ReviewStart(p, b, verdict)
    \/ Confirm(p)
    \/ Reject(p)

Next == \E p \in Procs : Registration(p) \/ Ingest(p) \/ Review(p) \/ Crash(p)

Spec == Init /\ [][Next]_vars

-----------------------------------------------------------------------------
(***************************************************************************)
(* Properties                                                              *)
(***************************************************************************)

\* Every table and every local holds values of its type, and no batch has an
\* id that AUTOINCREMENT has still to assign.
TypeOK ==
    /\ nextId \in 1..(MaxBatches + 1)
    /\ DOMAIN batches \subseteq 1..(nextId - 1)
    /\ batches \in [DOMAIN batches -> BatchRow]
    /\ DOMAIN txns \subseteq RowIds
    /\ txns \in [DOMAIN txns -> TxnRow]
    /\ sources \subseteq Sources
    /\ archive \in [Statements -> {"none", "full"} \cup Procs]
    /\ pc \in [Procs -> {"idle", "register", "drop", "parse", "copy",
                         "stage", "confirm", "reject"}]
    /\ stmt \in [Procs -> Statements \cup Sources \cup {None}]
    /\ bid \in [Procs -> 0..MaxBatches]
    /\ flags \in [Procs -> Options]

(***************************************************************************)
(* A row under review belongs to a pending batch and a row in the reports  *)
(* to a confirmed one, so a rejected batch has no rows and no row points   *)
(* at a batch that was dropped.  This must survive stale checks: two       *)
(* commands may both have seen the batch pending (lines 328-337, 355-364), *)
(* or one may drop it (line 227) under the other.                          *)
(***************************************************************************)
RowFollowsBatch ==
    \A r \in DOMAIN txns :
        LET b == txns[r].batch
        IN  /\ b \in DOMAIN batches
            /\ batches[b].review_status =
                 IF txns[r].status = "confirmed" THEN "confirmed" ELSE "pending"

\* A statement has at most one batch, though the dedup SELECT (lines 216-224)
\* and the INSERT (line 268) of two commands may interleave.
OneBatchPerStatement ==
    \A b1, b2 \in DOMAIN batches :
        batches[b1].stmt = batches[b2].stmt => b1 = b2

(***************************************************************************)
(* Of the batches whose statements share a row, the newest that exists     *)
(* decides about the row: whoever confirms or rejects an older one leaves  *)
(* it alone (the upsert moves batch_id, _upsert.py line 148).              *)
(***************************************************************************)
NewestBatchOwnsRow ==
    \A r \in DOMAIN txns, b \in DOMAIN batches :
        r \in external_ids(batches[b].stmt) => b <= txns[r].batch

\* A batch that records an archive path has a file there: archiving precedes
\* the staging transaction (line 252), whatever fails or crashes in between.
ArchivedBeforeStaged ==
    \A b \in DOMAIN batches :
        batches[b].archived => archive[batches[b].stmt] # "none"

InReports(r) == r \in DOMAIN txns /\ txns[r].status = "confirmed"

(***************************************************************************)
(* A row enters the reports (status = 'confirmed') only out of review, in  *)
(* the very step that confirms its batch: the upsert's default status must *)
(* never reach a statement row.                                            *)
(***************************************************************************)
OnlyConfirmPublishes ==
    [][\A r \in DOMAIN txns' :
          InReports(r)' /\ ~InReports(r) =>
              /\ r \in DOMAIN txns
              /\ txns'[r].batch = txns[r].batch
              /\ batches[txns[r].batch].review_status # "confirmed"
              /\ batches'[txns[r].batch].review_status = "confirmed"]_vars

(***************************************************************************)
(* A row leaves the reports in two ways only: a newly staged statement     *)
(* contains it too and takes it back into review, or a late reject hits    *)
(* its batch after it was confirmed.  No other command, failure or crash   *)
(* of any process removes confirmed data.                                  *)
(***************************************************************************)
ConfirmedLossExplained ==
    [][\A r \in DOMAIN txns :
          InReports(r) /\ ~InReports(r)' =>
              \/ \E b \in DOMAIN batches' \ DOMAIN batches :
                    /\ r \in external_ids(batches'[b].stmt)
                    /\ txns'[r].batch = b
              \/ batches'[txns[r].batch].review_status = "rejected"]_vars

(***************************************************************************)
(* For one process at a time and statements that share no rows: an open or *)
(* confirmed batch holds every row of its statement, repeated ones too     *)
(* (the collision suffix, lines 236-243).                                  *)
(***************************************************************************)
BatchComplete ==
    \A b \in DOMAIN batches :
        batches[b].review_status # "rejected" =>
            Cardinality(RowsOf(b)) = txn_count(batches[b].stmt)

(***************************************************************************)
(* For one process at a time: the archived copy of an open or confirmed    *)
(* batch is whole.  Only dedup and the drop of the prior row keep a second *)
(* ingest of the file from truncating it (archive.py line 33).             *)
(***************************************************************************)
ArchiveIntact ==
    \A b \in DOMAIN batches :
        batches[b].archived /\ batches[b].review_status # "rejected" =>
            archive[batches[b].stmt] = "full"

(***************************************************************************)
(* The design's promise for overlapping statement periods: to stage a      *)
(* second statement over confirmed rows is a refresh that changes nothing  *)
(* about them.                                                             *)
(***************************************************************************)
OverlapIsRefresh ==
    [][nextId' # nextId =>
          \A r \in DOMAIN txns : InReports(r) => InReports(r)']_vars

\* The design's promise for reviews: a batch that was resolved stays so; to
\* reject a confirmed batch, or to confirm a rejected one, is an error.
ResolvedOnce ==
    [][\A b \in DOMAIN batches \cap DOMAIN batches' :
          batches[b].review_status # "pending" =>
              batches'[b].review_status = batches[b].review_status]_vars
=============================================================================
