# Formal verification of homefinance

`homefinance` mirrors personal finance data (YNAB budgets, bank statements) into
one SQLite file, categorizes the transactions and reports on them, from a command
line and from an MCP server that an assistant talks to. This directory holds TLA+
modules that model the parts of it that change state, TLC configurations that
check them on small instances, and TLAPS proofs for every instance.

Source paths below are relative to `src/src/homefinance/`; design documents are
under `src/docs/`.

## 1. Inventory

| component | code | state it keeps | operations | modelled in |
|---|---|---|---|---|
| Statement ingest and review | `sources/statement/ingest.py`, `archive.py` | `statement_batches`, statement rows of `transactions`, archived files | `register_account`, `ingest_file`, `confirm_batch`, `reject_batch` (also `list_batches`, `reconcile`) | `StatementIngest`, `BatchReview`, `IngestRefinement`, `IngestProofs` |
| Delta sync of YNAB | `sources/ynab/sync.py`, `source.py`, `client.py`, `mapping.py` | `sync_state` (the cursor), the YNAB rows, `sync_runs` | `run_sync`, `pull`, the client's retries, `_reconcile` | `YnabSync`, `BudgetCopy`, `SyncRefinement`, `SyncProofs`; `_reconcile` in `Ledger` |
| Row upserts | `db/_upsert.py` | `accounts`, `categories`, `payees`, `transactions` | `upsert_*`, `insert_subtransaction` | the three modules that call them |
| Categorization | `analysis/categorize.py` | `category_rules`, the columns `canonical_category` and `category_source` | `add_rule`, `apply_categorization`, `set_manual_category`, `suggest_categories` | `Ledger`, `LedgerProofs` |
| Report queries | `mcp_server/tools.py` | none | `query_transactions` (tops and leaves views), aggregations, listings | `Ledger` (the two views, and sums over them) |
| Spending analysis | `analysis/cashflow.py`, `recurring.py`, `anomaly.py` | none | pure functions | `Ledger` (cash flow), `Recurring`, `Anomaly`, `AnalysisProofs` |
| Retirement planning | `retirement/*.py` | none (the `[retirement]` section is the user's) | pure functions | `Retirement`, `RetirementProofs` |
| Configuration and setup | `config.py`, `cli.py` | `config.toml`, existence and schema of the database | `init`, `add-budget`, `remove-budget` | `Setup`, `SetupProofs` |
| MCP server | `mcp_server/__main__.py`, `tools.py` | cached configuration and connection | one tool per library call | as one more process; its caches in `Setup` |
| Command line | `cli.py` | none of its own | one command per library call | as processes; loading, migrating and opening in `Setup` |
| Store and migrations | `db/store.py`, `db/migrate.py` | the SQLite file | `open`, `transaction`, `migrate` | `transaction` is the atomic step everywhere; `open` and `migrate` in `Setup` |
| Statement parsers | `sources/statement/parsers/*` | none | CSV, PDF and OFX to rows | `StatementFiles`, `FilesProofs`; in `StatementIngest` a step that succeeds or raises |
| Test double of the client | `sources/ynab/fake_client.py` | fixtures | - | no |

**How they interact.** Every component works on one SQLite file. Several
processes may use it at once: CLI commands, and the MCP server with its own
connection. `Store.transaction()` opens a *deferred* transaction: each block in
the code begins with a write, so a block is atomic, but what a command read
*before* the block is a snapshot that may be stale when used. Outside such a
block the connection is in autocommit mode and each statement stands alone. Foreign keys are
on. Two things live outside the database: the archive directory of statement
files, and YNAB's server, whose state moves between two requests of one sync.

**What is hard.**
- check-then-act across a transaction boundary (dedup, `review_status`, the
  cursor, rules, the row a manual category is for);
- file copy and database commit in sequence, with failures and crashes between;
- one table shared by two writers with different ideas of a row's status
  (`upsert_transaction` overwrites `status` and `batch_id` on conflict);
- one cursor for four requests that see four states of the server;
- long histories: splits that grow, shrink and vanish; batches rejected,
  re-ingested and overlapped by later ones; passes run over their results;
- sums taken over one of two views of the same money, which must be neither
  doubled nor lost: balances, cash flow, the spending of a month;
- functions that depend on an order (of amounts, of dates, of months), which is
  another one than the order in which data arrives.

**What makes each component correct.**
- *Ingest*: rows reach the reports only through a confirm; each row belongs to
  an existing batch with the matching status; a statement has one batch; a batch
  that records an archive path has its file; nothing else takes confirmed rows away.
- *Sync*: what is behind the cursor is in the database; rows and cursor land
  together; foreign keys never fail; the mirror catches up despite failures.
- *Ledger*: the parts of a split add up; both report views agree; the pass is
  idempotent and gives each row the right category; manual choices last; a
  drift can be explained; cash flow counts each amount delivered once.
- *Statement files*: what a file had is stored, and what several had in the same words is stored once.
- *Spending analysis*: grouping is minimal and stable; a regular series is found; a
  flag means what it says and is not taken back.
- *Setup*: after an `init` the database has its whole schema, unless a migration was cut short; nothing is in the file or synced
  that the user did not ask for.
- *Pure functions*: they agree with their definitions at the boundaries.

The list of hazards, each at its line, with the properties that cover it, is in
`PROJECT.json`.

## 2. Modules and how they correspond to the code

Names of operators are the names of the code where TLA+ allows it.
An operator named `X_BUG_what` stands directly before `X` and is `X` with a
plausible slip. The specification never uses it; substituting it for `X` must
make a property fail, which shows that the property can.

### `StatementIngest`
One action per step of `ingest_file`: `IngestStart` (resolve, hash, dedup SELECT),
`DropPrior`/`DropRefused` (the autocommit DELETE of the prior batch, or its
foreign key error), `ParsedThenCopy`/`ParsedNoArchive`/`ParseFails`, `CopyDone`/`CopyFails`
(`archive_file`: opening truncates, then the content arrives), `Stage`/`StageRefused`
(the staging transaction, or the UNIQUE error that rolls it back). `ReviewStart`,
`Confirm` and `Reject` are the two steps of `confirm_batch` and `reject_batch`.
`RegisterStart`, `Register` and `RegisterRefused` are `register_account`: its SELECT, its transaction,
or the primary key error if another process was faster.
`Crash` may hit any process between any two steps. A file is abstracted to how often each distinct row
occurs in it; the n-th repetition of a row gets its own id, as
the code's collision suffix does. Ids of batches come from AUTOINCREMENT and are never reused.

### `BatchReview` and `IngestRefinement`
The promise of statement review in three variables: batches are offered with a
fixed content, get one verdict, and the reports gain exactly the content of a
confirmed batch. `IngestRefinement` states that `StatementIngest` implements it,
with the reports being the rows whose status is `confirmed`.

### `YnabSync`
The server is external: a knowledge counter, and for each entity the stamp of its
last edit. `Begin` reads the cursor, four `Fetch` steps are the four requests of
`pull` in its order, `Apply` is the transaction of `run_sync` (upserts in
dependency order, then the cursor), `Abort` is every way a sync ends without a
trace. `Edit` changes the budget; the constant `MidPull` says whether that may happen
between two requests. A stamp stands for the content, a deletion included.

### `BudgetCopy` and `SyncRefinement`
The promise of delta sync in three variables, without requests, cursors or deltas: somebody changes the budget,
looks at all of it, and makes the database what was seen. `SyncRefinement` states that `YnabSync`
implements it. It adds the history variable `taken`, the budget at the last request answered, which the system
never reads; a delta against an old cursor must come to the same as copying all of that.

### `Ledger`
`rows` is the table `transactions`, keyed by external id and part number (0: the
transaction itself). `SyncTxn` is `upsert_transaction` with its children;
`ReadRules`/`Apply` are the two steps of `apply_categorization`, the latter the
composition of its three UPDATEs `reset_rows`, `derive_ynab`, `fill_by_rules`;
`FindRow`/`Pin` are the two steps of `set_manual_category`. `Tops` and `Leaves` are
the two views of `query_transactions`; `balance`, `delta` and `reconcile` are the SELECT over
tops and the comparison of `_reconcile`, `cash_flow` the sums over leaves of `cashflow.py`. The
upsert keeps the account of a row that is there already, as `ON CONFLICT DO UPDATE` does. `text` stands for payee
and memo: a part has its own memo and the payee of its transaction. `synced` is a history variable: the content last
delivered, read by properties only.

### `StatementFiles`
The bank is external: `Book` is an entry, `Shown` the texts that a format has for it, `cells` how a line is printed.
`FirstParts` is what the first table of a PDF, or the first statement of an OFX file, may have of the entries of a
period: the code reads no more (`docling_pdf.py` line 121, `ofx.py` lines 34-37) and does not say when there was more. `readable`, `mapped`, `parsed`
and `accepted` are the parsers, line by line, with a template of column names (CSV) or numbers (PDF) that
`WriteTemplate` puts in place; `row_ids` are the ids and collision suffixes of `ingest_file`. `IngestFile`
is an ingest that succeeds, of any of the formats and of lines that may have been spoilt: a file with one is refused.
`fetched` is a history variable: for each wording, how many lines of it the file had that had most of them, counted in the
part that was read.

### `Recurring` and `Anomaly`
`detect_recurring` for the charges of one payee and `detect_anomalies` for one category. Both are
pure; the state is what they read, which grows and shrinks in any order. `clusters` is the greedy loop over
the sorted amounts (signed, an expense being negative, so that the dearest expense comes first), `with_charge` one turn of it, and `sorted` and `ascending` sort by rank (the i-th element is the
one with i - 1 before it), which the prover can reason about. `charge_series` what is computed of a group; medians are doubled and rounding is
Python's, so that integers do. `spend_series` has no element for a month without spending, and `baseline` is the
code's slice. Deviations are compared squared and multiplied by the length. Where the two
sides of a comparison are equal, the code compares floats and may decide otherwise; the operators say where.

### `Setup`
The content of `config.toml` (a token and a list of budgets, or text that is no TOML), how many
migrations the database file has had, and the commands, each from its reading of the
configuration to its end: `Truncate` and `Write` are the two steps of `_secure_write_config`,
`Lock`, `Migrate` and `Migrated` are `migrate`, one migration at a time under the lock of the library. `Kill` is a process
killed among the migrations: its lock row stays, and every later `migrate` waits for it and raises. A migration that ran but could not be marked
(the mark is written separately, and `0001` and `0003` are plain CREATE and ALTER TABLE) leaves the same state. `Raise` is
every other way a command ends early; it frees the lock. `Open` is `Store.open`, which creates a missing file. `Overlaid` is
what a write leaves in a file that another command filled after it was truncated. `ServerLoad`
and `ServerOpen` fill the server's caches. `HandEdit` is the user's editor. The token stands for
all settings besides the budgets, so `Rendered` shows that `add-budget` and `remove-budget` drop them.

### `Retirement`
The functions of `compute.py` over limits of the shape that `limits.py` validates, put
together as `retirement_summary` does. They are pure; the state is what the user declares
from one question to the next: `EarnMore` raises the income, `Contribute` pays into an
account, `NewYear` starts afresh. `ceil_div` is the code's `-(-n // d)`.

### Proof modules
`IngestProofs` and `SyncProofs` extend the two refinement modules, and with them the modules those are about;
`LedgerProofs`, `SetupProofs`, `RetirementProofs` and `FilesProofs` extend the module they are named for,
`AnalysisProofs` extends `Anomaly` and `Recurring`. `Sums` has what is known of `SumFunction`, the sum that the models
use, for any finite set; `IngestProofs`, `LedgerProofs` and `AnalysisProofs` build on it.

`MCIngest`, `MCSync`, `MCLedger`, `MCSyncSetup` and `MCAlone` give constants their values. `MCSyncSetup` puts the two modules with
liveness side by side, and `MCAlone` the modules in which one actor acts at a time; a behaviour is about one of them (`topic`).

## 3. What the runs check and show

Runs that must pass:

- **ingest** (`MCIngest.cfg`): two processes ingest (with and without archive
  and `--reingest`), confirm and reject two statements of one account that share a
  row, failing and crashing anywhere. The tables stay consistent
  (`RowFollowsBatch`, `OneBatchPerStatement`, `NewestBatchOwnsRow`), the archive
  precedes the batch (`ArchivedBeforeStaged`), and rows enter and leave the
  reports as explained only (`OnlyConfirmPublishes`, `ConfirmedLossExplained`).
  Two things the code does not check itself are what keeps this true: the foreign key on `batch_id`
  against a stale DELETE, and UNIQUE (file_hash, source_id) against a stale dedup.
- **sync_setup** (`MCSyncSetup.cfg`): two topics.
  - *Sync*: one sync at a time, no edit during a pull. The
    cursor is truthful, foreign keys hold, nothing goes back, and after the last
    edit the mirror becomes equal to the budget whatever failed on the way. Each commit makes it the
    whole budget of one moment, never a mixture of two (`CopiesWholeBudgets`).
  - *Setup*: two commands, the server and the user's editor over one
    `config.toml` and one database file, failing and killed anywhere. An `init` past its migration has the
    whole schema (`SchemaFollowsInit`), even if a database without tables was there before, and whoever keeps
    running it gets there, unless a migration was killed under its lock or could not be marked (`SetupSucceeds`): from
    then on every `init` fails until somebody repairs the database. A token is in the file only if asked for, and
    only budgets that were named at some time are synced, even out of a file two commands wrote into.
- **ledger** (`MCLedger.cfg`): a transaction is split, reshaped, unsplit and
  deleted and moved to another account, its category renamed, rules added, while passes and manual choices
  run from stale reads. One part is a transfer. Reconciliation is not what the documents say in two ways, which
  `ledger_drift` and `ledger_moved` show; `DriftExplained` says that these two are all that is wrong with it.
  `CashFlowAsDelivered` says that cash flow is that of the contents delivered, except for the outdated parts that
  `ledger_views` is about.
- **alone** (`MCAlone.cfg`): five topics.
  - *Retirement*: a user earns more, contributes and lives through three tax years, one of them without
    data. The reduced Roth limit is the worksheet's (`RothAsWorksheet`) and never above the bucket it
    is part of (`RothWithinIra`), a higher income never raises it, and money counts in one bucket once.
  - *Recurring*: charges are posted and withdrawn in any order. No grouping within the tolerance has
    fewer groups (`GroupsAreFewest`), and no charge changes the groups that lie below it by more than the
    tolerance (`LowerGroupsStay`): amounts are signed, so a new expense leaves the dearer groups as they were.
    A regular series is found with its cadence, next date and confidence (`RegularIsFound`), and a charge
    that comes when expected never lowers the confidence (`PunctualChargeConfirms`). `LowerGroupsStay` and
    `PunctualChargeConfirms` compare, in every state, the charges with those without one of them.
  - *Anomaly*: expenses are posted, late ones too, and deleted. The three bounds on positions agree with a definition
    without positions (`FlaggedAsDefined`), a flagged month is dearer than any month of a short
    baseline (`AlarmBeatsBaseline`), and later spending takes no flag back (`FlagsAreFinal`).
  - *Files*: the same days are downloaded again, in any format, cut into parts or not, before and after more is booked.
    Each wording is stored as often as the file that had it most often in the part that is read, and
    not more often than entries were booked in it (`EachEntryOnce`). What the code does not
    do is not claimed: entries of later parts are dropped, and an entry that two formats word differently is
    stored in both wordings; in the instance OFX cuts payees off, so that both happen.
  - *Ingest*: one process ingests and reviews a statement with a repeated row for two accounts, failing and crashing anywhere.
    Batches hold all rows (`BatchComplete`); archived copies are whole (`ArchiveIntact`); every
    step keeps the promise of `BatchReview` (`PromiseKept`).

Runs that must find a violation, each a disagreement between the code and what
its documents say (quoted in `PROJECT.json` under `findings`):

- **ingest_overlap**: staging a statement that repeats a confirmed row takes
  the row out of the reports; the design calls that a no-op refresh.
- **review_race**: two reviews that both saw the batch pending both go through;
  the design has the status in the WHERE of both updates, the code has not.
- **sync_mid_pull**: an account edited after its request, but before the last one,
  is behind the new cursor and is not fetched again.
- **sync_poison**: one amount that is not a whole number of cents raises in
  every sync; the design skips the row. A fair behaviour never stores the others.
- **ledger_views**: children outlive a split that is undone or deleted, so that the
  leaves view and the tops view have different totals.
- **ledger_resync**: an unchanged split that is delivered again loses the
  categories of its parts.
- **ledger_drift**: `_reconcile` sums rows that have not cleared, though its docstring says that it compares the
  cleared balance; an account with one is reported as drift.
- **ledger_moved**: the upsert leaves the account of a row as it was, though the design's rule says that it covers every
  mutable column; a transaction that YNAB moved stays in its old account.

**Bounds, and why they are enough.**
- *Ingest*: every race here is between two commands about one or two
  statements, and a third process could only repeat one of them. `MaxBatches = 3`
  lets a statement be staged, rejected, dropped and staged again next to an
  overlapping one. Processes are interchangeable, so `ProcSymmetry` is sound; no liveness is checked with it.
- *Ingest, alone*: one file with a repeated row for two accounts and `MaxBatches = 4`: both
  statements can be re-ingested. Accounts are no symmetry set.
- *Sync*: one entity of each kind, the transaction refers to all others: all
  foreign keys occur. `MaxEdits = 4` lets the entities be created over several
  syncs and edited again afterwards.
- *Ledger*: contents with no, one and two parts and a deleted one give every change of
  shape; two rules that both match, the later of higher priority, give every
  order; a row of another source tests the scope. Of three accounts two are YNAB's, so that a
  transaction can move; the parts have opposite signs and one is a transfer, so that every sum of cash flow differs.
- *Setup*: two commands give every overlap of two writers; two migrations leave a schema that is cut
  short; with one budget the second list is longer or shorter than the first already. More budgets
  only matter to what is proved.
- *Retirement*: scaled down so that every income is tried from below the lowest band to above
  the highest. Bands of 11 to 16 and a step of 5 make most shares inexact and some exact; the floor
  bites at the end of each band; both catch-up ages are reached on the way.
- *Recurring*: up to five charges, `FullGaps = 3` in place of 5 and cadences of 2 and of 4 to 5 days, with days
  between them; three expenses and a refund, of which neighbours are within the tolerance and the ends are not: the smallest
  instance in which a third charge decides whether two belong together.
- *Anomaly*: seven months and a baseline of five, so that it starts at the first month, slides,
  and skips months; spending of 0 to 3 makes baselines flat and varied, `z = 2`, as in the code, separates them.
- *Files*: payments of a day to two branches, which one of the formats does not tell apart, and a refund without memo, each booked up
  to twice; one of the formats prints amounts inverted, and the template may be missing or of the other layout.

Deadlock is checked in every run but `alone`: the system never stops, as a command can always
begin or end. In `alone` the user of the retirement topic has nothing left to declare at the bounds.

**Fairness.** `sync_setup` and `sync_poison` use it. For syncs, `WF(Begin)`: the sync is
run again and again, by hand, timer or assistant. `SF(Fetch)` and `SF(Apply)`: a request may
fail and a process may be killed any number of times, but not each time forever; strong,
because an abort disables them. `WF(MustRaise /\ Abort)`: a sync that can
only raise does end. Nobody has to edit the budget and nothing else has to fail.
For setup, the user runs `init` again and again, repairs a file that cannot be read, a process that
runs ends (`WF(Step)`), and not every `init` is killed at the same step, nor loses the lock to another command each time (`SF`).
Nothing says that a migration is never killed: `SetupSucceeds` has the lock that this leaves behind as its exception.

**What setup loses.** `add-budget` and `remove-budget` rebuild `config.toml` from the list of budgets
alone: a saved token and the `[retirement]` section are gone, and a change that another command made in between too.
The plan of these commands (`docs/superpowers/plans/2026-06-10-sp1-foundation.md`, line 3326) has
them spare the user `init` and editing, and rewrite the file by renaming; the code truncates it in
place, so that a killed command leaves it empty, and two at once can leave it unreadable to every command. The
model does the same; what the run checks are the properties that survive it.

**More than one sync at a time.** The code takes no lock from reading the cursor
to writing it. With two processes `CursorCovers` and `NeverReverts` fail: p1
pulls at knowledge 1; p2 pulls and commits at knowledge 2, p1 then commits the older rows
and sets the cursor back to 1. Rows are refetched by the next sync unless another process
had begun from cursor 2 and commits it again. No document
promises otherwise, so this is an assumption of the run and theorems (`OneProcess`)
and not a finding.

## 4. What is proved

TLAPS checks these for every value of the constants.

*From `StatementIngest`'s assumptions on constants alone, for any number of processes:*
`TypeCorrect`, `RowsFollowBatches`, `StatementsUnique`, `NewestBatchDecides`,
`ArchivedFirst`, and the action properties `PublishedByConfirm` and `LossExplained`.
The argument is layered. `TypeOK` is not inductive: `Stage` writes `stmt[p]` into a
batch, so `StmtHeld` (a process that ingests holds a statement) is added. On that,
`RowFollowsBatch` is inductive because a batch with rows cannot be dropped, and
because both verdicts rewrite exactly the rows that the batch status speaks of, even
when the status was read too early. `OneBatchPerStatement` follows from the unique
key. `NewestBatchOwnsRow` needs that ids only grow. `ArchivedBeforeStaged` needs `CopyHeld`: a process
past its copy has a file there, and no step removes one.
The action properties follow step by step.

*With `OneProcess` and `StatementsDisjoint` (no two statements share a row) in addition:* `ArchiveWhole`,
`BatchesComplete` and `ReviewPromise`, the refinement of `BatchReview`. Runs `review_race` and `ingest_overlap` show that neither
of the assumptions can be left out. The invariant `ReviewInv` adds two things to the above. `RowsExact`: a batch that was not rejected has
exactly the rows of its statement, as no other statement can take any. `LocalsFresh`: what a process has
read about batches is still so, up to the copy it has begun, as nobody else runs.
Each way the tables change is then a step of the promise (`StageOffers`, `VerdictIsGiven`, `DropForgets`) and everything
else is a stutter; a dropped batch has no row in the reports, because another batch that had it would be of the same statement.
`BatchesComplete` counts what `RowsExact` says: the ids of a statement are those of its rows one by one (`IdsOfOneKey`), so
that their number is the sum of the repetitions. Files are finite for it (`KeysAssumption`).

*From `YnabSync`'s assumptions:* `TypeCorrect`. *With `OneProcess` and
`QuietPulls` (no edit during a pull) in addition:* `CursorIsTruthful`, `NoForeignKeyFails`,
`SyncNeverReverts`. The inductive invariant `SyncInv` follows a sync from cursor
to commit: the cursor it read is still the cursor (`SinceIsCursor`), what it
holds is exactly what was edited since, of the kinds it has requested (`PullExact`),
and a complete delta has all of the interval between the two cursors (`DeltaExact`). Edits may
happen between the last reply and the commit; they are stamped after the new cursor.
Both assumptions are needed, as above and in the run sync_mid_pull. `WholeBudgets`, the refinement of `BudgetCopy`, adds one
fact to `SyncInv`, `DeltaMakesTaken`: what a complete delta makes of the database is what was taken. The last reply establishes it
(`LastReply`: what is not in the delta is behind the cursor, and so in the database already), and no later
step changes either side before the commit.

*From `Ledger`'s assumptions (priorities are bounded below, as integers of SQLite are; `None`, SQL's NULL, is no
name, no category, no source of one and no content):*
`TypeCorrect`, `SplitsAddUp`, `PassesAreRight`, `PassesAreIdempotent`, `ManualChoicesLast`,
`DriftsAreExplained`, `CashFlowIsDelivered`. Typing needs `ArgsTyped`
(a process that pins holds a row id and a name). The key lemma `PassRow` says what the
three UPDATEs come to for one row (`passed`): each reads what the one before it wrote, so
the proof follows a row through them. `PassesAreRight` combines it with `FirstMatch`: a matching
rule that no other precedes exists, by well-foundedness of the naturals. `PassesAreIdempotent` is
`passed(passed(row)) = passed(row)` for each row. `ManualChoicesLast` then needs only that the upsert keeps the
row of a transaction and its two category columns. `SplitsAddUp` needs no induction over sums: the amounts of the
children, as a function of their numbers, are those of the parts delivered (`DeliveredParts`), which add up by
`VersionsAssumption`, and whatever is done to categories leaves that function as it was (`CommandsKeepAmounts`).
The last two are about sums over the whole table. `DeliveredInv` says of each transaction what its last delivery left: its row
with that amount and those flags, and, of a split, just its parts; children of a split that is none any more may stay, and
no child is a split or deleted. The accounts of rows need no invariant: the drift is stated over the account a row stands in.
Balance and cleared balance are then sums over sets of transactions (`BalanceDelivered`), and a drift is what is in one only
(`DifferenceOfSums`). The leaves that are no outdated parts correspond one to one to the entries delivered (`OwnIsDue`), which
carries each side of the cash flow and its count over (`FlowSides`).

*From `Setup`'s assumption:* `TypeCorrect`, `InitFindsSchema`, `TokensAreAskedFor`, `SyncsAreNamed`.
`SetupTypeOK` needs `ServerHasCfg` (a connection implies a configuration). `SchemaFollowsInit` is inductive
with it: the whole schema stays (`SchemaStays`), and `Migrated` is the only way past
(`PassesWithSchema`). For the other two, every configuration anywhere, in the file, in a command's hands
or cached, is `Covered`: its token was asked for and its budgets named; `OverlaidContent`
says what two contents can leave behind.

*From `Retirement`'s assumptions:* `WorksheetIsRight`, `RothIsWithinIra`, `IncomeNeverRaises`,
`MoneyIsCountedOnce`. `LimitsAssumption` is what the bundled data file satisfies: IRA limits and catch-ups are
multiples of the rounding step and not below the floor. Without it rounding up could pass the limit.
The invariant is the typing of the profile (`TypeInv`); the work is arithmetic. `CeilDiv`
says that the code's division is the least quotient that covers, and `TimesMonotone`,
`TimesCancel` and `MultiplesInOrder` carry products past the prover, which is weak at them.

*From `StatementFiles`' assumptions:* `EntriesOnce`. `TemplatesAssumption` is what a user has to get right: the
template has the columns of both texts and the sign of its format; `OfxAssumption` is the format's own convention. What a parser
accepts is then the entry as its format words it (`ParsedAsShown`), so a file adds as many ids of a wording as the part that is
read has lines of it (`RowsOfFile`), which is no more than were booked (`LinesAreBooked`, by comparing finite sets), and a file
that is refused changes nothing.

*From `AnomalyAssumption` (the counts are naturals, the threshold too):* `FlagsAreDefined`, `AlarmsBeatTheirBaseline`,
`FlagsLast`. The code works on positions in a list, the properties speak of months. `FlagsByMonth` carries one into the other: the
position of a month is one more than the number of active months before it, so that a slice of the list is the
`Baseline` of the month, and sums over both are the same. `AlarmBeatsBaseline` is the inequality of Cauchy and Schwarz:
the spread of a set of months, written as a sum over pairs, grows with the set (`SpreadGrows`), so that one month as dear as
the flagged one would make a spread larger than the alarm allows. `FlagsAreFinal` needs only that the past decides (`PastDecides`)
and that more spending raises the margin.

*From `ChargesAssumption` (a tolerance, at least two occurrences, gaps and bounds that are naturals):* `FewestGroupsAlways`,
`LowerGroupsAlwaysStay`, `RegularIsAlwaysFound`, `PunctualChargeAlwaysConfirms`. The only invariant of the
behaviours is `ChargesTyped`; the work is about the functions, for any finite set of charges.
- Sorting: ranks in a finite strict order are taken once each (`RanksTaken`), so that `sorted` has every charge once,
  in order. Of numbers there is one ascending arrangement only (`SortedOnce`).
- The loop that groups: the invariant `Grouped` says that the groups so far hold the charges so far, each within the tolerance of
  the first of its group, and that the first amounts of two groups differ by more. Hence no set within the tolerance
  holds two of them, and a cover needs as many sets as there are groups. Hence also that a group is all
  that lies within the tolerance above its first charge (`GroupIsWindow`). Two runs of the loop, with a charge and
  without it, agree up to its place in the list (`LoopsAgree`), and what comes after it cannot change lower groups.
- The numbers: gaps that are equal have that median, no deviation and the confidence that rounding leaves
  (`MedianOfEqual`, `ConfidenceOfEqual`). A gap equal to the median, put last, is sorted into the middle (`SortedInto`) and leaves the median alone
  (`MedianKept`); the deviation stays while the whole grows, and Python's `round` is monotone in fractions (`RoundOfLarger`).

*Sums and induction.* `SumFunction` is a recursive function over subsets, and the library's induction theorems take an
operator, which the provers cannot instantiate. `Sums` therefore proves each induction over a *set* of
naturals that contains 0 and successors, which is first-order, and shows from it that the recursion is well-defined on finite sets
(`SumFunction` of nothing, of one element more, of disjoint sets, of equal terms). The loop over charges and the counting of
rows are inductions of the same form. Models that are proved about therefore avoid `SortSeq`, `RECURSIVE` and folds with
operator arguments.

*Only model-checked:* liveness (`CatchesUp`, `SetupSucceeds`), which is beyond the prover. Every other property of a passing run is
a theorem. What holds without the assumptions named above is refuted or not claimed.

## 5. Not modelled, and why

- The retry loop inside the client: `run_sync` sees an answer or an exception.
- `sync_runs`: written for display, never read by a sync.
- `list_batches`, the preview of an ingest, the SQL of listings and of the other aggregations: SELECTs without effect.
- `opportunities` and `contribution_deadline`: they restate what remains; overrides of age and income.
- Reading the formats themselves (`csv`, `docling`, `ofxtools`), dates and numbers as text, statement periods and closing
  balances, which are stored for display. No parser of a real file delivers an opening balance, so `reconcile`
  in `ingest.py` always answers `n/a`.
- The hash behind a row's id is taken to be injective. (It joins payee and memo by `|`, so texts that contain one might
  collide.) Regular expressions: a rule is the set of texts it matches. Formatting, prompting, logging.
- A file that changes while `ingest_file` reads it three times.
- What is inside a migration: the library and its SQL; `Setup` counts the migrations applied. How a user repairs a database whose
  lock was left behind or whose migration is half recorded.
- The test double of the client serves fixtures to the tests.

**Noticed on the way**, in the code and the model alike, where no run is about it:

- `sync.py` lines 121-149: `_reconcile` looks only at accounts that the sync has delivered.
- `docling_pdf.py` line 121 and `ofx.py` lines 34-37: the entries of every table or statement but the first are dropped without an
  error. (A template may name its table in the SP2 design, lines 255 and 275-281; the code does not read that. Files of several accounts are out of
  the design's scope, lines 414 and 515.)
- `ingest.py` line 239: an entry that two formats word differently has two ids, and both are stored.
- `ingest.py` line 227: a re-ingest that fails after its DELETE has lost the batch row of a rejected batch; the SP2 design (line 350) accepts that.
- `mcp_server/__main__.py` line 21: the server syncs by the configuration that it read first.
- `categorize.py` line 112: a pass with older rules that commits later undoes a pass with newer ones.
- `ingest.py` line 220 recommends `--reingest` for a batch that is pending or confirmed; its DELETE then fails on the foreign key
  unless the batch has no rows. The other way round, a rejected batch is not refused without `--reingest`, as the design has it
  (section 8.1); the ingest gets as far as the staging transaction and fails on UNIQUE, after it has written the archive again.
- `parsers/csv.py` and `docling_pdf.py`: short rows may raise `TypeError`, `AttributeError` or `IndexError` instead of
  `ParseError`. The file is refused in any case, which is all that `readable` says.
- One template per account is for names or for numbers: an account cannot have CSV and PDF files at a time.
- `anomaly.py` skips months without spending, so that a baseline may reach far back; the
  anomalies of single transactions in the design (section 8.3) are not there. With six months and `z = 2` a flagged month
  may be no dearer than one of its baseline, hence the condition of `AlarmBeatsBaseline`.
- Commands that sync several budgets stop at the first that fails.

## 6. Plan

Done: all components that change state, with proofs; the abstractions of statement review and of
delta sync with the proofs of both refinements; the functions of the analysis; every safety property that a run checks,
as a theorem.

Left, in the order of what they would add:
1. A file edited while it is ingested, as a step of the user between hash, parse and copy in `StatementIngest`.
2. The safety half of what liveness rests on, e.g. that from every state of `Setup` an `init` that is not killed can
   finish: a step-by-step progress argument in place of fairness.
