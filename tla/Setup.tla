-------------------------------- MODULE Setup --------------------------------
(***************************************************************************)
(* config.toml and the database file: the commands of cli.py that write    *)
(* them (init, add-budget, remove-budget), those that only use them, and   *)
(* the server of mcp_server/__main__.py, which keeps what it saw first.    *)
(*                                                                         *)
(* A command runs in a process of its own, reads the configuration once    *)
(* and may end at any step, by an error or a crash (Raise, Kill).  The     *)
(* token stands for every setting that is not in the list of budgets.      *)
(*                                                                         *)
(* yoyo, which migrates, is external.  It is taken to do what its callers  *)
(* rely on, one migration after the other under its lock; to leave the     *)
(* lock behind when it is killed; and to mark a migration as applied in a  *)
(* step of its own, which may fail.                                        *)
(*                                                                         *)
(* An operator whose name ends in _BUG_<what> is a plausible slip in the   *)
(* definition that follows it; the specification never uses it.            *)
(***************************************************************************)
EXTENDS Integers

CONSTANTS
    Slots,          \* for commands that run at the same time
    Budgets,        \* budgets of the YNAB account
    LastMigration,  \* number of migrations of the schema
    Garbled,        \* content of config.toml that is no TOML
    None            \* no --source; nothing cached

ASSUME SetupAssumption == LastMigration \in Nat \ {0}
ASSUME SlotsAssumption == Slots \cap {"free", "stuck"} = {}

VARIABLES
    file,        \* content of config.toml
    schema,      \* migrations applied to the database file, or NoFile
    lock,        \* of the library that migrates: who holds it
    sources,     \* budgets with a row in the table sources
    local,       \* process -> where its command is and what it holds
    server_cfg,  \* _cfg of the server
    server_open, \* whether the server holds a connection
    asked,       \* history: the user asked for a token in the file
    known        \* history: budgets the user ever named

setupVars ==
    <<file, schema, lock, sources, local, server_cfg, server_open, asked, known>>

NoFile == -1

\* Nobody holds the lock, or no migration will succeed any more.
Free == "free"
Stuck == "stuck"

Config == [token : BOOLEAN, budgets : SUBSET Budgets]

\* What load_config makes of a file that is empty or not there.
Empty == [token |-> FALSE, budgets |-> {}]

Commands == {"init", "adjust", "sync", "use"}
Local == [pc : {"idle", "truncate", "write", "migrate", "apply", "open", "work"},
          cmd : Commands, content : Config, todo : SUBSET Budgets]

Idle == [pc |-> "idle", cmd |-> "use", content |-> Empty, todo |-> {}]

SetupTypeOK ==
    /\ file \in Config \cup {Garbled}
    /\ schema \in NoFile..LastMigration
    /\ lock \in Slots \cup {Free, Stuck}
    /\ sources \subseteq Budgets
    /\ local \in [Slots -> Local]
    /\ server_cfg \in Config \cup {None}
    /\ server_open \in BOOLEAN
    /\ asked \in BOOLEAN
    /\ known \subseteq Budgets

-----------------------------------------------------------------------------
(***************************************************************************)
(* What is written                                                         *)
(***************************************************************************)
Readable == file # Garbled

\* _render_config_toml: nothing is taken over from the file.
Rendered(budgets, include_token) == [token |-> include_token, budgets |-> budgets]

init_config_BUG_keeps_token(selected, save) == Rendered(selected, TRUE)

init_config(selected, save) == Rendered(selected, save)

\* A write from offset 0 into a file that another command has filled since
\* it was truncated: the tail of the longer content stays.
Overlaid(new, old) ==
    IF old = Empty THEN {new}
    ELSE {Garbled, new} \cup
           (IF old = Garbled THEN {}
            ELSE {[new EXCEPT !.budgets = @ \cup rest] : rest \in SUBSET old.budgets})

\* init migrates always, the others only if there is no file.
needs_migration_BUG_if_no_file(cmd) == schema = NoFile

needs_migration(cmd) == cmd = "init" \/ schema = NoFile

to_apply_BUG_fresh_only(n) == n = 0
to_apply_BUG_one_more(n) == n <= LastMigration

to_apply(n) == n < LastMigration

sync_targets_BUG_unfiltered(cfg, source) ==
    IF source = None THEN cfg.budgets ELSE {source}

sync_targets(cfg, source) ==
    IF source = None THEN cfg.budgets ELSE {b \in cfg.budgets : b = source}

opened == IF schema = NoFile THEN 0 ELSE schema

-----------------------------------------------------------------------------
(***************************************************************************)
(* A command begins: it reads the configuration.  One that is refused      *)
(* changes nothing.                                                        *)
(***************************************************************************)
Start(p, l) == local[p].pc = "idle" /\ Readable /\ local' = [local EXCEPT ![p] = l]

SetupInit ==
    /\ file = Empty /\ schema = NoFile /\ lock = Free /\ sources = {}
    /\ local = [p \in Slots |-> Idle]
    /\ server_cfg = None /\ server_open = FALSE
    /\ asked = FALSE /\ known = {}

InitCommand(p, selected, save_token_to_file, no_sync) ==
    /\ selected # {}
    /\ Start(p, [pc |-> "truncate", cmd |-> "init",
                 content |-> init_config(selected, save_token_to_file),
                 todo |-> IF no_sync THEN {} ELSE selected])
    /\ asked' = (asked \/ save_token_to_file)
    /\ known' = known \cup selected
    /\ UNCHANGED <<file, schema, lock, sources, server_cfg, server_open>>

Adjust(p, new_list) ==
    Start(p, [Idle EXCEPT !.pc = "truncate", !.cmd = "adjust",
                          !.content = Rendered(new_list, FALSE)])

AddBudget(p, b) ==
    /\ Readable /\ b \notin file.budgets
    /\ Adjust(p, file.budgets \cup {b})
    /\ known' = known \cup {b}
    /\ UNCHANGED <<file, schema, lock, sources, server_cfg, server_open, asked>>

RemoveBudget(p, b) ==
    /\ Readable /\ b \in file.budgets
    /\ Adjust(p, file.budgets \ {b})
    /\ UNCHANGED <<file, schema, lock, sources, server_cfg, server_open, asked, known>>

\* The database is opened before a source that is not configured is refused.
SyncCommand(p, env_token, source) ==
    /\ Readable /\ (env_token \/ file.token)
    /\ file.budgets # {}
    /\ Start(p, [Idle EXCEPT !.pc = "open", !.cmd = "sync",
                             !.todo = sync_targets(file, source)])
    /\ UNCHANGED <<file, schema, lock, sources, server_cfg, server_open, asked, known>>

\* accounts add, ingest, categorize apply, categorize rules add.
LocalCommand(p) ==
    /\ Start(p, [Idle EXCEPT !.pc = IF needs_migration("use") THEN "migrate" ELSE "open"])
    /\ UNCHANGED <<file, schema, lock, sources, server_cfg, server_open, asked, known>>

\* batch confirm and batch reject; the listings, if there is a file.
OpenCommand(p) ==
    /\ Start(p, [Idle EXCEPT !.pc = "open"])
    /\ UNCHANGED <<file, schema, lock, sources, server_cfg, server_open, asked, known>>

-----------------------------------------------------------------------------
(***************************************************************************)
(* The steps of a command                                                  *)
(***************************************************************************)
Goto(p, pc) == local' = [local EXCEPT ![p].pc = pc]
Finish(p) == local' = [local EXCEPT ![p] = Idle]

\* os.open with O_TRUNC.
Truncate(p) ==
    /\ local[p].pc = "truncate"
    /\ file' = Empty
    /\ Goto(p, "write")
    /\ UNCHANGED <<schema, lock, sources, server_cfg, server_open, asked, known>>

\* The content reaches the file when it is closed.
Write(p) ==
    /\ local[p].pc = "write"
    /\ file' \in Overlaid(local[p].content, file)
    /\ IF local[p].cmd # "init" THEN Finish(p)
       ELSE IF needs_migration("init") THEN Goto(p, "migrate")
       ELSE Goto(p, "open")
    /\ UNCHANGED <<schema, lock, sources, server_cfg, server_open, asked, known>>

\* backend.lock(), after connecting, which creates the file.  Who waits too
\* long for it raises (Raise).
Lock(p) ==
    /\ local[p].pc = "migrate"
    /\ lock = Free
    /\ lock' = p
    /\ schema' = opened
    /\ Goto(p, "apply")
    /\ UNCHANGED <<file, sources, server_cfg, server_open, asked, known>>

\* apply_migrations records each migration that it has applied.
Migrate(p) ==
    /\ local[p].pc = "apply"
    /\ to_apply(schema)
    /\ schema' = schema + 1
    /\ UNCHANGED <<file, lock, sources, local, server_cfg, server_open, asked, known>>

Migrated(p) ==
    /\ local[p].pc = "apply"
    /\ ~to_apply(schema)
    /\ lock' = Free
    /\ IF local[p].cmd = "init" /\ local[p].todo = {} THEN Finish(p) ELSE Goto(p, "open")
    /\ UNCHANGED <<file, schema, sources, server_cfg, server_open, asked, known>>

\* Killed among the migrations, a process frees nothing: its row stays in
\* the table yoyo_lock, and from then on every migration waits for the lock
\* and raises.  A migration that could not be marked is tried again, and
\* its CREATE or ALTER TABLE raises, which comes to the same.  To repair the
\* database by hand is not modelled.
Kill(p) ==
    /\ local[p].pc = "apply"
    /\ lock' = Stuck
    /\ Finish(p)
    /\ UNCHANGED <<file, schema, sources, server_cfg, server_open, asked, known>>

\* Store.open creates the file if there is none.
Open(p) ==
    /\ local[p].pc = "open"
    /\ schema' = opened
    /\ Goto(p, "work")
    /\ UNCHANGED <<file, lock, sources, server_cfg, server_open, asked, known>>

\* run_sync registers the budget with the rest of its transaction.  Without
\* tables it raises (Raise).
SyncBudget(p, b) ==
    /\ local[p].pc = "work" /\ b \in local[p].todo
    /\ schema > 0
    /\ sources' = sources \cup {b}
    /\ IF local[p].todo = {b} THEN Finish(p)
       ELSE local' = [local EXCEPT ![p].todo = @ \ {b}]
    /\ UNCHANGED <<file, schema, lock, server_cfg, server_open, asked, known>>

Use(p) ==
    /\ local[p].pc = "work" /\ local[p].cmd = "use"
    /\ schema > 0
    /\ Finish(p)
    /\ UNCHANGED <<file, schema, lock, sources, server_cfg, server_open, asked, known>>

\* A command raises, which frees the lock if it holds it, or is killed
\* outside the migrations.
Raise(p) ==
    /\ local[p].pc # "idle"
    /\ lock' = IF local[p].pc = "apply" THEN Free ELSE lock
    /\ Finish(p)
    /\ UNCHANGED <<file, schema, sources, server_cfg, server_open, asked, known>>

-----------------------------------------------------------------------------
(***************************************************************************)
(* The server, and the user's editor                                       *)
(***************************************************************************)
ServerLoad ==
    /\ server_cfg = None /\ Readable
    /\ server_cfg' = file
    /\ UNCHANGED <<file, schema, lock, sources, local, server_open, asked, known>>

ServerOpen ==
    /\ server_cfg # None /\ ~server_open
    /\ server_open' = TRUE
    /\ schema' = opened
    /\ UNCHANGED <<file, lock, sources, local, server_cfg, asked, known>>

\* Each budget of sync_ynab is synced by itself.
ServerSync(env_token, source) ==
    /\ server_open /\ schema > 0
    /\ env_token \/ server_cfg.token
    /\ \E b \in sync_targets(server_cfg, source) : sources' = sources \cup {b}
    /\ UNCHANGED <<file, schema, lock, local, server_cfg, server_open, asked, known>>

ServerRestart ==
    /\ server_cfg # None
    /\ server_cfg' = None /\ server_open' = FALSE
    /\ UNCHANGED <<file, schema, lock, sources, local, asked, known>>

\* The user saves the token in the file, or replaces what cannot be read.
HandEdit(content) ==
    /\ file' = content
    /\ Readable => content = [file EXCEPT !.token = TRUE]
    /\ asked' = (asked \/ content.token)
    /\ known' = known \cup content.budgets
    /\ UNCHANGED <<schema, lock, sources, local, server_cfg, server_open>>

SetupNext ==
    \/ \E p \in Slots :
          \/ \E selected \in SUBSET Budgets, save, no_sync \in BOOLEAN :
                InitCommand(p, selected, save, no_sync)
          \/ \E b \in Budgets : AddBudget(p, b) \/ RemoveBudget(p, b) \/ SyncBudget(p, b)
          \/ \E env_token \in BOOLEAN, source \in Budgets \cup {None} :
                SyncCommand(p, env_token, source)
          \/ LocalCommand(p) \/ OpenCommand(p)
          \/ Truncate(p) \/ Write(p) \/ Lock(p) \/ Migrate(p) \/ Migrated(p)
          \/ Open(p) \/ Use(p) \/ Raise(p) \/ Kill(p)
    \/ ServerLoad \/ ServerOpen \/ ServerRestart
    \/ \E env_token \in BOOLEAN, source \in Budgets \cup {None} :
          ServerSync(env_token, source)
    \/ \E content \in Config : HandEdit(content)

SetupSpec == SetupInit /\ [][SetupNext]_setupVars

-----------------------------------------------------------------------------
(***************************************************************************)
(* Fairness                                                                *)
(***************************************************************************)
Step(p) ==
    \/ Truncate(p) \/ Write(p) \/ Lock(p) \/ Migrate(p) \/ Migrated(p)
    \/ Open(p) \/ Use(p)
    \/ \E b \in Budgets : SyncBudget(p, b)
    \/ Raise(p)

\* The user runs init again, and repairs what cannot be read.  A process is
\* scheduled until it ends, and not every init is killed at the same step.
SetupFairness ==
    /\ SF_setupVars(\E p \in Slots, selected \in SUBSET Budgets,
                       save, no_sync \in BOOLEAN :
                      InitCommand(p, selected, save, no_sync))
    /\ WF_setupVars(file = Garbled /\ \E content \in Config : HandEdit(content))
    /\ \A p \in Slots : WF_setupVars(Step(p))
    /\ SF_setupVars(\E p \in Slots : local[p].cmd = "init" /\ Truncate(p))
    /\ SF_setupVars(\E p \in Slots : local[p].cmd = "init" /\ Write(p))
    /\ SF_setupVars(\E p \in Slots : local[p].cmd = "init" /\ Lock(p))
    /\ SF_setupVars(\E p \in Slots : local[p].cmd = "init" /\ Migrate(p))

FairSetupSpec == SetupSpec /\ SetupFairness

-----------------------------------------------------------------------------
(***************************************************************************)
(* Properties                                                              *)
(***************************************************************************)

(***************************************************************************)
(* An init that is past its migration finds the whole schema: although the *)
(* other commands and the server create a file without tables and from     *)
(* then on nobody but init migrates (cli.py lines 234, 348, 400, 539, 561; *)
(* Store.open), and although another migration may have been cut short.    *)
(***************************************************************************)
SchemaFollowsInit ==
    \A p \in Slots :
        local[p].cmd = "init" /\ local[p].pc \in {"open", "work"} => schema = LastMigration

(***************************************************************************)
(* The token is in config.toml only if the user asked for that, with       *)
(* --save-token-to-file or by hand, whatever commands write over each      *)
(* other (cli.py lines 183-187: by default it is kept in the environment). *)
(***************************************************************************)
TokenOnlyIfAsked == Readable /\ file.token => asked

(***************************************************************************)
(* Only budgets that the user ever named are synced, not what --source     *)
(* asks for beyond the configuration (cli.py lines 278-283), and also from *)
(* a file that two commands have written into.  Named once is enough: a    *)
(* server with an old configuration goes on with a budget that was removed *)
(* since, and that is no violation.                                        *)
(***************************************************************************)
SyncedWasNamed == sources \subseteq known

(***************************************************************************)
(* Who keeps running init gets the whole schema, unless a migration was    *)
(* killed under the lock or could not be marked.  Nothing else lasts: an   *)
(* init that failed, or was killed elsewhere; a migration that was rolled  *)
(* back; a database without tables made by somebody who came first; a      *)
(* configuration that two commands wrote into.                             *)
(***************************************************************************)
SetupSucceeds == <>[](schema = LastMigration \/ lock = Stuck)
=============================================================================
