----------------------------- MODULE SetupProofs -----------------------------
(***************************************************************************)
(* Proofs about Setup, for any number of commands, budgets and migrations. *)
(***************************************************************************)
EXTENDS Setup, TLAPS

-----------------------------------------------------------------------------
(***************************************************************************)
(* What is written                                                         *)
(***************************************************************************)
LEMMA EmptyIsConfig == Empty \in Config
  BY DEF Empty, Config

LEMMA IdleIsLocal == Idle \in Local
  BY EmptyIsConfig DEF Idle, Local, Commands

LEMMA RenderedIsConfig ==
    ASSUME NEW budgets \in SUBSET Budgets, NEW token \in BOOLEAN
    PROVE  /\ Rendered(budgets, token) \in Config
           /\ Rendered(budgets, token).budgets = budgets
           /\ Rendered(budgets, token).token = token
  BY DEF Rendered, Config

\* What is left of two contents is unreadable, or has the token of the one
\* written last and budgets of both.
LEMMA OverlaidContent ==
    ASSUME NEW new \in Config, NEW old \in Config \cup {Garbled},
           NEW content \in Overlaid(new, old)
    PROVE  \/ content = Garbled
           \/ /\ content \in Config
              /\ content.token = new.token
              /\ old = Garbled => content.budgets = new.budgets
              /\ old # Garbled => content.budgets \subseteq new.budgets \cup old.budgets
<1>1. CASE old = Empty
  BY <1>1, EmptyIsConfig DEF Overlaid, Config
<1>2. CASE old # Empty /\ old = Garbled
  BY <1>2 DEF Overlaid
<1>3. CASE old # Empty /\ old # Garbled
  <2>1. old \in Config
    BY <1>3
  <2>2. SUFFICES ASSUME NEW rest \in SUBSET old.budgets,
                        content = [new EXCEPT !.budgets = @ \cup rest]
                 PROVE  /\ content \in Config
                        /\ content.token = new.token
                        /\ content.budgets \subseteq new.budgets \cup old.budgets
    BY <1>3, <2>1 DEF Overlaid
  <2>3. new = [token |-> new.token, budgets |-> new.budgets]
        /\ new.token \in BOOLEAN /\ new.budgets \subseteq Budgets
        /\ old.budgets \subseteq Budgets
    BY <2>1 DEF Config
  <2>4. content = [token |-> new.token, budgets |-> new.budgets \cup rest]
    BY <2>2, <2>3
  <2> QED
    BY <2>3, <2>4 DEF Config
<1> QED
  BY <1>1, <1>2, <1>3

-----------------------------------------------------------------------------
(***************************************************************************)
(* Where a step leaves a command.                                          *)
(***************************************************************************)
LocalPc == {"idle", "truncate", "write", "migrate", "apply", "open", "work"}

LEMMA Placed ==
    ASSUME local \in [Slots -> Local], NEW p \in Slots, NEW l \in Local,
           local' = [local EXCEPT ![p] = l]
    PROVE  /\ local' \in [Slots -> Local]
           /\ local'[p] = l
           /\ \A q \in Slots \ {p} : local'[q] = local[q]
  OBVIOUS

LEMMA Gone ==
    ASSUME local \in [Slots -> Local], NEW p \in Slots, NEW pc \in LocalPc, Goto(p, pc)
    PROVE  /\ local' \in [Slots -> Local]
           /\ local'[p].pc = pc
           /\ local'[p].cmd = local[p].cmd
           /\ local'[p].content = local[p].content
           /\ local'[p].todo = local[p].todo
           /\ \A q \in Slots \ {p} : local'[q] = local[q]
<1> DEFINE l == [local[p] EXCEPT !.pc = pc]
<1>1. /\ local[p] \in Local /\ l \in Local
      /\ l.pc = pc /\ l.cmd = local[p].cmd
      /\ l.content = local[p].content /\ l.todo = local[p].todo
  BY DEF Local, LocalPc
<1>2. local' = [local EXCEPT ![p] = l]
  BY DEF Goto
<1> HIDE DEF l
<1> QED
  BY <1>1, <1>2, Placed

LEMMA Ended ==
    ASSUME local \in [Slots -> Local], NEW p \in Slots, Finish(p)
    PROVE  /\ local' \in [Slots -> Local]
           /\ local'[p] = Idle
           /\ \A q \in Slots \ {p} : local'[q] = local[q]
  BY IdleIsLocal, Placed DEF Finish

-----------------------------------------------------------------------------
(***************************************************************************)
(* Types.  A server that holds a connection holds a configuration.         *)
(***************************************************************************)
ServerHasCfg == server_open => server_cfg # None

TypeInv == SetupTypeOK /\ ServerHasCfg

LEMMA TypesInitially == SetupInit => TypeInv
<1> SUFFICES ASSUME SetupInit PROVE TypeInv
  OBVIOUS
<1>1. local \in [Slots -> Local]
  BY IdleIsLocal DEF SetupInit
<1>2. file \in Config /\ schema \in NoFile..LastMigration
  BY EmptyIsConfig, SetupAssumption DEF SetupInit, NoFile
<1> QED
  BY <1>1, <1>2 DEF SetupInit, TypeInv, SetupTypeOK, ServerHasCfg

\* What a command begins with.
LEMMA Begun ==
    ASSUME SetupTypeOK, NEW p \in Slots, NEW l \in Local, Start(p, l)
    PROVE  /\ local[p].pc = "idle" /\ file # Garbled /\ file \in Config
           /\ local' \in [Slots -> Local]
           /\ local'[p] = l
           /\ \A q \in Slots \ {p} : local'[q] = local[q]
  BY Placed DEF Start, Readable, SetupTypeOK

LEMMA InitLocal ==
    ASSUME NEW selected \in SUBSET Budgets, NEW save \in BOOLEAN, NEW no_sync \in BOOLEAN
    PROVE  [pc |-> "truncate", cmd |-> "init", content |-> init_config(selected, save),
            todo |-> IF no_sync THEN {} ELSE selected] \in Local
  BY RenderedIsConfig DEF init_config, Local, Commands

LEMMA AdjustLocal ==
    ASSUME NEW new_list \in SUBSET Budgets
    PROVE  LET l == [Idle EXCEPT !.pc = "truncate", !.cmd = "adjust",
                                 !.content = Rendered(new_list, FALSE)]
           IN  /\ l \in Local /\ l.cmd = "adjust" /\ l.pc = "truncate" /\ l.todo = {}
               /\ l.content = Rendered(new_list, FALSE)
  BY RenderedIsConfig DEF Idle, Local, Commands

LEMMA SyncLocal ==
    ASSUME NEW cfg \in Config, NEW source
    PROVE  LET l == [Idle EXCEPT !.pc = "open", !.cmd = "sync",
                                 !.todo = sync_targets(cfg, source)]
           IN  /\ l \in Local /\ l.cmd = "sync" /\ l.content = Empty
               /\ l.todo = sync_targets(cfg, source)
               /\ l.todo \subseteq cfg.budgets
  BY EmptyIsConfig DEF Idle, Local, Commands, sync_targets, Config

LEMMA UseLocal ==
    ASSUME NEW pc \in LocalPc
    PROVE  LET l == [Idle EXCEPT !.pc = pc]
           IN  l \in Local /\ l.cmd = "use" /\ l.content = Empty /\ l.todo = {}
  BY EmptyIsConfig DEF Idle, Local, Commands, LocalPc

LEMMA TypesPreserved == TypeInv /\ [SetupNext]_setupVars => TypeInv'
<1> SUFFICES ASSUME TypeInv, [SetupNext]_setupVars PROVE TypeInv'
  OBVIOUS
<1> USE DEF TypeInv
<1>1. ASSUME NEW p \in Slots, NEW selected \in SUBSET Budgets, NEW save \in BOOLEAN,
             NEW no_sync \in BOOLEAN, InitCommand(p, selected, save, no_sync)
      PROVE  TypeInv'
  <2>1. local' \in [Slots -> Local]
    BY <1>1, InitLocal, Begun DEF InitCommand
  <2> QED
    BY <1>1, <2>1 DEF InitCommand, SetupTypeOK, ServerHasCfg
<1>2. ASSUME NEW p \in Slots, NEW b \in Budgets, AddBudget(p, b) PROVE TypeInv'
  <2>1. file.budgets \cup {b} \in SUBSET Budgets
    BY <1>2 DEF AddBudget, Readable, SetupTypeOK, Config
  <2>2. local' \in [Slots -> Local]
    BY <1>2, <2>1, AdjustLocal, Begun DEF AddBudget, Adjust
  <2> QED
    BY <1>2, <2>2 DEF AddBudget, SetupTypeOK, ServerHasCfg
<1>3. ASSUME NEW p \in Slots, NEW b \in Budgets, RemoveBudget(p, b) PROVE TypeInv'
  <2>1. file.budgets \ {b} \in SUBSET Budgets
    BY <1>3 DEF RemoveBudget, Readable, SetupTypeOK, Config
  <2>2. local' \in [Slots -> Local]
    BY <1>3, <2>1, AdjustLocal, Begun DEF RemoveBudget, Adjust
  <2> QED
    BY <1>3, <2>2 DEF RemoveBudget, SetupTypeOK, ServerHasCfg
<1>4. ASSUME NEW p \in Slots, NEW env_token \in BOOLEAN, NEW source \in Budgets \cup {None},
             SyncCommand(p, env_token, source)
      PROVE  TypeInv'
  <2>1. file \in Config
    BY <1>4 DEF SyncCommand, Readable, SetupTypeOK
  <2>2. local' \in [Slots -> Local]
    BY <1>4, <2>1, SyncLocal, Begun DEF SyncCommand
  <2> QED
    BY <1>4, <2>2 DEF SyncCommand, SetupTypeOK, ServerHasCfg
<1>5. ASSUME NEW p \in Slots, LocalCommand(p) \/ OpenCommand(p) PROVE TypeInv'
  <2>1. PICK pc \in LocalPc : Start(p, [Idle EXCEPT !.pc = pc])
    BY <1>5 DEF LocalCommand, OpenCommand, LocalPc
  <2>2. local' \in [Slots -> Local]
    BY <2>1, UseLocal, Begun
  <2> QED
    BY <1>5, <2>2 DEF LocalCommand, OpenCommand, SetupTypeOK, ServerHasCfg
<1>6. ASSUME NEW p \in Slots, NEW b \in Budgets, SyncBudget(p, b) PROVE TypeInv'
  <2>1. local' \in [Slots -> Local]
    <3>1. CASE Finish(p)
      BY <3>1, Ended DEF SetupTypeOK
    <3>2. CASE local' = [local EXCEPT ![p].todo = @ \ {b}]
      BY <3>2 DEF SetupTypeOK, Local
    <3> QED
      BY <1>6, <3>1, <3>2 DEF SyncBudget
  <2> QED
    BY <1>6, <2>1 DEF SyncBudget, SetupTypeOK, ServerHasCfg
<1>7. ASSUME NEW p \in Slots, Truncate(p) PROVE TypeInv'
  <2>1. local' \in [Slots -> Local]
    BY <1>7, Gone DEF Truncate, SetupTypeOK, LocalPc
  <2> QED
    BY <1>7, <2>1, EmptyIsConfig DEF Truncate, SetupTypeOK, ServerHasCfg
<1>8. ASSUME NEW p \in Slots, Write(p) PROVE TypeInv'
  <2>1. local' \in [Slots -> Local]
    BY <1>8, Gone, Ended DEF Write, SetupTypeOK, LocalPc
  <2>2. file' \in Config \cup {Garbled}
    BY <1>8, OverlaidContent DEF Write, SetupTypeOK, Local
  <2> QED
    BY <1>8, <2>1, <2>2 DEF Write, SetupTypeOK, ServerHasCfg
<1>9. opened \in NoFile..LastMigration
  BY SetupAssumption DEF opened, SetupTypeOK, NoFile
<1>10. ASSUME NEW p \in Slots, Lock(p) PROVE TypeInv'
  <2>1. local' \in [Slots -> Local]
    BY <1>10, Gone DEF Lock, SetupTypeOK, LocalPc
  <2> QED
    BY <1>9, <1>10, <2>1 DEF Lock, SetupTypeOK, ServerHasCfg
<1>11. ASSUME NEW p \in Slots, Migrate(p) PROVE TypeInv'
  <2>1. schema' \in NoFile..LastMigration
    BY <1>11, SetupAssumption DEF Migrate, to_apply, SetupTypeOK, NoFile
  <2> QED
    BY <1>11, <2>1 DEF Migrate, SetupTypeOK, ServerHasCfg
<1>12. ASSUME NEW p \in Slots, Migrated(p) PROVE TypeInv'
  <2>1. local' \in [Slots -> Local]
    BY <1>12, Gone, Ended DEF Migrated, SetupTypeOK, LocalPc
  <2> QED
    BY <1>12, <2>1 DEF Migrated, SetupTypeOK, ServerHasCfg
<1>13. ASSUME NEW p \in Slots, Open(p) PROVE TypeInv'
  <2>1. local' \in [Slots -> Local]
    BY <1>13, Gone DEF Open, SetupTypeOK, LocalPc
  <2> QED
    BY <1>9, <1>13, <2>1 DEF Open, SetupTypeOK, ServerHasCfg
<1>14. ASSUME NEW p \in Slots, Use(p) \/ Raise(p) \/ Kill(p) PROVE TypeInv'
  <2>1. local' \in [Slots -> Local]
    BY <1>14, Ended DEF Use, Raise, Kill, SetupTypeOK
  <2> QED
    BY <1>14, <2>1 DEF Use, Raise, Kill, SetupTypeOK, ServerHasCfg
<1>15. ASSUME ServerLoad PROVE TypeInv'
  <2>1. /\ server_cfg' \in Config
        /\ server_open' = FALSE
    BY <1>15 DEF ServerLoad, Readable, SetupTypeOK, ServerHasCfg
  <2> QED
    BY <1>15, <2>1 DEF ServerLoad, SetupTypeOK, ServerHasCfg
<1>16. CASE ServerRestart
  BY <1>16 DEF ServerRestart, SetupTypeOK, ServerHasCfg
<1>17. CASE ServerOpen
  BY <1>9, <1>17 DEF ServerOpen, SetupTypeOK, ServerHasCfg
<1>18. ASSUME NEW env_token \in BOOLEAN, NEW source \in Budgets \cup {None},
              ServerSync(env_token, source)
       PROVE  TypeInv'
  <2>1. server_cfg \in Config
    BY <1>18 DEF ServerSync, SetupTypeOK, ServerHasCfg
  <2>2. sync_targets(server_cfg, source) \subseteq Budgets
    BY <2>1 DEF sync_targets, Config
  <2> QED
    BY <1>18, <2>2 DEF ServerSync, SetupTypeOK, ServerHasCfg
<1>19. ASSUME NEW content \in Config, HandEdit(content) PROVE TypeInv'
  BY <1>19 DEF HandEdit, SetupTypeOK, ServerHasCfg, Config
<1>20. CASE UNCHANGED setupVars
  BY <1>20 DEF setupVars, SetupTypeOK, ServerHasCfg
<1> QED
  BY <1>1, <1>2, <1>3, <1>4, <1>5, <1>6, <1>7, <1>8, <1>10, <1>11, <1>12, <1>13, <1>14,
     <1>15, <1>16, <1>17, <1>18, <1>19, <1>20 DEF SetupNext

LEMMA TypesAlways == SetupSpec => []TypeInv
  BY TypesInitially, TypesPreserved, PTL DEF SetupSpec

\* The files, the database, the server's caches and the commands' locals have
\* their types, for any number of commands and budgets.
THEOREM TypeCorrect == SetupSpec => []SetupTypeOK
<1>1. TypeInv => SetupTypeOK
  BY DEF TypeInv
<1> QED
  BY <1>1, TypesAlways, PTL

-----------------------------------------------------------------------------
(***************************************************************************)
(* The schema.  No step takes the whole schema away, and only Migrated     *)
(* lets an init go on.                                                     *)
(***************************************************************************)
PastMigration(l) == l.cmd = "init" /\ l.pc \in {"open", "work"}

LEMMA SchemaStays ==
    TypeInv /\ [SetupNext]_setupVars /\ schema = LastMigration => schema' = LastMigration
<1> SUFFICES ASSUME TypeInv, [SetupNext]_setupVars, schema = LastMigration
             PROVE  schema' = LastMigration
  OBVIOUS
<1>1. opened = LastMigration /\ ~to_apply(schema)
  BY SetupAssumption DEF opened, NoFile, to_apply
<1>2. CASE UNCHANGED schema
  BY <1>2
<1>3. CASE ~UNCHANGED schema
  <2>1. \/ \E p \in Slots : Lock(p) \/ Migrate(p) \/ Open(p)
        \/ ServerOpen
    BY <1>3 DEF SetupNext, setupVars, InitCommand, AddBudget, RemoveBudget, SyncCommand,
         LocalCommand, OpenCommand, Truncate, Write, Migrated, SyncBudget, Use, Raise, Kill,
         ServerLoad, ServerSync, ServerRestart, HandEdit
  <2> QED
    BY <1>1, <2>1 DEF Lock, Migrate, Open, ServerOpen
<1> QED
  BY <1>2, <1>3

\* A command gets past the migration only with the whole schema.
LEMMA PassesWithSchema ==
    ASSUME TypeInv, [SetupNext]_setupVars, NEW q \in Slots, PastMigration(local'[q])
    PROVE  PastMigration(local[q]) \/ schema = LastMigration
<1> USE DEF PastMigration, TypeInv
<1>1. CASE local'[q] = local[q]
  BY <1>1
<1>2. CASE local'[q] # local[q]
  <2>1. ASSUME NEW p \in Slots, NEW selected \in SUBSET Budgets, NEW save \in BOOLEAN,
               NEW no_sync \in BOOLEAN, InitCommand(p, selected, save, no_sync)
        PROVE  FALSE
    <3>1. local'[q].pc = "truncate"
      BY <1>2, <2>1, InitLocal, Begun DEF InitCommand
    <3> QED
      BY <3>1
  <2>2. ASSUME NEW p \in Slots, NEW new_list \in SUBSET Budgets, Adjust(p, new_list)
        PROVE  FALSE
    <3> DEFINE l == [Idle EXCEPT !.pc = "truncate", !.cmd = "adjust",
                                 !.content = Rendered(new_list, FALSE)]
    <3>1. l \in Local /\ l.pc = "truncate" /\ Start(p, l)
      BY <2>2, AdjustLocal DEF Adjust
    <3> HIDE DEF l
    <3> QED
      BY <1>2, <3>1, Begun
  <2>3. ASSUME NEW p \in Slots, NEW b \in Budgets, AddBudget(p, b) \/ RemoveBudget(p, b)
        PROVE  FALSE
    <3>1. file.budgets \cup {b} \in SUBSET Budgets /\ file.budgets \ {b} \in SUBSET Budgets
      BY <2>3 DEF AddBudget, RemoveBudget, Readable, SetupTypeOK, Config
    <3>2. Adjust(p, file.budgets \cup {b}) \/ Adjust(p, file.budgets \ {b})
      BY <2>3 DEF AddBudget, RemoveBudget
    <3> QED
      BY <2>2, <3>1, <3>2
  <2>4. ASSUME NEW p \in Slots, NEW env_token, NEW source, SyncCommand(p, env_token, source)
        PROVE  FALSE
    <3>1. file \in Config
      BY <2>4 DEF SyncCommand, Readable, SetupTypeOK
    <3> DEFINE l == [Idle EXCEPT !.pc = "open", !.cmd = "sync",
                                 !.todo = sync_targets(file, source)]
    <3>2. l \in Local /\ l.cmd = "sync" /\ Start(p, l)
      BY <2>4, <3>1, SyncLocal DEF SyncCommand
    <3> HIDE DEF l
    <3> QED
      BY <1>2, <3>2, Begun
  <2>5. ASSUME NEW p \in Slots, LocalCommand(p) \/ OpenCommand(p) PROVE FALSE
    <3>1. PICK pc \in LocalPc : Start(p, [Idle EXCEPT !.pc = pc])
      <4>1. "migrate" \in LocalPc /\ "open" \in LocalPc
        BY DEF LocalPc
      <4> QED
        BY <2>5, <4>1 DEF LocalCommand, OpenCommand
    <3>2. local'[q].cmd = "use"
      BY <1>2, <3>1, UseLocal, Begun
    <3> QED
      BY <3>2
  <2>6. ASSUME NEW p \in Slots, Finish(p) PROVE FALSE
    BY <1>2, <2>6, Ended DEF SetupTypeOK, Idle
  <2>7. ASSUME NEW p \in Slots, NEW b \in Budgets, SyncBudget(p, b)
        PROVE  PastMigration(local[q])
    BY <1>2, <2>6, <2>7 DEF SyncBudget, SetupTypeOK, Local
  <2>8. ASSUME NEW p \in Slots, Truncate(p) \/ Write(p) \/ Lock(p) PROVE FALSE
    BY <1>2, <2>6, <2>8, Gone DEF Truncate, Write, Lock, needs_migration, SetupTypeOK, LocalPc
  <2>9. ASSUME NEW p \in Slots, Migrated(p) PROVE schema = LastMigration
    BY <2>9, SetupAssumption DEF Migrated, to_apply, SetupTypeOK, NoFile
  <2>10. ASSUME NEW p \in Slots, Open(p) PROVE PastMigration(local[q])
    BY <1>2, <2>10, Gone DEF Open, SetupTypeOK, LocalPc
  <2>11. ASSUME NEW p \in Slots, Use(p) \/ Raise(p) \/ Kill(p) PROVE FALSE
    BY <2>6, <2>11 DEF Use, Raise, Kill
  <2>12. \E p \in Slots :
            \/ \E selected \in SUBSET Budgets, save, no_sync \in BOOLEAN :
                  InitCommand(p, selected, save, no_sync)
            \/ \E b \in Budgets : AddBudget(p, b) \/ RemoveBudget(p, b) \/ SyncBudget(p, b)
            \/ \E env_token \in BOOLEAN, source \in Budgets \cup {None} :
                  SyncCommand(p, env_token, source)
            \/ LocalCommand(p) \/ OpenCommand(p)
            \/ Truncate(p) \/ Write(p) \/ Lock(p) \/ Migrated(p)
            \/ Open(p) \/ Use(p) \/ Raise(p) \/ Kill(p)
    BY <1>2 DEF SetupNext, setupVars, Migrate, ServerLoad, ServerOpen, ServerRestart,
         ServerSync, HandEdit
  <2> QED
    BY <2>1, <2>3, <2>4, <2>5, <2>7, <2>8, <2>9, <2>10, <2>11, <2>12
<1> QED
  BY <1>1, <1>2

\* An init that is past its migration finds the whole schema, whatever other
\* commands, the server and interrupted migrations did to the file.
THEOREM InitFindsSchema == SetupSpec => []SchemaFollowsInit
<1> DEFINE Inv == \A p \in Slots : PastMigration(local[p]) => schema = LastMigration
<1>1. SetupInit => Inv
  BY DEF SetupInit, Idle, PastMigration
<1>2. TypeInv /\ Inv /\ [SetupNext]_setupVars => Inv'
  BY SchemaStays, PassesWithSchema
<1>3. Inv => SchemaFollowsInit
  BY DEF SchemaFollowsInit, PastMigration
<1> HIDE DEF Inv
<1> QED
  BY <1>1, <1>2, <1>3, TypesAlways, PTL DEF SetupSpec

-----------------------------------------------------------------------------
(***************************************************************************)
(* Where settings come from.  Every configuration, in the file, in the     *)
(* hands of a command or cached, has a token only if asked for and         *)
(* budgets that were named.                                                *)
(***************************************************************************)
Covered(cfg, a, k) == (cfg.token => a) /\ cfg.budgets \subseteq k
LocalCovered(l, a, k) == Covered(l.content, a, k) /\ l.todo \subseteq k

LocalsCovered == \A p \in Slots : LocalCovered(local[p], asked, known)

OthersCovered ==
    /\ Readable => Covered(file, asked, known)
    /\ server_cfg # None => Covered(server_cfg, asked, known)
    /\ sources \subseteq known

LEMMA EmptyCovered ==
    ASSUME NEW a, NEW k
    PROVE  /\ Covered(Empty, a, k)
           /\ LocalCovered(Idle, a, k)
  BY DEF Covered, LocalCovered, Empty, Idle

LEMMA HistoryGrows == [SetupNext]_setupVars => (asked => asked') /\ known \subseteq known'
<1> SUFFICES ASSUME [SetupNext]_setupVars PROVE (asked => asked') /\ known \subseteq known'
  OBVIOUS
<1>1. CASE UNCHANGED <<asked, known>>
  BY <1>1
<1>2. CASE ~UNCHANGED <<asked, known>>
  <2>1. \/ \E p \in Slots :
              \/ \E selected \in SUBSET Budgets, save, no_sync \in BOOLEAN :
                    InitCommand(p, selected, save, no_sync)
              \/ \E b \in Budgets : AddBudget(p, b)
        \/ \E content \in Config : HandEdit(content)
    BY <1>2 DEF SetupNext, setupVars, RemoveBudget, SyncCommand, LocalCommand, OpenCommand,
         Truncate, Write, Lock, Kill, Migrate, Migrated, Open, SyncBudget, Use, Raise,
         ServerLoad, ServerOpen, ServerSync, ServerRestart
  <2>2. /\ asked' = asked \/ \E a \in BOOLEAN : asked' = (asked \/ a)
        /\ known' = known \/ \E k : known' = known \cup k
    <3>1. ASSUME NEW content \in Config, HandEdit(content)
          PROVE  content.token \in BOOLEAN
      BY DEF Config
    <3> QED
      BY <2>1, <3>1, Zenon DEF InitCommand, AddBudget, HandEdit
  <2>3. asked => asked'
    BY <2>2, Zenon
  <2>4. known \subseteq known'
    BY <2>2, Zenon
  <2> QED
    BY <2>3, <2>4
<1> QED
  BY <1>1, <1>2

LEMMA CoveredStays ==
    ASSUME NEW cfg, NEW l, [SetupNext]_setupVars
    PROVE  /\ Covered(cfg, asked, known) => Covered(cfg, asked', known')
           /\ LocalCovered(l, asked, known) => LocalCovered(l, asked', known')
<1>1. (asked => asked') /\ known \subseteq known'
  BY HistoryGrows
<1> QED
  BY <1>1, Zenon DEF Covered, LocalCovered

\* What a command holds after a step.
LEMMA LocalsStayCovered ==
    TypeInv /\ LocalsCovered /\ OthersCovered /\ [SetupNext]_setupVars => LocalsCovered'
<1> SUFFICES ASSUME TypeInv, LocalsCovered, OthersCovered, [SetupNext]_setupVars, NEW q \in Slots
             PROVE  LocalCovered(local'[q], asked', known')
  BY DEF LocalsCovered
<1> DEFINE Goal == LocalCovered(local'[q], asked', known')
<1>0. LocalCovered(local[q], asked', known')
  BY CoveredStays DEF LocalsCovered
<1> USE DEF TypeInv
<1>1. CASE local'[q] = local[q]
  BY <1>0, <1>1
<1>2. CASE local'[q] # local[q]
  <2>1. ASSUME NEW p \in Slots, NEW selected \in SUBSET Budgets, NEW save \in BOOLEAN,
               NEW no_sync \in BOOLEAN, InitCommand(p, selected, save, no_sync)
        PROVE  Goal
    <3> DEFINE l == [pc |-> "truncate", cmd |-> "init",
                     content |-> init_config(selected, save),
                     todo |-> IF no_sync THEN {} ELSE selected]
    <3>1. l \in Local /\ Start(p, l)
      BY <2>1, InitLocal DEF InitCommand
    <3>2. LocalCovered(l, asked', known')
      BY <2>1, RenderedIsConfig DEF InitCommand, init_config, LocalCovered, Covered
    <3> HIDE DEF l
    <3> QED
      BY <1>2, <3>1, <3>2, Begun
  <2>2. ASSUME NEW p \in Slots, NEW new_list \in SUBSET Budgets, Adjust(p, new_list),
               new_list \subseteq known'
        PROVE  Goal
    <3> DEFINE l == [Idle EXCEPT !.pc = "truncate", !.cmd = "adjust",
                                 !.content = Rendered(new_list, FALSE)]
    <3>1. l \in Local /\ Start(p, l) /\ l.content = Rendered(new_list, FALSE) /\ l.todo = {}
      BY <2>2, AdjustLocal DEF Adjust
    <3> HIDE DEF l
    <3>2. LocalCovered(l, asked', known')
      BY <2>2, <3>1, RenderedIsConfig DEF LocalCovered, Covered
    <3> QED
      BY <1>2, <3>1, <3>2, Begun
  <2>3. ASSUME NEW p \in Slots, NEW b \in Budgets, AddBudget(p, b) \/ RemoveBudget(p, b)
        PROVE  Goal
    <3>1. /\ file.budgets \cup {b} \in SUBSET Budgets /\ file.budgets \ {b} \in SUBSET Budgets
          /\ file.budgets \subseteq known
      BY <2>3 DEF AddBudget, RemoveBudget, Readable, SetupTypeOK, Config, OthersCovered, Covered
    <3>2. \/ Adjust(p, file.budgets \cup {b}) /\ file.budgets \cup {b} \subseteq known'
          \/ Adjust(p, file.budgets \ {b}) /\ file.budgets \ {b} \subseteq known'
      BY <2>3, <3>1 DEF AddBudget, RemoveBudget
    <3> QED
      BY <2>2, <3>1, <3>2
  <2>4. ASSUME NEW p \in Slots, NEW env_token, NEW source, SyncCommand(p, env_token, source)
        PROVE  Goal
    <3>1. file \in Config /\ file.budgets \subseteq known'
      BY <2>4 DEF SyncCommand, Readable, SetupTypeOK, OthersCovered, Covered
    <3> DEFINE l == [Idle EXCEPT !.pc = "open", !.cmd = "sync",
                                 !.todo = sync_targets(file, source)]
    <3>2. l \in Local /\ Start(p, l) /\ l.content = Empty /\ l.todo \subseteq file.budgets
      BY <2>4, <3>1, SyncLocal DEF SyncCommand
    <3> HIDE DEF l
    <3>3. LocalCovered(l, asked', known')
      BY <3>1, <3>2, EmptyCovered DEF LocalCovered
    <3> QED
      BY <1>2, <3>2, <3>3, Begun
  <2>5. ASSUME NEW p \in Slots, LocalCommand(p) \/ OpenCommand(p) PROVE Goal
    <3>1. PICK pc \in LocalPc : Start(p, [Idle EXCEPT !.pc = pc])
      <4>1. "migrate" \in LocalPc /\ "open" \in LocalPc
        BY DEF LocalPc
      <4> QED
        BY <2>5, <4>1 DEF LocalCommand, OpenCommand
    <3> DEFINE l == [Idle EXCEPT !.pc = pc]
    <3>2. l \in Local /\ Start(p, l) /\ l.content = Empty /\ l.todo = {}
      BY <3>1, UseLocal
    <3> HIDE DEF l
    <3>3. LocalCovered(l, asked', known')
      BY <3>2, EmptyCovered DEF LocalCovered
    <3> QED
      BY <1>2, <3>2, <3>3, Begun
  <2>6. ASSUME NEW p \in Slots, Finish(p) PROVE Goal
    BY <1>2, <2>6, Ended, EmptyCovered DEF SetupTypeOK
  <2>7. ASSUME NEW p \in Slots, NEW pc \in LocalPc, Goto(p, pc) PROVE Goal
    BY <1>0, <2>7, Gone DEF SetupTypeOK, LocalCovered
  <2>8. ASSUME NEW p \in Slots, NEW b \in Budgets, SyncBudget(p, b) PROVE Goal
    BY <1>0, <1>2, <2>6, <2>8 DEF SyncBudget, SetupTypeOK, Local, LocalCovered
  <2>9. ASSUME NEW p \in Slots,
               \/ Truncate(p) \/ Write(p) \/ Lock(p) \/ Migrated(p)
               \/ Open(p) \/ Use(p) \/ Raise(p) \/ Kill(p)
        PROVE  Goal
    <3>1. {"write", "migrate", "apply", "open", "work"} \subseteq LocalPc
      BY DEF LocalPc
    <3> HIDE DEF Goal
    <3> QED
      BY <2>6, <2>7, <2>9, <3>1
         DEF Truncate, Write, Lock, Migrated, Open, Use, Raise, Kill
  <2>10. \E p \in Slots :
            \/ \E selected \in SUBSET Budgets, save, no_sync \in BOOLEAN :
                  InitCommand(p, selected, save, no_sync)
            \/ \E b \in Budgets : AddBudget(p, b) \/ RemoveBudget(p, b) \/ SyncBudget(p, b)
            \/ \E env_token \in BOOLEAN, source \in Budgets \cup {None} :
                  SyncCommand(p, env_token, source)
            \/ LocalCommand(p) \/ OpenCommand(p)
            \/ Truncate(p) \/ Write(p) \/ Lock(p) \/ Migrated(p)
            \/ Open(p) \/ Use(p) \/ Raise(p) \/ Kill(p)
    BY <1>2 DEF SetupNext, setupVars, Migrate, ServerLoad, ServerOpen, ServerRestart,
         ServerSync, HandEdit
  <2> HIDE DEF Goal
  <2>11. Goal
    BY <2>1, <2>3, <2>4, <2>5, <2>8, <2>9, <2>10
  <2> QED
    BY <2>11 DEF Goal
<1> QED
  BY <1>1, <1>2

\* The file, the server and the table after a step.
LEMMA OthersStayCovered ==
    TypeInv /\ LocalsCovered /\ OthersCovered /\ [SetupNext]_setupVars => OthersCovered'
<1> SUFFICES ASSUME TypeInv, LocalsCovered, OthersCovered, [SetupNext]_setupVars
             PROVE  OthersCovered'
  OBVIOUS
<1> USE DEF TypeInv
<1>1. (asked => asked') /\ known \subseteq known'
  BY HistoryGrows
<1>2. file' # Garbled => Covered(file', asked', known')
  <2>1. CASE file' = file
    BY <2>1, CoveredStays DEF OthersCovered, Readable
  <2>2. CASE file' # file
    <3>1. ASSUME NEW p \in Slots, Truncate(p) PROVE Covered(file', asked', known')
      BY <3>1, EmptyCovered DEF Truncate
    <3>2. ASSUME NEW p \in Slots, Write(p), file' # Garbled
          PROVE  Covered(file', asked', known')
      <4>1. /\ local[p].content \in Config /\ file \in Config \cup {Garbled}
            /\ file' \in Overlaid(local[p].content, file)
            /\ Covered(local[p].content, asked, known)
        BY <3>2 DEF Write, SetupTypeOK, Local, LocalsCovered, LocalCovered
      <4>2. file # Garbled => file.budgets \subseteq known
        BY DEF OthersCovered, Readable, Covered
      <4>3. Covered(file', asked, known)
        BY <3>2, <4>1, <4>2, OverlaidContent DEF Covered
      <4> QED
        BY <4>3, CoveredStays
    <3>3. ASSUME NEW content \in Config, HandEdit(content)
          PROVE  Covered(file', asked', known')
      BY <3>3 DEF HandEdit, Covered
    <3>4. \/ \E p \in Slots : Truncate(p) \/ Write(p)
          \/ \E content \in Config : HandEdit(content)
      BY <2>2 DEF SetupNext, setupVars, InitCommand, AddBudget, RemoveBudget, SyncCommand,
           LocalCommand, OpenCommand, Lock, Kill, Migrate, Migrated, Open, SyncBudget,
           Use, Raise, ServerLoad,
           ServerOpen, ServerSync, ServerRestart
    <3> QED
      BY <3>1, <3>2, <3>3, <3>4
  <2> QED
    BY <2>1, <2>2
<1>3. server_cfg' # None => Covered(server_cfg', asked', known')
  <2>1. CASE server_cfg' = server_cfg
    BY <2>1, CoveredStays DEF OthersCovered
  <2>2. CASE server_cfg' # server_cfg
    <3>1. ServerLoad \/ ServerRestart
      BY <2>2 DEF SetupNext, setupVars, InitCommand, AddBudget, RemoveBudget, SyncCommand,
           LocalCommand, OpenCommand, Lock, Kill, Truncate, Write, Migrate, Migrated, Open, SyncBudget,
           Use, Raise,
           ServerOpen, ServerSync, HandEdit
    <3>2. CASE ServerRestart
      BY <3>2 DEF ServerRestart
    <3>3. CASE ServerLoad
      BY <3>3, CoveredStays DEF ServerLoad, OthersCovered
    <3> QED
      BY <3>1, <3>2, <3>3
  <2> QED
    BY <2>1, <2>2
<1>4. sources' \subseteq known'
  <2>1. CASE sources' = sources
    BY <1>1, <2>1 DEF OthersCovered
  <2>2. CASE sources' # sources
    <3>1. ASSUME NEW p \in Slots, NEW b \in Budgets, SyncBudget(p, b)
          PROVE  sources' \subseteq known
      BY <3>1 DEF SyncBudget, LocalsCovered, LocalCovered, OthersCovered
    <3>2. ASSUME NEW env_token, NEW source, ServerSync(env_token, source)
          PROVE  sources' \subseteq known
      <4>1. server_cfg # None
        BY <3>2 DEF ServerSync, ServerHasCfg
      <4>2. sync_targets(server_cfg, source) \subseteq known
        BY <4>1 DEF sync_targets, OthersCovered, Covered
      <4> QED
        BY <3>2, <4>2 DEF ServerSync, OthersCovered
    <3>3. \/ \E p \in Slots, b \in Budgets : SyncBudget(p, b)
          \/ \E env_token \in BOOLEAN, source \in Budgets \cup {None} :
                ServerSync(env_token, source)
      BY <2>2 DEF SetupNext, setupVars, InitCommand, AddBudget, RemoveBudget, SyncCommand,
           LocalCommand, OpenCommand, Lock, Kill, Truncate, Write, Migrate, Migrated, Open,
           Use, Raise, ServerLoad,
           ServerOpen, ServerRestart, HandEdit
    <3> QED
      BY <1>1, <3>1, <3>2, <3>3
  <2> QED
    BY <2>1, <2>2
<1> QED
  BY <1>2, <1>3, <1>4 DEF OthersCovered, Readable

LEMMA AllCovered == SetupSpec => [](LocalsCovered /\ OthersCovered)
<1>1. SetupInit => LocalsCovered /\ OthersCovered
  BY EmptyCovered DEF SetupInit, LocalsCovered, OthersCovered
<1> QED
  BY <1>1, LocalsStayCovered, OthersStayCovered, TypesAlways, PTL DEF SetupSpec

\* A token is in the file only if the user asked for it, also after commands
\* have written over each other.
THEOREM TokensAreAskedFor == SetupSpec => []TokenOnlyIfAsked
<1>1. OthersCovered => TokenOnlyIfAsked
  BY DEF OthersCovered, Covered, TokenOnlyIfAsked
<1> QED
  BY <1>1, AllCovered, PTL

\* Only budgets that the user named are ever synced.
THEOREM SyncsAreNamed == SetupSpec => []SyncedWasNamed
<1>1. OthersCovered => SyncedWasNamed
  BY DEF OthersCovered, SyncedWasNamed
<1> QED
  BY <1>1, AllCovered, PTL
=============================================================================
