----------------------------- MODULE MCSyncSetup -----------------------------
(***************************************************************************)
(* An instance for TLC of the two modules with liveness properties: MCSync *)
(* and Setup.  They have no variable in common; a behaviour is about one   *)
(* of them, and fair to that one.  Setup has two commands at a time, one   *)
(* budget and a schema of two migrations, so that one can be cut short in  *)
(* between.                                                                *)
(***************************************************************************)
EXTENDS MCSync, Setup

VARIABLE topic  \* the module that the behaviour is about

bothVars == <<topic, historyVars, setupVars>>

\* The database that YnabSync is about has its tables.
SetUp ==
    /\ file = Empty /\ schema = LastMigration /\ lock = Free /\ sources = {}
    /\ local = [p \in Slots |-> Idle]
    /\ server_cfg = None /\ server_open = FALSE
    /\ asked = FALSE /\ known = {}

BothInit ==
    /\ HistoryInit
    /\ \/ topic = "sync" /\ SetUp
       \/ topic = "setup" /\ SetupInit

BothNext ==
    /\ UNCHANGED topic
    /\ \/ topic = "sync" /\ HistoryNext /\ UNCHANGED setupVars
       \/ topic = "setup" /\ SetupNext /\ UNCHANGED historyVars

FairBothSpec ==
    /\ BothInit /\ [][BothNext]_bothVars
    /\ (topic = "sync" /\ Fairness) \/ (topic = "setup" /\ SetupFairness)
=============================================================================
