\* One topic at a time: one process that syncs a budget which nobody edits
\* during a pull, or two commands that configure and migrate.
CONSTANTS
    acct = acct
    cat = cat
    payee = payee
    txn = txn
    Procs = {p1}
    Entities = {acct, cat, payee, txn}
    KindOf <- OneOfEach
    Refs <- TxnRefersToAll
    Unmappable = {}
    MidPull = FALSE
    MaxEdits = 4
    Slots = {s1, s2}
    Budgets = {b1}
    LastMigration = 2
    Garbled = Garbled
    None = None
SPECIFICATION FairBothSpec
INVARIANTS
    TypeOK
    CursorCovers
    AppliesCleanly
    SetupTypeOK
    SchemaFollowsInit
    TokenOnlyIfAsked
    SyncedWasNamed
PROPERTIES
    NeverReverts
    CatchesUp
    CopiesWholeBudgets
    SetupSucceeds
