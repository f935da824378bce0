\* One process; the budget may be edited between two requests of a pull.
CONSTANTS
    acct = acct
    cat = cat
    payee = payee
    txn = txn
    Procs = {p1}
    Entities = {acct, cat, payee, txn}
    KindOf <- OneOfEach
    Refs <- TxnRefersToAll
    Unmappable = {}
    MidPull = TRUE
    MaxEdits = 2
SPECIFICATION HistorySpec
INVARIANT CursorCovers
