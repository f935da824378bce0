\* One process; the amounts of the transaction are not whole cents.
CONSTANTS
    acct = acct
    cat = cat
    payee = payee
    txn = txn
    Procs = {p1}
    Entities = {acct, cat, payee, txn}
    KindOf <- OneOfEach
    Refs <- TxnRefersToAll
    Unmappable = {txn}
    MidPull = FALSE
    MaxEdits = 2
SPECIFICATION FairHistorySpec
PROPERTY OthersCatchUp
