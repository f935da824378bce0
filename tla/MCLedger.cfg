\* A transaction is split, reshaped, unsplit and deleted while passes run.
CONSTANTS
    t1 = t1
    t2 = t2
    ynab = ynab
    statement = statement
    c1 = c1
    n1 = n1
    n2 = n2
    x1 = x1
    x2 = x2
    a1 = a1
    a2 = a2
    a3 = a3
    Procs = {p1}
    Txns = {t1, t2}
    SourceOf <- TwoSources
    Versions <- SplitAndUnsplit
    Accounts = {a1, a2, a3}
    Reported = {a1, a2}
    Texts = {x1, x2}
    Cats = {c1}
    Names = {n1, n2}
    Rules <- TwoRules
    MinPriority = 1
    MaxRules = 2
    None = None
SPECIFICATION Spec
INVARIANTS
    TypeOK
    SplitAddsUp
    PassIsIdempotent
    DriftExplained
    CashFlowAsDelivered
PROPERTIES
    PassIsRight
    ManualSticks
