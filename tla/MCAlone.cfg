\* One topic at a time: a profile over three tax years, the charges of a
\* payee, the spending of a category, the statement files of an account, and
\* one command at a time over statements that share no rows.
CONSTANTS
    Limits <- TwoYears
    ROTH_ROUND_MINOR = 5
    ROTH_FLOOR_MINOR = 10
    BirthYears = {1974, 1975, 1976}
    FirstYear = 2024
    LastYear = 2026
    MinMagi <- SmallLoss
    MaxMagi = 24
    Deposits = {30, 35}
    MaxContributed = 65
    Unset = Unset
    ChargeAmounts <- SignedAmounts
    ChargeDays = {0, 2, 4, 5, 6, 8}
    MaxCharges = 5
    amount_tolerance = 2
    min_occurrences = 3
    FullGaps = 3
    Cadences <- TwoCadences
    LastMonth = 7
    MaxSpend = 3
    trailing_months = 5
    min_history_months = 3
    z_threshold = 2
    north = north
    south = south
    kiosk = kiosk
    june = june
    NoText = NoText
    Missing = Missing
    Garbled = Garbled
    Entries <- ThreeEntries
    Shown <- CutOff
    MaxAlike = 2
    Periods <- EachDayAndBoth
    Inverted = {"csv"}
    Templates <- TwoTemplates
    f1 = f1
    k1 = k1
    k2 = k2
    Procs = {p1}
    Sources = {s1, s2}
    Files = {f1}
    Keys = {k1, k2}
    Occurs <- OneFile
    MaxBatches = 4
    None = None
SPECIFICATION AloneSpec
INVARIANTS
    RothAsWorksheet
    RothWithinIra
    GroupsAreFewest
    LowerGroupsStay
    RegularIsFound
    PunctualChargeConfirms
    FlaggedAsDefined
    AlarmBeatsBaseline
    EachEntryOnce
    BatchComplete
    ArchiveIntact
PROPERTIES
    MoreIncomeNeverRaisesRoth
    MoneyCountsOnce
    FlagsAreFinal
    PromiseKept
CHECK_DEADLOCK FALSE
