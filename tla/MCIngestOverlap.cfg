\* One process, two statements that overlap in one row.
CONSTANTS
    f1 = f1
    f2 = f2
    k1 = k1
    k2 = k2
    Procs = {p1}
    Sources = {s1}
    Files = {f1, f2}
    Keys = {k1, k2}
    Occurs <- OverlappingFiles
    MaxBatches = 2
    None = None
SPECIFICATION Spec
PROPERTY OverlapIsRefresh
