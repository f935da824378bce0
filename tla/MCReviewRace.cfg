\* Two processes review one batch.
CONSTANTS
    f1 = f1
    f2 = f2
    k1 = k1
    k2 = k2
    Procs = {p1, p2}
    Sources = {s1}
    Files = {f1, f2}
    Keys = {k1, k2}
    Occurs <- OverlappingFiles
    MaxBatches = 1
    None = None
SPECIFICATION Spec
PROPERTY ResolvedOnce
