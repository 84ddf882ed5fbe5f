SPECIFICATION Spec
CONSTANTS
    Keys = {k}
    Members = {m, n}
    Values = {0}
    SetOpts <- SomeOpts
    TTLs = {1}
    Procs = {p, q}
    CleanupLimit = 1
    MaxTime = 2
    MaxVersion = 2
    MaxCount = 2
SYMMETRY Alike
PROPERTIES
    GetDelAtomic
