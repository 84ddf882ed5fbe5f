SPECIFICATION Spec
CONSTANTS
    Keys = {k}
    Values = {v, w}
    NoValue = NoValue
    Procs = {p, q}
    TTLs = {1, 3}
    DefaultTTL = 2
    MaxBuf = 2
    MaxTime = 4
SYMMETRY Symmetry
INVARIANTS
    TypeOK
    Coherent
    BoundedLife
