SPECIFICATION Spec
CONSTANTS
    d = d
    f = f
    g = g
    s = s
    o = o
    p = p
    q = q
    Ids = {d}
    Fields = {f, g}
    Values = {s, o}
    Scalars = {s}
    Texts = {s}
    Missing = Missing
    NoDoc = NoDoc
    Bodies <- SomeBodies
    Configs <- SomeConfigs
    WriteOpts <- SomeOpts
    Procs = {p, q}
    MaxTime = 2
    MaxVersion = 2
SYMMETRY Alike
INVARIANTS TypeOK IndexSound ConfiguredComplete VersionNamesContent LastEventCurrent
