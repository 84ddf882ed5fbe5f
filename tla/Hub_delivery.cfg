SPECIFICATION Spec
CONSTANTS
    Conns = {c1, c2}
    Writers = {c1, c2}
    SubIds = {s1, s2}
    Collections = {x}
    NoSub = NoSub
    MaxSubs = 1
    ChanCap = 1
    MaxEvents = 2
SYMMETRY Alike
CHECK_DEADLOCK FALSE
INVARIANTS
    TypeOK
    ClosedOnce
    NothingLeaks
    InOrder
    Complete
    ForwarderFreed
PROPERTY ImplementsFeed
