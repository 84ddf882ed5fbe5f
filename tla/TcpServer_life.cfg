SPECIFICATION FairSpec
CONSTANTS
    Conns = {c1, c2, c3, c4}
    DBs = {0}
    PasswordSet = FALSE
    MaxLog = 0
    MaxConnections = 2
    Allowed = {c1, c2, c3}
    Https = {"status", "admin"}
CHECK_DEADLOCK FALSE
INVARIANTS
    ServerTypeOK
    SlotsCounted
PROPERTIES
    StopsOnSignal
