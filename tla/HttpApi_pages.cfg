SPECIFICATION HttpSpec
CONSTANTS
    c = c
    p = p
    q = q
    Clients = {c}
    Callers = {p, q}
    Walkers = {p}
    Nobody = Nobody
    Rate = 3
    Burst = 1
    Second = 2
    MaxTime = 2
    Names = {1, 2, 3}
    Zero = 2
    Count = 1
    Kinds = {"scan", "list", "find"}
    KeyOf <- OneToken
INVARIANTS HttpTypeOK WithinRate NoNameTwice NothingMissed
PROPERTIES RetryAfterHonest
