SPECIFICATION Spec
CONSTANTS
    DBs <- ZeroAndOne
    Keys = {k}
    Members <- OneMember
    Scores <- MCScores
    Values = {0}
    Text = Text
    Absent = Absent
    IntHalf <- MCIntHalf
    TTLs <- MCTTLs
    Procs = {p}
    Cleaners = {c}
    CleanupLimit = 1
    MaxTime = 2
    MaxVersion = 2
PROPERTIES
    ExpiryStaysInDatabase
