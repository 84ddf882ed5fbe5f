SPECIFICATION FairSpec
CONSTANTS
    DBs <- OnlyOne
    Keys = {k}
    Members <- OneMember
    Scores <- MCScores
    Values = {0}
    Text = Text
    Absent = Absent
    IntHalf <- MCIntHalf
    TTLs <- MCTTLs
    Procs = {p}
    Cleaners = {c}
    CleanupLimit = 1
    MaxTime = 3
    MaxVersion = 3
PROPERTIES
    ExpiredRowsGo
