SPECIFICATION SessionSpec
CONSTANTS
    Conns = {c1, c2}
    DBs = {0, 1}
    PasswordSet = TRUE
    MaxLog = 3
SYMMETRY Symmetry
INVARIANTS
    TypeOK
    AuthBeforeData
    NothingLost
    SelectedDatabase
