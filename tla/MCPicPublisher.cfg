SPECIFICATION Spec
CONSTANTS
    Collectors = {"c1", "c2"}
    Pids = {1, 2, 3, 4}
    InitGroup = {1}
    Spaced = {3}
    MAX_PROC_ENT = 3
    MaxScans = 1
    MaxChurn = 2
INVARIANTS
    TypeOK
    NeverHalfWritten
    AbsentOnlyInBetween
    LongLivedAreListed
    RowsAreOwn
CHECK_DEADLOCK FALSE
