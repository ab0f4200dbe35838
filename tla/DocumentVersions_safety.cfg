CONSTANTS
    Names = {m, n}
    Ids = {i, j, k}
    Contents = {a, b, c}
    Absent = Absent
    MaxWrites = 3
    MaxTroubles = 2
SPECIFICATION Spec
INVARIANTS TypeOK KeptAreStored NothingLost RemovedAreGone
SYMMETRY Symmetry
CHECK_DEADLOCK FALSE
