CONSTANTS
    Processes = {p, q}
    Contracts = {k, l}
    Chunks = {a}
    Transactions = {t, u}
    ChunkLimit = 2
    Checkpoints <- TwoChunks
    MaxTroubles = 3
    StageLock = StageLock
    MutationLock = MutationLock
    Absent = Absent
    Free = Free
SPECIFICATION Spec
INVARIANTS TypeOK OneOpen ProgressKept
PROPERTY CommitIsSwap
SYMMETRY Symmetry
CHECK_DEADLOCK FALSE
