SPECIFICATION LinkSpec
CONSTANTS
    Modes = {"passive"}
    Conns = {1, 2}
    Threads = {1, 2}
    Batches <- OneBatch
    MaxBatches = 1
    MayStop = FALSE
INVARIANTS
    KeepsAccepting
CHECK_DEADLOCK FALSE
