SPECIFICATION LinkFairSpec
CONSTANTS
    Modes = {"active", "passive"}
    Conns = {1, 2}
    Threads = {1, 2}
    Batches <- RobotBatches
    MaxBatches = 1
    MayStop = TRUE
INVARIANTS
    LinkTypeOK
    OneReceiver
    BusyOnlyWhileSending
    BatchAsksOnce
    ConnectedIsOpen
PROPERTIES
    ActiveReconnects
CHECK_DEADLOCK FALSE
