SPECIFICATION CameraFairSpec
CONSTANTS
    Conns = {1, 2}
    Batches = {"frame", "heartbeat"}
    MaxBatches = 1
    Threads = {1, 2}
    Senders = {"plc"}
    MayStop = TRUE
INVARIANTS
    CameraTypeOK
    OneReceiver
    ConnectedIsOpen
PROPERTIES
    CameraServedAgain
CHECK_DEADLOCK FALSE
