SPECIFICATION PortFairSpec
CONSTANTS
    Pointers = {1}
    Counts = {1}
    Frames = {1}
    Length = 1
    MaxEnqueue = 1
    PrefetchOffset = 0
    Flow = "dual_camera_11_12"
    TimeoutMode = "dequeue_timeout"
    SendDefaultOnEmpty = TRUE
    DropLate = TRUE
    ActiveArms = {1, 2}
    Conns = {1, 2}
    Batches <- TwoFrames
    MaxBatches = 1
    Ports = {1, 2}
INVARIANTS
    PortTypeOK
    LayersAgree
    FeedbackReachesReader
PROPERTIES
    PlcServedAgain
