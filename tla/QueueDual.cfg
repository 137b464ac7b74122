SPECIFICATION FairSpec

CONSTANTS
    Pointers = {1, 2, 3}
    Counts = {1}
    Frames = {1}
    Length = 2
    MaxEnqueue = 3
    PrefetchOffset = 0
    Flow = "dual_camera_11_12"
    TimeoutMode = "dequeue_timeout"
    SendDefaultOnEmpty = TRUE
    DropLate = TRUE
    ActiveArms = {1}

INVARIANTS
    TypeOK
    EveryRequestAnswered

PROPERTIES
    CompletedDataFrozen
    CacheCatchesUp
