SPECIFICATION Spec

CONSTANTS
    Pointers = {1, 2, 3}
    Counts = {1}
    Frames = {1}
    Length = 2
    MaxEnqueue = 4
    PrefetchOffset = 1
    Flow = "legacy_single_camera"
    TimeoutMode = "cycle_timeout"
    SendDefaultOnEmpty = FALSE
    DropLate = TRUE
    ActiveArms = {1}

INVARIANTS
    PairedQueues
    CapacityRespected
    CachedPointerQueued
    TaskStatusHasCache
