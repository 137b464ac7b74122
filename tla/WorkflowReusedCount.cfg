SPECIFICATION WorkflowSpec

CONSTANTS
    Pointers = {1}
    Counts = {1}
    Frames = {1}
    Length = 1
    MaxEnqueue = 2
    PrefetchOffset = 0
    Flow = "dual_camera_11_12"
    TimeoutMode = "dequeue_timeout"
    SendDefaultOnEmpty = TRUE
    DropLate = TRUE
    ActiveArms = {}
    Parts <- OnePart
    MaxStarts = 2
    MaxEnds = 1
    MaxFrames = 1
    SendMayFail = FALSE

INVARIANTS
    DoneHasBothArms

CHECK_DEADLOCK FALSE
