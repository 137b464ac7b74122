SPECIFICATION WorkflowSpec

CONSTANTS
    Pointers = {1}
    Counts = {1}
    Frames = {1}
    Length = 1
    MaxEnqueue = 1
    PrefetchOffset = 0
    Flow = "dual_camera_11_12"
    TimeoutMode = "dequeue_timeout"
    SendDefaultOnEmpty = TRUE
    DropLate = TRUE
    ActiveArms = {1, 2}
    Parts <- OnePart
    MaxStarts = 1
    MaxEnds = 1
    MaxFrames = 2
    SendMayFail = TRUE

INVARIANTS
    WorkflowTypeOK
    DoneHasBothArms

CHECK_DEADLOCK FALSE
