SPECIFICATION WorkflowFairSpec

CONSTANTS
    Pointers = {1, 2}
    Counts = {1, 2}
    Frames = {1, 2}
    Length = 1
    MaxEnqueue = 2
    PrefetchOffset = 0
    Flow = "dual_camera_11_12"
    TimeoutMode = "dequeue_timeout"
    SendDefaultOnEmpty = TRUE
    DropLate = TRUE
    ActiveArms = {}
    Parts <- TwoParts
    MaxStarts = 1
    MaxEnds = 1
    MaxFrames = 2
    SendMayFail = TRUE

INVARIANTS
    EndSentOnce
    WindowIsLive
    DoneOnce

PROPERTIES
    CompleteLeadsToDone
    ImplementsPartFlow

CHECK_DEADLOCK FALSE
