CONSTANTS
    Counts = {1, 2}
    PointerSpace = 3
    PrefetchOffset = 1
    MaxItems = 1
    Payloads = {"spray", "idle", "bad"}
    Robots = {"fake", "duco_connect", "duco_prepare"}
    Parts <- ThreeParts
    Dequeues <- SomeDequeues
    Frames <- SomeFrames
    MaxTasks = 3
    MaxEvents = 5
SPECIFICATION LineFairSpec
INVARIANTS
    LineTypeOK
    GunClosed
PROPERTIES
    DoneHasBothItems
    ImplementsTaskLife
CHECK_DEADLOCK FALSE
