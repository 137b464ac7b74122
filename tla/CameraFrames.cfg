SPECIFICATION FramesSpec
CONSTANTS
    Messages <- BareReady
    MaxMessages = 3
    MaxReconnects = 1
INVARIANTS
    PiecesDoNotMatter
    OneLostPerReconnect
CHECK_DEADLOCK FALSE
