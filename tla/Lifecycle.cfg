SPECIFICATION LifeSpec
CONSTANTS
    Conns = {1, 2}
    MaxSignals = 1
INVARIANTS
    StartIsUndone
    ConnectionsOwned
PROPERTIES
    StopReleasesAll
    EndsUnlessItWaits
CHECK_DEADLOCK FALSE
