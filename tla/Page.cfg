SPECIFICATION ProgressSpec
CONSTANTS
    Replicas = {h, r}
    Home = h
    Streams = {s1, s2}
    Events = 3
    QueueMax = 2
    SeenMax = 1
    MaxReconnects = 5
    MaxAttempts = 3
    MaxPending = 2
    MaxStray = 2
CHECK_DEADLOCK FALSE
INVARIANTS
    ProgressTypesOK
    StreamSound
    WatchSound
PROPERTIES
    ProgressEnds
