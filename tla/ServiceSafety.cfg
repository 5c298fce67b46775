SPECIFICATION ServiceSpec
CONSTANTS
    t1 = t1
    t2 = t2
    NoThread = NoThread
    Threads <- MCThreads
    MaxPresentations = 5
    QueueLimit = 9
    Faults = {"wait", "linger", "memory"}
    MaxClients = 2
    MaxFrames <- ThreeAndTwo
SYMMETRY Symmetry
CHECK_DEADLOCK FALSE
INVARIANTS
    UnloadSafe
    StartedIsReachable
    ScreenBelongsToOwner
PROPERTY
    OnlyAuthorHides
