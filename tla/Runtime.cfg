SPECIFICATION FairSpec
CONSTANTS
    t1 = t1
    t2 = t2
    NoThread = NoThread
    Threads <- MCThreads
    MaxPresentations = 3
    QueueLimit = 3
    Faults = {"wait", "linger"}
INVARIANTS
    TypeOK
    NoStalePopup
    LoopIsReachable
    StopJoins
PROPERTIES
    BoardSpec
    CallsReturn
