SPECIFICATION FairSpec
CONSTANTS
    t1 = t1
    t2 = t2
    NoThread = NoThread
    Threads <- MCThreads
    MaxPresentations = 1
    QueueLimit = 1
    Faults = {"linger"}
PROPERTY
    StopReturnsJoined
