SPECIFICATION Spec
CONSTANTS
    t1 = t1
    t2 = t2
    NoThread = NoThread
    Threads <- MCThreads
    MaxPresentations = 2
    QueueLimit = 3
    Faults = {}
INVARIANT
    LastPresentationShown
