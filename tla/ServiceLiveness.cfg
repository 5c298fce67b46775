SPECIFICATION FairServiceSpec
CONSTANTS
    t1 = t1
    t2 = t2
    NoThread = NoThread
    Threads <- OneThread
    MaxPresentations = 4
    QueueLimit = 8
    Faults = {}
    MaxClients = 2
    MaxFrames <- TwoEach
CHECK_DEADLOCK FALSE
PROPERTIES
    LiveBoard
    PopupGoesWithClients
    FramesAreServed
