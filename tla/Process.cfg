SPECIFICATION FairSpec
CONSTANTS
    MaxRestarts = 3
    MaxModal = 3
    Closable = TRUE
CHECK_DEADLOCK FALSE
INVARIANTS
    TypeOK
    StopIsNoticed
PROPERTIES
    IconComesBack
    ProcessEnds
