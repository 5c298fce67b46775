SPECIFICATION FairSettingsSpec
CONSTANTS
    t1 = t1
    t2 = t2
    NoThread = NoThread
    here = here
    newer = newer
    CurrentCommit = here
    InstalledBuilds = {2}
    Manifests <- MCManifests
    MaxChecks = 3
    Themes = {FALSE}
    RefusePosts = FALSE
    Threads <- MCThreads
    MaxRequests = 2
    QueueLimit = 2
    Faults = {"wait", "linger", "create", "island"}
CHECK_DEADLOCK FALSE
INVARIANTS
    SettingsTypeOK
    SettingsUnloadSafe
    NothingOutlivesThread
    StartedServes
PROPERTIES
    DoorKept
    StopEnds
    StartReturns
