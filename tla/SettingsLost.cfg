SPECIFICATION FairSettingsSpec
CONSTANTS
    t1 = t1
    t2 = t2
    NoThread = NoThread
    here = here
    newer = newer
    CurrentCommit = here
    InstalledBuilds = {2}
    Manifests <- MCManifests
    MaxChecks = 2
    Themes = {FALSE}
    RefusePosts = FALSE
    Threads <- OneThread
    MaxRequests = 2
    QueueLimit = 3
    Faults = {"island"}
CHECK_DEADLOCK FALSE
PROPERTY
    ShowIsQueued
