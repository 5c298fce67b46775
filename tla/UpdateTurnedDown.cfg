SPECIFICATION FairWindowSpec
CONSTANTS
    here = here
    other = other
    CurrentCommit = here
    InstalledBuilds = {2}
    Manifests <- MCManifests
    MaxChecks = 2
    Themes = {FALSE}
    RefusePosts = FALSE
CHECK_DEADLOCK FALSE
PROPERTY
    RequestIsAnswered
