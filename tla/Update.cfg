SPECIFICATION FairWindowSpec
CONSTANTS
    here = here
    other = other
    CurrentCommit = here
    InstalledBuilds = {0, 2}
    Manifests <- MCManifests
    MaxChecks = 3
    Themes = {TRUE, FALSE}
    RefusePosts = TRUE
CHECK_DEADLOCK FALSE
INVARIANTS
    ColoursTell
    JoinIsShort
    NothingLeaks
    QuietShowsLastVerdict
    OffersOnlyNewer
PROPERTY
    CloseEnds
