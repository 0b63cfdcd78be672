\* Two accepted revisions, enough for one replacement to overtake another; everything that may go wrong may go wrong.
SPECIFICATION FairSpec
CONSTANTS
    MaxRevision = 2
    AppMayExit = TRUE
    PrepareMayFail = TRUE
    LaunchMayFail = TRUE
INVARIANTS
    NothingLost
    HandoverIsSafe
PROPERTIES
    WorkSettles
    ShutdownSettles
CHECK_DEADLOCK FALSE
