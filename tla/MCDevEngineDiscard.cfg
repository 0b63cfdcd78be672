\* Nothing fails and no application exits by itself.
SPECIFICATION Spec
CONSTANTS
    MaxRevision = 2
    AppMayExit = FALSE
    PrepareMayFail = FALSE
    LaunchMayFail = FALSE
INVARIANT
    DiscardedIsObsolete
CHECK_DEADLOCK FALSE
