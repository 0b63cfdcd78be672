SPECIFICATION Spec
CONSTANTS
    NumFiles = 2
    MaxStamp = 2
    MaxEdits = 2
    MaxScanErrors = 1
    Capacity = 1
    QuietPeriod = 2
    MaxDelay = 3
    Reverts = FALSE
INVARIANT StarvationBound
PROPERTY Implements
PROPERTY CloseEnds
CHECK_DEADLOCK FALSE
