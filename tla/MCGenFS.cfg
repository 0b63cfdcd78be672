\* Failing file operations, two locks left behind and three edits by the user
\* while no generator runs.
SPECIFICATION FairSpec
CONSTANTS
    Generators = {"g1", "g2"}
    Paths = {"a", "b", "c"}
    GoPaths = {"a", "c"}
    Plans = {"p1", "p2", "p3", "bad"}
    PlanOf <- MCPlanOf
    Scanned <- MCScanned
    GenContents = {"a1", "a2", "b1", "c2"}
    UserContents = {"edited", "handwritten"}
    Marked = {"edited"}
    IOMayFail = TRUE
    EditsDuringApply = FALSE
    MaxEdits = 3
    MaxLeftBehind = 2
INVARIANTS
    PlanIsCarriedOut
    RetryIsNoManualEdit
PROPERTIES
    UserWorkKept
    LockReleased
