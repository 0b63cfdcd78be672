SPECIFICATION Spec
CONSTANTS
    GoFiles = {a, b}
    OtherFiles = {c}
    MaxEdits = 2
    Failures = TRUE
INVARIANT ServedIsCurrent
PROPERTY EventuallyAnswered
