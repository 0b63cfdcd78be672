SPECIFICATION Spec
CONSTANTS
    NumFiles = 1
    Texts <- MCTexts1
    Settings = {s1, s2}
    MaxVersion = 2
    MaxSequence = 2
    MaxWorkspaces = 1
    MaxRuns = 2
    FailingSequences = {1}
INVARIANT ServiceOutlivesAnalyses
PROPERTY AcceptedIsCurrent
PROPERTY EditsAreAnalysed
