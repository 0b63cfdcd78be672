\* Two analyses share one tool; one restart; one answer that nobody asked for.
SPECIFICATION Spec
CONSTANTS
    a1 = a1
    a2 = a2
    k = k
    Analyses <- MCAnalyses
    Closer = k
    MaxProcesses = 2
    MaxCalls = 3
    MaxSurplus = 1
    StartFails = TRUE
SYMMETRY MCSymmetry
INVARIANT ProcessOwned
INVARIANT NobodyWaitsOnTheTool
INVARIANT OneToolOneRequest
