SPECIFICATION Spec
CONSTANTS
    N = 4
    SelfLoops = {1, 4}
INVARIANT CyclesAreExact
INVARIANT OrderIsSound
INVARIANT OrderIsLeast
