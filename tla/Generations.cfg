SPECIFICATION Spec
CONSTANTS
    Keys = {1}
    Depth = 2
    Tolerance = 1
    Retention = 1
    Disorder = {}
    MaxCommits = 2
    MaxClock = 2
    MaxGens = 3
    MaxTime = 5
INVARIANT TypeOK
INVARIANT Converged
INVARIANT SeedsWhole
CHECK_DEADLOCK FALSE
