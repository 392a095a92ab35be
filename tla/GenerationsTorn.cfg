SPECIFICATION Spec
CONSTANTS
    Keys = {1, 2}
    Depth = 2
    Tolerance = 1
    Retention = 9
    Disorder = {"torn deltas"}
    MaxCommits = 4
    MaxClock = 5
    MaxGens = 3
    MaxTime = 6
INVARIANT Converged
CONSTRAINT DeltasOnly
CHECK_DEADLOCK FALSE
