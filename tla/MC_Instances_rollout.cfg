SPECIFICATION Spec
CONSTANTS
    i1 = i1
    i2 = i2
    i3 = i3
    r1 = r1
    r2 = r2
    NULL = NULL
    Ids = {i1, i2}
    Requests = {r1}
    MinInstances = 1
    ScaleTargets = {1, 2}
    MaxCommands = 2
    MaxFaults = 1
    MaxEvictions = 1
    Stops = TRUE
    MaxLeaders = 1
    MaxQueued = 1
SYMMETRY Symmetry
INVARIANTS SuppressedHidden NoGap
CHECK_DEADLOCK FALSE
