SPECIFICATION FairSpec
CONSTANTS
    i1 = i1
    i2 = i2
    i3 = i3
    r1 = r1
    r2 = r2
    NULL = NULL
    Ids = {i1}
    Requests = {r1}
    MinInstances = 0
    ScaleTargets = {}
    MaxCommands = 0
    MaxFaults = 2
    MaxEvictions = 1
    Stops = FALSE
    MaxLeaders = 1
    MaxQueued = 1
PROPERTIES Reachable
CHECK_DEADLOCK FALSE
