SPECIFICATION Spec
CONSTANTS
    i1 = i1
    i2 = i2
    i3 = i3
    r1 = r1
    r2 = r2
    NULL = NULL
    Ids = {i1, i2}
    Requests = {r1}
    MinInstances = 0
    ScaleTargets = {0}
    MaxCommands = 1
    MaxFaults = 0
    MaxEvictions = 0
    Stops = FALSE
    MaxLeaders = 1
    MaxQueued = 1
PROPERTIES DrainingUnrouted
CHECK_DEADLOCK FALSE
