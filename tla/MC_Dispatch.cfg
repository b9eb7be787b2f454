SPECIFICATION FairSpec
CONSTANTS
    l1 = l1
    l2 = l2
    p1 = p1
    p2 = p2
    p3 = p3
    s1 = s1
    s2 = s2
    NULL = NULL
    Lanes = {l1, l2}
    LaneWorkers <- MixedLanes
    Procs = {p1, p2}
    Senders = {s1}
    MaxEnqueues = 1
    MaxParks = 1
    MaxFaults = 1
INVARIANTS NoLostSignal OneWorkerPerLane
PROPERTIES Served Drained
CHECK_DEADLOCK FALSE
