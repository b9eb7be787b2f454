SPECIFICATION Spec
CONSTANTS
    r1 = r1
    r2 = r2
    o1 = o1
    o2 = o2
    o3 = o3
    NULL = NULL
    JsonNull = JsonNull
    RunIds = {r1, r2}
    Names = {n1}
    StepNames = {s1, s2}
    Events = {e1}
    Results = {v1}
    Owners = {o1, o2, o3}
    WakeTimes = {2}
    LeaseMs = {1, 9}
    MaxLeaseMs = 1
    Forever = 100
    Retention = 1
    PruneLimit = 1
    Skew = 1
    MaxTime = 3
SYMMETRY Symmetry
INVARIANTS TypeOK SoleOwner AttemptsAccounting FinishedOnce WaiterParked
PROPERTIES WaitResolved LeaseRespected ImplementsLifecycle
CHECK_DEADLOCK FALSE
