SPECIFICATION Spec
CONSTANTS
    a = a
    b = b
    o1 = o1
    o2 = o2
    o3 = o3
    NULL = NULL
    JsonNull = JsonNull
    RunIds = {1, 2}
    StepNames = {"s1"}
    Events = {"e1"}
    Results = {"v1"}
    Owners = {o1, o2, o3}
    Servers = {a, b}
    Deadlines = {1}
    LeaseMs = {0}
    MaxLeaseMs = 1
    Forever = 100
    PruneLimit = 1
    Skew = 0
    MaxTime = 1
SYMMETRY Symmetry
INVARIANTS KnowsResults SignalsDoNotDeadlock
PROPERTIES LeaseRespected ImplementsLifecycle
CHECK_DEADLOCK FALSE
