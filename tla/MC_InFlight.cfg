SPECIFICATION Spec
CONSTANTS
    w1 = w1
    a1 = a1
    a2 = a2
    a3 = a3
    c1 = c1
    c2 = c2
    NULL = NULL
    Workers = {w1}
    Owners = {a1, a2}
    WorkerOf <- TwoOwners
    Calls = {c1, c2}
    Concurrency = 0
    MaxGen = 2
SYMMETRY Symmetry
INVARIANTS CacheCovers LimiterBudget RestartBudget
PROPERTIES RefusalJustified
CHECK_DEADLOCK FALSE
