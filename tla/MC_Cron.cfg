SPECIFICATION Spec
CONSTANTS
    t1 = t1
    t2 = t2
    s1 = s1
    s2 = s2
    Tickers = {t1, t2}
    Schedules = {s1, s2}
    Boundaries <- SmallBoundaries
    Behind <- SkewedClocks
    Retention = 4
    MaxTick = 1
    MaxOutage = 1
    MaxTime = 6
    MaxRegisters = 2
    MaxFaults = 1
INVARIANTS FiredOnce
PROPERTIES NoneLeft
CHECK_DEADLOCK FALSE
