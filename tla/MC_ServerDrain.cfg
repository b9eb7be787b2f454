SPECIFICATION Spec
CONSTANTS
    p1 = p1
    p2 = p2
    Procs = {p1, p2}
    Requests <- OneProxy
    Deployers = {p1, p2}
    None = None
    MaxCommands = 2
    MaxFaults = 1
INVARIANTS Quiescent LeaseCovers NoOrphan LongLivedShut
PROPERTIES ReopensRestored
CHECK_DEADLOCK FALSE
