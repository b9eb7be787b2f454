SPECIFICATION FairSpec
CONSTANTS
    p1 = p1
    p2 = p2
    Procs = {p1, p2}
    Requests <- OneProxy
    Deployers = {p2}
    None = None
    MaxCommands = 2
    MaxFaults = 0

PROPERTIES Drains Reopens
CHECK_DEADLOCK FALSE
