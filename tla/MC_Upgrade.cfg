SPECIFICATION Spec
CONSTANTS
    a = a
    b = b
    Controllers = {a, b}
    NoOne = NoOne
    MaxProcs = 5
    MaxEvents = 1
    Kinds = {"ssh", "exit", "answer", "crash", "kill", "reload", "slow"}
INVARIANTS OneExecutor QuietUpgrade Reopened
PROPERTIES OutcomeTrue
CHECK_DEADLOCK FALSE
