SPECIFICATION Spec
CONSTANTS
    Callers = {c1, c2}
    MaxQueue = 3
    Budget = 2
INVARIANTS
    ThreadNotices
CHECK_DEADLOCK FALSE
