SPECIFICATION RelaxedSpec
CONSTANTS
    Threads = {t1, t2}
    Nodes = {a, b}
    Null = null
    Busy = busy
INVARIANT NothingLostAtRest
