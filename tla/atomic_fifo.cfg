SPECIFICATION FairSpec
CONSTANTS
    Threads = {t1, t2, t3}
    Nodes = {a, b, c}
    Null = null
    Busy = busy
INVARIANTS
    TypeOK
    OneOwner
    NoNodeLost
PROPERTIES
    Linearizable
    BusyEnds
    LockFree
