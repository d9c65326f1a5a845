SPECIFICATION FairSpec
CONSTANTS
    Callers = {c1, c2, c3}
    MaxQueue = 3
    Budget = 2
INVARIANTS
    TypeOK
    DestroyedQuiet
    BusyExact
PROPERTIES
    Reclaimed
    JoinEnds
CHECK_DEADLOCK FALSE
