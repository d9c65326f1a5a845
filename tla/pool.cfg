SPECIFICATION BuildSpec
CONSTANTS
    Objects = {a, b}
    NoObject = none
    Workers = {w1, w2}
    Main = main
    Messages = {m1, m2, m3}
    Budget = 1
    Lockfree = TRUE
INVARIANTS
    TypeOK
    SingleActivation
    NoLostActivation
PROPERTIES
    RunDrains
    Implements
    LockfreeDelivery
    Termination
