SPECIFICATION FairSpec
CONSTANTS
    basic = basic
    eager = eager
    mutexed = mutexed
    direct = direct
    Objects = {basic, eager, mutexed, direct}
    NoObject = none
    Kind <- Kinds
    Workers = {w1, w2}
    Main = main
    Promises = {p1, p2}
    NoPromise = nopromise
    Sends <- Flow
    Asks <- Waits
    Budget = 1
    MaxSends = 5
INVARIANTS
    TypeOK
    Exclusive
    NoLostActivation
PROPERTIES
    Settles
CHECK_DEADLOCK FALSE
