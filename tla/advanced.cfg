SPECIFICATION FairSpec
CONSTANTS
    a = a
    b = b
    sink = sink
    Objects = {a, b, sink}
    NoObject = none
    Workers = {w1, w2}
    Main = main
    Priorities = {0, 1}
    Sends <- Flow
    Capacity = 1
    Policies = {"ignore", "discard", "block", "fail"}
    Budget = 1
    MaxQueue = 2
INVARIANTS
    TypeOK
    SingleActivation
    NoLostActivation
    NearCapacity
PROPERTIES
    Unblocks
