SPECIFICATION Spec
CONSTANTS
    Objects = {a, b}
    NoObject = none
    Workers = {w1}
    Main = main
    Messages = {m1, m2}
    Budget = 2
    Lockfree = TRUE
PROPERTIES
    RunDrains
