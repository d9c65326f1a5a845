SPECIFICATION Spec
CONSTANTS
    Threads = 3
    Elves = {1, 2, 3}
    Reindeer = {1, 2}
    min_elves = 2
    N = 3
INVARIANTS
    OneRequest
    OneSelect
    EchoesInOrder
    DeadlockExpected
    DrawsGenerations
    CurrentViewFinished
    Validates
PROPERTIES
    AllEchoed
    ReindeerFirst
CHECK_DEADLOCK FALSE
