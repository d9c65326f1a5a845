SPECIFICATION FairSpec
CONSTANTS
    Threads = 2
    MaxBuffer = 2
    Source <- MCSource
    Origin <- MCOrigin
    Peers = {}
    Stalls = {1}
PROPERTY WritersServed
CHECK_DEADLOCK FALSE
