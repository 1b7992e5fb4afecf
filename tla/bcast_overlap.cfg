SPECIFICATION FairSpec
CONSTANTS
    r = r
    a = a
    b = b
    c = c
    Node = {r, a, b}
    Root = r
    Parent <- ChainParent
    Depth <- ChainDepth
    MAX_RETRY = 2
    PERIOD = 0
    Lossy = FALSE
    MaxMessages = 2
    MaxRestarts = 0
    MaxTime = 2
CHECK_DEADLOCK FALSE
INVARIANT InTime
PROPERTY EveryoneHears
