SPECIFICATION Spec
CONSTANTS
    r = r
    a = a
    b = b
    c = c
    Node = {r, a}
    Root = r
    Parent <- ChainParent
    Depth <- ChainDepth
    MAX_RETRY = 5
    PERIOD = 0
    Lossy = TRUE
    MaxMessages = 2
    MaxRestarts = 0
    MaxTime = 2
CHECK_DEADLOCK FALSE
INVARIANT AtMostOnce
