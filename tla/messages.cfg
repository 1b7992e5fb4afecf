SPECIFICATION MessagesSpec
CONSTANTS
    r = r
    a = a
    b = b
    c = c
    Node = {r, a, b}
    Root = r
    Parent <- ChainParent
    Depth <- ChainDepth
    MAX_RETRY = 5
    PERIOD = 10
    Lossy = TRUE
    MaxMessages = 2
    MaxRestarts = 1
    MaxTime = 11
    Leaf = {a}
    Station = r
    LeafLevel = {2, 3}
    TABLE_SIZE = 2
    ROOM = 2
    COPIES = 2
    REPORT_PERIOD = 2
    SILENCE = 4
    MaxClock = 7
    MaxMoves = 1
    MaxStops = 1
INVARIANTS
    TypeOK
    AtMostOnce
    InOrder
    
PROPERTY KeptWhileHeard
CHECK_DEADLOCK FALSE
