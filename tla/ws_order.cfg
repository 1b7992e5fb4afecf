SPECIFICATION FairSpec
CONSTANTS
    Browser = {b1, b2}
    TREE_SIZE = 2
    JSON_SERVER = 3
    TO_CLIENT = 4
    MaxTrees = 3
    MaxOpens = 3
    MaxBacklog = 2
INVARIANT QuietLatest
PROPERTIES
    ShowsInOrder
    ServedUnlessJammed
CHECK_DEADLOCK FALSE
