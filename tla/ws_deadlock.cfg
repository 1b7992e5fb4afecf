SPECIFICATION FairSpec
CONSTANTS
    Browser = {b1, b2}
    TREE_SIZE = 2
    JSON_SERVER = 2
    TO_CLIENT = 3
    MaxTrees = 3
    MaxOpens = 2
    MaxBacklog = 1
PROPERTY LatestServed
CHECK_DEADLOCK FALSE
