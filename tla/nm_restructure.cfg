SPECIFICATION Spec
CONSTANTS
    NODE_SIZE = 4
    TICKS = 100
    EXPIRE = 1
    Node = {r, a, b, c}
    Root = r
    NoNode = NoNode
    LEVELS = 10
    JSON_NODES = 4
    MaxMoves = 1
    MaxTime = 1
SYMMETRY Symmetry
INVARIANT NoFreedObject
CHECK_DEADLOCK FALSE
