SPECIFICATION Spec
CONSTANTS
    NODE_SIZE = 4
    TICKS = 100
    EXPIRE = 0
    Node = {r, a, b, c}
    Root = r
    NoNode = NoNode
    LEVELS = 3
    JSON_NODES = 3
    MaxMoves = 1
    MaxTime = 2
SYMMETRY Symmetry
INVARIANTS
    OldOnlyWhileMoving
    TreeExact
PROPERTY ImplementsRegistry
CHECK_DEADLOCK FALSE
