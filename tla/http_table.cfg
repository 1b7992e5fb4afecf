SPECIFICATION Spec
CONSTANTS
    NODE_SIZE = 2
    TICKS = 16
    EXPIRE = 0
    Mac = {r, n1, n2}
    Root = r
    Level = {1, 2, 3}
    Rssi = {weak}
    Oversize = {}
    BufferSlots = 1
    Block = {b1, b2}
    None = None
    FirstTick = 1
    MaxTime = 2
    MaxRequests = 1
SYMMETRY Symmetry
INVARIANTS
    TypeOK
    StringOwner
    PageExactWhenQuiet
PROPERTY ImplementsRegistry
