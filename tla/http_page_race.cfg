SPECIFICATION Spec
CONSTANTS
    NODE_SIZE = 2
    TICKS = 8
    EXPIRE = 1
    Mac = {r, n1}
    Root = r
    Level = {1, 2}
    Rssi = {weak}
    Oversize = {}
    BufferSlots = 1
    Block = {b1, b2}
    None = None
    FirstTick = 1
    MaxTime = 4
    MaxRequests = 1
SYMMETRY Symmetry
INVARIANT PageOnce
