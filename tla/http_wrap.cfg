SPECIFICATION Spec
CONSTANTS
    NODE_SIZE = 2
    TICKS = 4
    EXPIRE = 1
    Mac = {r, n1, n2}
    Root = r
    Level = {1, 2}
    Rssi = {weak}
    Oversize = {n2}
    BufferSlots = 2
    Block = {b1, b2}
    None = None
    FirstTick = 1
    MaxTime = 7
    MaxRequests = 0
SYMMETRY Symmetry
INVARIANTS
    HeapExact
PROPERTIES
    EvictOnlySilent
    StaleGone
