SPECIFICATION Spec
CONSTANTS
    BUF_SIZE = 2
    CDC_BUFSIZE = 1
    RX_MESSAGES = 1
    TX_MESSAGES = 2
    FIFO = 6
    LineLength = {1, 3}
    ReportSize = {1, 2}
    MaxLines = 3
    MaxReports = 3
    MAX_CONNECTIONS = 2
    BLE_MESSAGES = 2
    MESH_MESSAGES = 1
    Child = {c1, c2}
    MAX_RETRY = 2
    MaxSent = 1
    Own = Own
    Old = Old
    FLASH = 2
    LOG_MESSAGES = 2
    MaxLogged = 4
    MaxArrived = 2
    RETRIES = 2
    MaxBoots = 2
    MaxRuns = 2
    CLIENT_QUEUE = 1
    MaxConnections = 3
    MaxRestarts = 1
INVARIANTS
    CharactersInOrder
    WholeLines
    Reachable
    NoStaleSubscription
    SteadyServed
    PrintedOnce
    ServerIsPrefix
    AcceptedIsMerged
    ReaderReady
    LogWithoutGaps
    PrintedWhole
    StartupSafe
PROPERTIES
    HostGetsReports
    Uploaded
    LogSent
    Subscribes
    PublishesAgain
    ServesOnceHeard
    HelloAgain
    ConnectionsEnd
CHECK_DEADLOCK FALSE
