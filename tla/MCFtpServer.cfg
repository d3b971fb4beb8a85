SPECIFICATION Spec
CONSTANTS
    NULL = NULL
    s1 = s1
    s2 = s2
    Threads <- TwoThreads
    Commands <- TransferCommands
    MaxConns = 2
    MaxDescs = 2
    PortAmount = 1
    Addrs = {a1}
    FileSizes = {3}
    SendChunkSize = 2
    PoolSize = 2
    FtpMaxQueueSize = 1
INVARIANTS
    ControllerInv
    DescriptorsAreKept
    SessionsAreAwaited
PROPERTY
    WaitEnds
CHECK_DEADLOCK FALSE
