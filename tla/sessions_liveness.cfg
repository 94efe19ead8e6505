CONSTANTS
    c1 = c1  c2 = c2  c3 = c3
    None = None
    Xfer = Xfer
    Conns <- TwoConns
    UserOf <- OneEach
    TIMEOUT = 3
    CLIENTMAX = 2
    MaxFd = 3
    MaxTransfers = 0
    MallocGarbage <- AnyNext
SPECIFICATION FairSpec
CHECK_DEADLOCK FALSE
PROPERTY
    CommandServedBeforeTimeouts
