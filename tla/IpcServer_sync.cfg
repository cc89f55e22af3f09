SPECIFICATION FairSpec
CONSTANTS
    c1 = c1
    c2 = c2
    waker = waker
    NoConn = NoConn
    Clients <- OneClient
    Conns <- OneConns
    Waker = waker
    SyncClients <- OneClient
    Fds = {3, 6, 8}
    SetupFd = 5
    MaxConnector = 3
    MaxFragments = 6
    MaxSends <- OneSends
    EarlyDestroy = FALSE
    WakerMayFail = FALSE
    StartMayFail = FALSE
    Pipelining = TRUE
    HostIgnoresSigpipe = TRUE
PROPERTY
    WaitEnds
CHECK_DEADLOCK FALSE
