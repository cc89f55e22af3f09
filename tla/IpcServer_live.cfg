SPECIFICATION FairSpec
CONSTANTS
    c1 = c1
    c2 = c2
    waker = waker
    NoConn = NoConn
    Clients <- MCClients
    Conns <- MCConns
    Waker = waker
    SyncClients = {}
    Fds = {3, 8}
    SetupFd = 5
    MaxConnector = 2
    MaxFragments = 3
    MaxSends <- MCSends
    EarlyDestroy = FALSE
    WakerMayFail = FALSE
    StartMayFail = FALSE
    Pipelining = FALSE
    HostIgnoresSigpipe = TRUE
PROPERTIES
    DestroyReturns
    WaitEnds
CHECK_DEADLOCK FALSE
