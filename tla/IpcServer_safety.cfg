SPECIFICATION Spec
CONSTANTS
    c1 = c1
    c2 = c2
    waker = waker
    NoConn = NoConn
    Clients <- MCClients
    Conns <- MCConns
    Waker = waker
    SyncClients <- MCSync
    Fds = {3, 6, 8}
    SetupFd = 5
    MaxConnector = 2
    MaxFragments = 2
    MaxSends <- MCSends
    EarlyDestroy = TRUE
    WakerMayFail = TRUE
    StartMayFail = TRUE
    Pipelining = TRUE
    HostIgnoresSigpipe = FALSE
INVARIANTS
    TypeOK
    TableConsistent
    MaxFdBoundsWatched
    OverrunOnlyWhenFull
    SnapshotLive
    RepliesToAsker
    FreedAfterExit
PROPERTY
    StatusForward
CHECK_DEADLOCK FALSE
