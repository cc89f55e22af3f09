SPECIFICATION FairSpec
CONSTANTS
    server = server
    compositor = compositor
    Server = server
    Consumers <- BothConsume
    MaxTask = 3
    MaxRequests = 4
INVARIANTS
    TaskInOnePlace
    FullOnlyAfterOverlap
PROPERTIES
    Implements
    QueuedIsApplied
CHECK_DEADLOCK FALSE
