SPECIFICATION Spec
CONSTANTS
    server = server
    compositor = compositor
    Server = server
    Consumers <- BothConsume
    MaxTask = 10
    MaxRequests = 3
INVARIANT
    AppliedInOrder
CHECK_DEADLOCK FALSE
