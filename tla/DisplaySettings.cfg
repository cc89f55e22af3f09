SPECIFICATION Spec
CONSTANTS
    t1 = t1
    t2 = t2
    Callers <- TwoCallers
    MaxFd = 2
    MaxCalls = 3
    Pairs <- TwoPairs
    Policies <- TwoPolicies
    None = None
    Peer = Peer
    ModeLists <- ShortLists
    Limits <- Areas
    MaxChecks = 2
SYMMETRY Symmetric
INVARIANTS
    TypeOK
    SuccessMeansSet
    DescriptorsKept
    AutoModeBest
CHECK_DEADLOCK FALSE
