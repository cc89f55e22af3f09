SPECIFICATION Spec
CONSTANTS
    c1 = c1
    c2 = c2
    Connectors <- TwoConnectors
    None = None
    MaxChanges = 2
    MaxSignals = 2
INVARIANTS
    TypeOK
    ResourcesOwned
    ExitCodeTells
PROPERTIES
    StopHonoured
    HotplugFound
CHECK_DEADLOCK FALSE
