\* Three buffers, and a configure after the first.
CONSTANTS
    NumBuffers = 3
    MaxConfigures = 2
SPECIFICATION Spec
\* Programs end.
CHECK_DEADLOCK FALSE
INVARIANTS
    TypeOK
    UntouchedWhileShown
    StuckOnlyWhenAllAway
    FreedOnce
