\* A surface of up to three buffers, sizes from 0 to 2, and padded lines.
CONSTANTS
    Widths <- ThreeSizes
    Heights <- ThreeSizes
    Paddings <- TwoPaddings
    MaxSurfaces = 3
SPECIFICATION Spec
\* A crashed process stops.
CHECK_DEADLOCK FALSE
INVARIANTS
    TypeOK
    WritesInside
PROPERTIES
    WritesHidden
