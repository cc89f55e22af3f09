SPECIFICATION Spec
CONSTANTS
    o1 = o1
    o2 = o2
    o3 = o3
    NoOutput = NoOutput
    Outputs <- ThreeOutputs
    Legacy = g_output
    n1 = n1
    n2 = n2
    n3 = n3
    Heap <- ThreeNodes
    ListHead = ListHead
    Nil = Nil
SYMMETRY Symmetry
INVARIANTS
    TypeOK
PROPERTIES
    OnlyStalePrevBreaksList
    OnlyTheMoveBreaksPrev
    Implements
CHECK_DEADLOCK FALSE
