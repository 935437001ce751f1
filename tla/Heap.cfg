SPECIFICATION Spec
CONSTANTS
    Nodes = {n1, n2, n3, n4, n5}
    Priorities = {0, 1, 2}
SYMMETRY Symmetry
CHECK_DEADLOCK FALSE
INVARIANT HeapOrder
INVARIANT NoNodeLost
