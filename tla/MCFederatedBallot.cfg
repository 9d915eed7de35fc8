CONSTANTS
    n1 = n1
    n2 = n2
    n3 = n3
    Node = {n1, n2, n3}
    Intact = {n1, n2}
    Slices <- MCSlices
    Value = {1, 2}
    MaxCounter = 1
    UINT32_MAX = 2
SPECIFICATION Spec
INVARIANTS IInv Agreement
CHECK_DEADLOCK FALSE
SYMMETRY MCSymmetry
