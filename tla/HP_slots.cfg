SPECIFICATION Spec
CONSTANTS
    Thread = {t1, t2}
    Node = {n1, n2}
    Null = Null
    K = 2
    RNum = 1
    RDen = 4
    MaxRecords = 2
    StoreBuffered = FALSE
    MaxPending = 1
SYMMETRY Symmetry
INVARIANTS
    HeldIsAllocated
PROPERTIES
    ReclaimsSafely
