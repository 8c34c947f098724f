SPECIFICATION Spec
CONSTANTS
    Thread = {t1, t2}
    Node = {n1, n2, n3, n4}
    Null = Null
    K = 1
    RNum = 5
    RDen = 4
    MaxRecords = 3
    StoreBuffered = FALSE
    MaxPending = 1
SYMMETRY Symmetry
INVARIANTS
    TypeOK
    NothingLeaked
    CountedRecords
    RetireListBounded
