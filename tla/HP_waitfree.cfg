SPECIFICATION WorkerRunsSpec
CONSTANTS
    Thread = {t1, t2}
    Node = {n1, n2}
    Null = Null
    K = 1
    RNum = 1
    RDen = 2
    MaxRecords = 2
    StoreBuffered = TRUE
    MaxPending = 1
INVARIANTS
    RecordsExclusive
    RetiredOnce
PROPERTIES
    WorkerRetireNodeEnds
