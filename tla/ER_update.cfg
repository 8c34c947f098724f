SPECIFICATION FairSpec
CONSTANTS
    Thread = {t1, t2}
    First = t1
    FirstUpdates = 1
    FirstSnapshots = 1
    OtherUpdates = 3
    MaxUpdates <- MCMaxUpdates
    MaxSnapshots <- MCMaxSnapshots
    Data = {d1, d2}
    Null = Null
    KSize = 1
    Period = 1
    Draw = {0, 1}
    MaxTime = 2
INVARIANTS
    UsedIsAllocated
    ErasersFindKeys
    WeightsKept
    Statistics
PROPERTIES
    CallsReturn
CHECK_DEADLOCK FALSE
