SPECIFICATION FairSpec
CONSTANTS
    Thread = {t1, t2}
    First = t1
    FirstOps = {"insert", "erase"}
    FirstCalls = 2
    OtherOps = {"insert", "erase", "exists", "firstKey", "values"}
    OtherCalls = 1
    Ops <- MCOps
    MaxCalls <- MCMaxCalls
    Node = {n1, n2, n3}
    Null = Null
    Head = Head
    Key = {1, 2}
    InitKeys = {1}
    KMaxHeight = 2
INVARIANTS
    Sorted
    DereferencesAllocated
    RetiredWhenUnlinked
PROPERTIES
    MapSpec
    CallsReturn
CHECK_DEADLOCK FALSE
