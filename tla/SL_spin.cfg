SPECIFICATION FairSpec
CONSTANTS
    Thread = {t1, t2}
    First = t1
    FirstOps = {"erase", "values"}
    FirstCalls = 2
    OtherOps = {"erase"}
    OtherCalls = 1
    Ops <- MCOps
    MaxCalls <- MCMaxCalls
    Node = {n1, n2, n3}
    Null = Null
    Head = Head
    Key = {1, 2, 3}
    InitKeys = {1, 2, 3}
    KMaxHeight = 1
PROPERTIES
    ValuesReturn
CHECK_DEADLOCK FALSE
