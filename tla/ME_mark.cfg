SPECIFICATION FairSpec
CONSTANTS
    Thread = {t1, t2}
    First = t1
    FirstMarks = 2
    FirstReads = 1
    OtherMarks = 1
    MaxMarks <- MCMaxMarks
    MaxReads <- MCMaxReads
    Unit <- MCUnit
    Rates = 2
    KInterval = 2
    MaxTime = 4
INVARIANTS
    TicksPaced
    CountedOnce
    RateBounded
PROPERTIES
    CallsReturn
CHECK_DEADLOCK FALSE
