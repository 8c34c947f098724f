SPECIFICATION FairSpec
CONSTANTS
    Thread = {t1, t2}
    Site = {s1, s2, s3}
    s1 = s1  s2 = s2  s3 = s3
    n1 = n1  n2 = n2
    SiteKind <- Kinds
    SiteName <- Names
    Name = {n1, n2}
    Metric = {m1, m2}
    Null = Null
    MaxUses = 1
    MaxStarts = 2
    MaxWrites = 1
    StopsFirst = TRUE
CHECK_DEADLOCK FALSE
INVARIANTS
    AssertsHold
    ReportComplete
    SitesAgree
PROPERTIES
    CallsReturn
    Reconnects
