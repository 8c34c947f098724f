SPECIFICATION FairSpec
CONSTANTS
    Thread = {t1, t2}
    First = t1
    FirstAdds = 3
    Adds = 2
    MaxAdds <- MCMaxAdds
    Storage = {s1, s2, s3}
    Slab = {b1, b2, b3}
    Null = Null
    MaxLevel = 2
    InitLevel = 0
    HashCode = {0, 2}
    MaxReads = 1
    MaxResets = 1
INVARIANTS
    SlabsOwned
    CurIsAllocated
    Conservation
    ValueInRange
PROPERTIES
    CallsReturn
