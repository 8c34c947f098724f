SPECIFICATION Spec
CONSTANTS
    Thread = {t1, t2, t3}
    First = t1
    FirstAdds = 7
    Adds = 1
    MaxAdds <- MCMaxAdds
    Storage = {s1, s2, s3, s4}
    Slab = {b1, b2, b3, b4, b5}
    Null = Null
    MaxLevel = 3
    InitLevel = 0
    HashCode = {0}
    MaxReads = 0
    MaxResets = 0
SYMMETRY Symmetry
INVARIANTS
    CurIsAllocated
