SPECIFICATION Spec
CONSTANTS
    Thread = {t1, t2}
    Object = {o1, o2, o3}
    Value = {v1, v2, v3, v4}
    Array = {a1, a2, a3}
    Null = Null
    MaxId = 3
    GrowsAlone = TRUE
SYMMETRY Symmetry
INVARIANTS
    IdsUnique
    GetsOwn
    ValuesKept
    ExitsAlone
