SPECIFICATION Spec
CONSTANTS
    Callers = {t1, t2}
    Selected = {r1, r2}
    Pages = 1
    PageBytes = 2
    Budget = 1
    SetBytes = 1
    Chunks = 2
    MaxEvents = 1
    None = None
SYMMETRY Symmetric
INVARIANTS
    TypeOK
    HitsCurrent
    CachesBounded
    GroupedConsistent
