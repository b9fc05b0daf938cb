SPECIFICATION FaultSpec
CONSTANTS
    Callers = {c1, c2}
    Keys = {k1, k2}
    None = None
    MaxSessions = 2
    MaxBytes = 4
    IndexBudget = 1
    OpenNeeds = {2}
    LoadNeeds = {1}
    PrepNeed = 2
    ViewNeed = 1
    CacheMin = 1
    CacheMax = 2
INVARIANT FailedOpensRelease
