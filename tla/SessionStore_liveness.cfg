SPECIFICATION FairSpec
CONSTANTS
    Callers = {c1, c2}
    Keys = {k1, k2}
    None = None
    MaxSessions = 2
    MaxBytes = 1
    IndexBudget = 1
    OpenNeeds = {}
    LoadNeeds = {0}
    PrepNeed = 1
    ViewNeed = 1
    CacheMin = 3
    CacheMax = 3
PROPERTIES
    ClosingEnds
    StaleExpires
    ShutdownEmpties
