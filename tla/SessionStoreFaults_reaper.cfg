SPECIFICATION FairFaultSpec
CONSTANTS
    Callers = {c1}
    Keys = {k1}
    None = None
    MaxSessions = 2
    MaxBytes = 4
    IndexBudget = 1
    OpenNeeds = {2}
    LoadNeeds = {1}
    PrepNeed = 2
    ViewNeed = 1
    CacheMin = 1
    CacheMax = 2
PROPERTY IdleSessionsExpire
