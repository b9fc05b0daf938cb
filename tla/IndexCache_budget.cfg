SPECIFICATION Spec
CONSTANTS
    Workers = {w1, w2}
    Sessions = {s1, s2}
    Inputs = {i1}
    InputOf <- OneInput
    Bytes <- Larger
    IndexLimit = 4
    Budget = 7
    ManifestLimit = 1
    MaxEntries = 2
    Leftover <- Stale
    MaxEngine = 1
    LiveUpgrade = FALSE
    Junk = Junk
    None = None
SYMMETRY Symmetric
INVARIANT CombinedBudget
