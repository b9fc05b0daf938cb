SPECIFICATION FairSpec
CONSTANTS
    Callers = {c1, c2}
    Queries = {q1}
    Futures = {f1, f2}
    None = None
    MaxVersion = 1
    MaxParallel = 1
    MaxEntries = 1
    MaxBytes = 3
INVARIANTS
    TypeOK
    SoleExecution
    AnswersMatch
    Answerable
    CacheBounded
PROPERTIES
    CallsEnd
