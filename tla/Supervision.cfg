SPECIFICATION Spec
CONSTANTS
    Calls = {c1, c2}
    Slots = 1
    Cap <- Limits
    None = None
CHECK_DEADLOCK FALSE
INVARIANTS
    TypeOK
    AnswersComplete
    NothingSurvives
    WorkInJob
PROPERTIES
    CallsEnd
    DiesWithHost
