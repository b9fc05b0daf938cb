SPECIFICATION Spec
CONSTANTS
    Last = 3
    Blocks = 2
    Names = {"a", "b", "c"}
    Layouts <- Some
    Budget = 2
    MaxVersion = 1
    None = None
CHECK_DEADLOCK FALSE
INVARIANTS
    TypeOK
    PublishedWhole
    ReadySound
PROPERTY PreparationEnds
