SPECIFICATION Spec
CONSTANTS
    None = None
    Empty = Empty
    AllModules = AllModules
    Member <- Members
    Units <- UnitsOf
    Opened <- OpenedOf
    Within <- WithinOf
    StartsWith <- StartsOf
    Lower <- LowerOf
    PageSize = 3
    Room = 2
    HeapRoom = 3
    SpoolFrom = 3
    Dotted <- DottedOf
    Candidates <- CandidatesOf
    Source <- SourceOf
    Batch = 2
    FrontierRoom = 9
    GraphRoom = 12
    SiteRoom = 1
    MemberNames <- MemberNamesOf
    MethodIds <- MethodIdsOf
    FieldIds <- FieldIdsOf
    TypeIds <- TypeIdsOf
    Prototypes <- PrototypesOf
    Canonical <- CanonicalOf
    Slashed <- SlashedOf
    Budget = 3
    XmlRoom = 4
    MaxModules = 1
    Artifacts <- ArtifactsOf
    Asks <- AsksOf
    Durables <- DurablesOf
INVARIANTS
    TypeOK
    
    
    GraphTruthful
