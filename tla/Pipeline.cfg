SPECIFICATION FairSpec
CONSTANTS
    Calls = {c1, c2}
    Requests = {r1}
    Providers = {p1, p2}
    TotalLayers = 3
    MaxRetries = 2
    MaxTick = 1
    None = None
INVARIANTS
    TypeOK
    CheckpointExact
    StageInputExact
    OutputExact
    CheckpointOwned
PROPERTIES
    CheckpointAdvances
    CallsReturn
    ImplementsReexecution
CHECK_DEADLOCK FALSE
