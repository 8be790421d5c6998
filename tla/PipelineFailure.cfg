SPECIFICATION Spec
CONSTANTS
    Calls = {c1}
    Requests = {r1}
    Providers = {p1, p2}
    TotalLayers = 2
    MaxRetries = 3
    MaxTick = 0
    None = None
INVARIANT
    FailuresAreRetried
CHECK_DEADLOCK FALSE
