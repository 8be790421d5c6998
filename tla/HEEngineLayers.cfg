SPECIFICATION EngineSpec
CONSTANTS
    TotalLayers = 3
    Capacities = {4, 15}
    MaxProviders = 2
    Slots = 4
    Texts <- MCTexts
    Refused = Refused
INVARIANT
    DifferentLayers
CHECK_DEADLOCK FALSE
