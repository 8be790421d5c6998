SPECIFICATION EngineSpec
CONSTANTS
    TotalLayers = 22
    Capacities = {4, 15, 22, 44, 1000}
    MaxProviders = 3
    Slots = 4
    Texts <- MCTexts
    Refused = Refused
INVARIANTS
    TilesModel
    RoundingBounded
    UnservedOnlyForMinimum
    NoLayerSkipped
    EveryLetterSaturates
    KeysArriveWhole
CHECK_DEADLOCK FALSE
