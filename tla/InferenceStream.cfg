SPECIFICATION FairSpec
CONSTANTS
    MaxRequest = 3
    MaxResponse = 4
    RequestSizes = {1, 2, 3, 5, 6}
    OutputSizes = {1, 4, 5, 6, 7}
    Window = 2
INVARIANTS
    EmptyMeansNoWork
    OnlyTheseSizesHang
PROPERTIES
    ImplementsStageCall
    ExactRequestReturns
    HandlerEnds
CHECK_DEADLOCK FALSE
