SPECIFICATION FairSpec
CONSTANTS
    MaxRequest = 3
    MaxResponse = 4
    RequestSizes = {2}
    OutputSizes = {1, 4, 5}
    Window = 2
PROPERTY
    CallReturns
CHECK_DEADLOCK FALSE
