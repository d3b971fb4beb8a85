SPECIFICATION Spec
CONSTANTS
    Frames <- AllFrames
    UpgradeSettings <- SomeSettings
    Responses <- SomeResponses
    MinMaxFrameSize = 10
    MaxMaxFrameSize = 12
    MaxWindowSize = 65536
CHECK_DEADLOCK FALSE
INVARIANTS
    RequestsInv
    RequestsAreServed
    GoawayCovers
    AcknowledgesAll
    ResponsesAreWhole
PROPERTY
    LeavingEndsHandler
