SPECIFICATION FairServerSpec
CONSTANTS
    N = 2
    Jobs = {j1, j2}
    Clients = {listener, main}
    Destroyer = main
    Listener = listener
    NoJob = NoJob
    HttpMaxQueueSize = 1
    MaxInterrupts = 2
    HasShutdownRoute = TRUE
    MaxAcceptErrors = 1
INVARIANTS JobIdQueueInv OrderlyEnd
PROPERTIES ServerEnds AcceptedIsServed
CHECK_DEADLOCK FALSE
