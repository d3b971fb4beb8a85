SPECIFICATION FairServerSpec
CONSTANTS
    N = 2
    Jobs = {j1, j2}
    Clients = {listener, main}
    Destroyer = main
    Listener = listener
    NoJob = NoJob
    HttpMaxQueueSize = 1
    MaxInterrupts = 0
    HasShutdownRoute = FALSE
    MaxAcceptErrors = 0
PROPERTIES SigIntEndsServer
