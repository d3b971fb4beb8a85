SPECIFICATION ServerSpec
CONSTANTS
    N = 2
    Jobs = {j1, j2, j3}
    Clients = {listener, main}
    Destroyer = main
    Listener = listener
    NoJob = NoJob
    HttpMaxQueueSize = 1
    MaxInterrupts = 0
    HasShutdownRoute = TRUE
    MaxAcceptErrors = 0
INVARIANTS AwaitedBeforeDestroy
