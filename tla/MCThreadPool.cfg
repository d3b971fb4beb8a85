SPECIFICATION FairSpec
CONSTANTS
    N = 2
    Jobs = {j1, j2}
    Clients = {c1, main}
    Destroyer = main
    NoJob = NoJob
    MaxInterrupts = 4
INVARIANTS TypeOK NeverEmptyAfterWait NoUseAfterFree ExactlyOnce
PROPERTIES ImplementsJobPool EveryJobRuns CallsReturn
CHECK_DEADLOCK FALSE
