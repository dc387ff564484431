SPECIFICATION WFairSpec
CONSTANTS
    w1 = w1
    w2 = w2
    WorkerIds <- OneWorker
    Me = w1
    MySpec <- Spec1
    OtherSpec <- Spec2
    MaxJobs = 1
    Specs <- Specs12
    MaxConcurrencies <- OneAtATime
    RequestedStates <- NoStates
    Submissions <- OnceJob
    WorkerTtl = 1
    LeaseSeconds = 2
    MaxLag = 0
    MaxTime = 0
    HeartbeatInterval = 1
    RequestTimeout = 1
    MaxSignals = 1
    MaxLate = 0
CHECK_DEADLOCK FALSE
PROPERTIES
    ShutdownCompletes
