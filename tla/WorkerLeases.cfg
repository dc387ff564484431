SPECIFICATION WSpec
CONSTANTS
    w1 = w1
    w2 = w2
    WorkerIds <- TwoWorkers
    Me = w1
    MySpec <- Spec1
    OtherSpec <- Spec2
    MaxJobs = 1
    Specs <- Specs12
    MaxConcurrencies <- OneAtATime
    RequestedStates <- Resumes
    Submissions <- RetriedJob
    WorkerTtl = 2
    LeaseSeconds = 6
    MaxLag = 0
    MaxTime = 0
    HeartbeatInterval = 1
    RequestTimeout = 1
    MaxSignals = 0
    MaxLate = 1
CHECK_DEADLOCK FALSE
INVARIANTS
    ExecutesOnlyLeased
PROPERTIES
    OfflineAfterRelease
    TerminalLeaseNotReused
    NoClaimWhileDraining
