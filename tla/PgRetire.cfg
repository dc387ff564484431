SPECIFICATION PgSpec
CONSTANTS
    w1 = w1
    w2 = w2
    c1 = c1
    c2 = c2
    Connections <- TwoConnections
    Ops <- RetireOps
    GpuLockKey <- Keys3
    WorkerIds <- OneWorker
    MaxJobs = 0
    Specs <- OneSpec
    MaxConcurrencies <- OneAtATime
    RequestedStates <- OnlyOnline
    Submissions <- NoSubmissions
    WorkerTtl = 1
    LeaseSeconds = 1
    MaxLag = 3
    MaxTime = 2
SYMMETRY Symmetry
PROPERTIES
    OfflineOnlyWhenStale
