SPECIFICATION PgSpec
CONSTANTS
    w1 = w1
    w2 = w2
    c1 = c1
    c2 = c2
    Connections <- TwoConnections
    Ops <- LeaseOps
    GpuLockKey <- Keys3
    WorkerIds <- TwoWorkers
    MaxJobs = 1
    Specs <- GpuOrNot
    MaxConcurrencies <- OneAtATime
    RequestedStates <- OnlyOffline
    Submissions <- RetriedJob
    WorkerTtl = 1
    LeaseSeconds = 1
    MaxLag = 3
    MaxTime = 1
SYMMETRY Symmetry
INVARIANTS
    NoDeadlock
PROPERTIES
    PgContract
