SPECIFICATION MCSpec
CONSTANTS
    w1 = w1
    w2 = w2
    c1 = c1
    c2 = c2
    Connections <- TwoConnections
    Ops <- AllOps
    GpuLockKey <- Keys3
    WorkerIds <- TwoWorkers
    MaxJobs = 3
    Specs <- AllSpecs
    MaxConcurrencies <- UpToTwo
    RequestedStates <- OnlyOnline
    Submissions <- KeyedAndFree
    WorkerTtl = 1
    LeaseSeconds = 1
    MaxLag = 3
    MaxTime = 2
SYMMETRY Symmetry
INVARIANTS
    GpuExclusive
    NoDeadlock
    Accounting
    ConflictingInsertPersisted
PROPERTIES
    PgContract
    SweepTakesStaleOnly
