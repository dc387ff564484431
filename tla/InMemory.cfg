SPECIFICATION IMSpec
CONSTANTS
    w1 = w1
    w2 = w2
    WorkerIds <- MCWorkers
    MaxJobs = 2
    Specs <- MCSpecs
    MaxConcurrencies <- UpToTwo
    RequestedStates <- LiveStates
    Submissions <- MCSubmissions
    WorkerTtl = 1
    LeaseSeconds = 1
    MaxLag = 0
    MaxTime = 2
SYMMETRY WorkerSymmetry
INVARIANTS
    TypeOK
    LeaseConsistent
    RetriesBounded
PROPERTIES
    Contract
    JobsFenced
    OfflineOnlyWhenStale
