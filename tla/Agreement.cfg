SPECIFICATION MCSpec
CONSTANTS
    IntMax = 3
    Amounts = {0, 1, 2, 3}
    Trouble = 3
    None = None
    Facts <- MCFacts
    Demands <- MCDemands
    Configs <- MCConfigs
INVARIANTS
    QueryAgreesWithMatcher
    LaunchedAsReviewed
    FitsWorkerNow
    ReadyMeansMigrated
PROPERTIES
    MigrationCompletes
    MaintenanceKeepsUp
CHECK_DEADLOCK FALSE
