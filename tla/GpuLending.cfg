SPECIFICATION FairSpec
CHECK_DEADLOCK FALSE
INVARIANTS
    ReleasedWhenOver
    UnloadsOwnOnly
    ExclusiveHandover
    JobsFinish
PROPERTIES
    DeadRuntimeNoticed
    CommandEnds
