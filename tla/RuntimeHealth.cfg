SPECIFICATION FairSpec
CONSTANTS
    Interval = 2
    Timeout = 3
INVARIANTS
    OpenOnFreshProof
    FaultNoticedInTime
    NoFalseAlarm
PROPERTIES
    GateRefined
    FaultNoticed
