CONSTANTS
    MaxId = 3
    MaxChanges = 1
    Kind <- ObjectIds
    Predicates <- AllPredicates
    NoLimit = NoLimit
    Limits = {1}
    PushFilters = TRUE
    PushLimits = TRUE
    MaxPartitions = 3
    MaxSample = 3
    BatchSize = 2
SPECIFICATION FairSpec
INVARIANTS
    TypeOK
    AtMostOnce
    OnlyWanted
    NoneLost
PROPERTIES
    ScanEnds
CHECK_DEADLOCK FALSE
