CONSTANTS
    MaxId = 3
    MaxChanges = 1
    Kind <- ObjectIds
    Predicates <- AllPredicates
    NoLimit = NoLimit
    Limits = {1}
    PushFilters = FALSE
    PushLimits = TRUE
    MaxPartitions = 3
    MaxSample = 3
    BatchSize = 2
SPECIFICATION Spec
INVARIANT ExactIsExact
CHECK_DEADLOCK FALSE
