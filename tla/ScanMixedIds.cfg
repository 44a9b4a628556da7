CONSTANTS
    MaxId = 3
    MaxChanges = 1
    Kind <- StringsFirst
    Predicates <- AllPredicates
    NoLimit = NoLimit
    Limits = {1}
    PushFilters = TRUE
    PushLimits = TRUE
    MaxPartitions = 3
    MaxSample = 3
    BatchSize = 2
SPECIFICATION Spec
INVARIANT EveryDocumentScanned
CHECK_DEADLOCK FALSE
