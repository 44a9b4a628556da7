CONSTANTS
    MaxStatements = 1
    Timeouts = {0, 1}
    Fallback = 2
    MaxClock = 3
    MaxRows = 2
    Limits = {0, 1, 9}
    NoLimit = NoLimit
    DefaultRows = 2
    MaxCap = 3
SPECIFICATION SessionSpec
INVARIANTS
    SessionTypeOK
    SplitAsMeant
    RewrittenAsMeant
    AnsweredInFull
    ConsoleRunsOne
    ConsoleIsHonest
PROPERTIES
    RepliesInOrder
    EveryRequestAnswered
