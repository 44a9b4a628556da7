CONSTANTS
    MaxStatements = 1
SPECIFICATION TextSpec
INVARIANTS
    LiteralsAreNotCut
CHECK_DEADLOCK FALSE
