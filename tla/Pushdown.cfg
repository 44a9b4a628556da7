CONSTANTS
    Columns <- AllColumns
    Type <- AllTypes
    Mixed = {}
    Numbers = {0, 1}
    Tests <- AllTests
    Docs <- AllDocs
    MaxLeaves = 3
SPECIFICATION Spec
INVARIANTS
    TypeOK
    PlainLosesNone
    PlainAddsNone
CHECK_DEADLOCK FALSE
