CONSTANTS
    Tables = {t1, t2}
    Writers = {s1, h1}
    Sessions = {s1}
    NoTable = none
    Shapes = {a}
    CachePath = FALSE
    MaxPuts = 3
    Passes = {"recent", "random"}
    Ttl = 1
    Readings = {0, 2}
    MaxChanges = 1
    MaxLookups = 3
SPECIFICATION LookupSpec
INVARIANTS
    LookupTypeOK
    ServedWasObserved
    AbsentMeansAbsent
    PlaceholderMeansEmpty
SYMMETRY Symmetry
