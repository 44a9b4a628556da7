CONSTANTS
    Tables = {t1, t2}
    Writers = {s1, h1}
    Sessions = {s1}
    NoTable = none
    Shapes = {a}
    CachePath = TRUE
    MaxPuts = 3
    Passes = {"recent"}
    Ttl = 0
    Readings = {0}
    MaxChanges = 0
    MaxLookups = 3
SPECIFICATION LookupSpec
INVARIANTS
    TypeOK
    NotTornAlone
    SavedIsDurableAlone
    DiskNeverAhead
    FrozenOnceSaved
    SessionKeepsEntryAlone
PROPERTIES
    KeepsPromiseAlone
SYMMETRY Symmetry
