CONSTANTS
    Samplers = {first, second}
    MaxDepth = 1
    SampledBases = {"Unknown", "Int32", "Int64", "Utf8", "ObjectId", "DateTime",
                    "BsonTimestamp", "Document", "Json"}
    MaxSample = 3
SPECIFICATION Spec
INVARIANTS
    TypeOK
    CoversSample
    NoSpuriousNesting
    UnmixedIsFaithful
    ScalarsInAnyOrder
    UnmixedInAnyOrder
SYMMETRY Symmetry
CHECK_DEADLOCK FALSE
