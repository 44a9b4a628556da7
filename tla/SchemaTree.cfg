CONSTANTS
    SampleDocs <- AllDocs
    MaxLevels = 4
    MaxDocs = 3
    max_depth = 2
    ReadLimit = 12
    Parts <- SplitKeys
    Column = "a"
    ArrayDepth = 2
    SlotBases <- AllBases
    unify_ <- MC_unify
    shape_of_ <- MC_shape_of
    joined_ <- MC_joined
    arrow_type_ <- MC_arrow_type
    from_arrow_ <- MC_from_arrow
    to_arrow_ <- MC_to_arrow
    Within_ <- MC_Within
    lookup_path_ <- MC_lookup_path
    decode_ <- MC_decode
    value_to_json_ <- MC_value_to_json
    IsValue_ <- MC_IsValue
    WellFormed_ <- MC_WellFormed
    NestsWithin_ <- MC_NestsWithin
    Carries_ <- MC_Carries
    Trusted_ <- MC_Trusted
    Counted_ <- MC_Counted
    Fits_ <- MC_Fits
    Depth_ <- MC_Depth
    Base_ <- MC_Base
SPECIFICATION Spec
INVARIANTS
    TypeOK
    NothingSampledIsLost
    SentAsDescribed
    UnmixedMayBePushed
    CountsNeverOver
PROPERTIES
    FrozenAcrossRestart
    SlotIsLattice
