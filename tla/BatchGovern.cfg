SPECIFICATION Spec
CONSTANTS
    Addresses <- OneAddress
    ZeroAddress = "0x0"
    Orders <- OneOrder
    MaxU64 = 30
    HardMaxBatchSize = 2
    MinCadence = 2
    Defaults <- MCDefaults
    Cadences <- GovernCadences
    Offsets <- GovernOffsets
    Cutoffs <- GovernCutoffs
    Graces <- GovernGraces
    Sizes <- GovernSizes
    Versions <- GovernVersions
    MaxTime = 4
    MaxBatches = 2
INVARIANTS
    PassesInOrder
    KeysFollowTheBoundary
    NoSubmitAfterKeys
CHECK_DEADLOCK FALSE
