SPECIFICATION FairCrankSpec
CONSTANTS
    Addresses <- OneAddress
    ZeroAddress = "0x0"
    Orders <- ThreeKinds
    MaxU64 = 30
    HardMaxBatchSize = 3
    MinCadence = 2
    Defaults <- MCDefaults
    Cadences <- Empty
    Offsets <- Empty
    Cutoffs <- Empty
    Graces <- Empty
    Sizes <- Empty
    Versions <- Empty
    MaxTime = 0
    MaxBatches = 1
    Keepers = {k1, k2}
    Unreadable = lost
    Encrypted <- WhatDecrypts
    Skews <- LooseClocks
    ChunkSize = 2
    Work = 2
    Budget = 1
    MaxSteps = 1
    MaxFailures = 1
INVARIANTS
    OnlyARaceFailsAChunk
    DueIsWhatTheChainAccepts
    ClearsADecidedBook
PROPERTIES
    EveryBatchSettles
CHECK_DEADLOCK FALSE
