SPECIFICATION Spec
CONSTANTS
    Addresses = {a}
    NoAddress = NoAddress
    None = None
    MaxU64 = 1000
    Bps = 10
    MinUnpauseDelay = 1
    Defaults <- WideParams
    Deposits = {2}
    Reports <- ShareReports
    Idles = {}
    JumpBounds = {}
    PriceBounds = {}
    Ages = {}
    Delays = {}
    MinDeposits = {3}
    MaxTime = 0
    MaxEpoch = 3
    MaxReceipts = 2
    MaxCapEpoch = 0
INVARIANTS
    RequestsBacked
    EveryClaimPays
    SolventUnasked
PROPERTIES
    ApprovesWhatWasSigned
CHECK_DEADLOCK FALSE
