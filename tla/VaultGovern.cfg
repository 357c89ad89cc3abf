SPECIFICATION Spec
CONSTANTS
    Addresses = {a, b}
    NoAddress = NoAddress
    None = None
    MaxU64 = 1000
    Bps = 10
    MinUnpauseDelay = 1
    Defaults <- GovernParams
    Deposits = {}
    Reports <- GovernReports
    Idles = {}
    JumpBounds = {10}
    PriceBounds = {1}
    Ages = {2}
    Delays = {0, 1}
    MinDeposits = {}
    MaxTime = 2
    MaxEpoch = 2
    MaxReceipts = 0
    MaxCapEpoch = 1
INVARIANTS
    KeeperOutWhilePaused
PROPERTIES
    UnpauseIsSlow
SYMMETRY AddressSymmetry
CHECK_DEADLOCK FALSE
