SPECIFICATION FairSpec
CONSTANTS
    PRICE_SCALE = 2
    BPS_DENOMINATOR = 4
    MAX_U64 = 1000
    Addresses <- ThreeAddresses
    Batches <- EveryBook
    Funds <- EveryBookFunds
    Fees <- OneFee
    Budgets = {3}
    Amounts <- Nothing
    MaxCustody = 0
INVARIANTS
    PricePriority
    NoFirstInBatch
    PriceMaximisesVolume
PROPERTIES
    ImplementsAtomicClearing
    EveryClearingSettles
CHECK_DEADLOCK FALSE
