SPECIFICATION Spec
CONSTANTS
    PRICE_SCALE = 2
    BPS_DENOMINATOR = 4
    MAX_U64 = 1000
    Addresses <- ThreeAddresses
    Batches <- Chosen
    Funds <- ChosenFunds
    Fees <- TwoFees
    Budgets = {2}
    Amounts = {3}
    MaxCustody = 8
INVARIANTS
    LockedUntilSolvent
    SettlementCovered
PROPERTIES
    ImplementsAtomicClearing
CHECK_DEADLOCK FALSE
