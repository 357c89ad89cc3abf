SPECIFICATION CapsSpec
CONSTANTS
    Addresses <- ThreeAddresses
    Entries <- TwoEntries
    NoAddress = NoAddress
    MaxAllowlist = 1
    MaxCapEpoch = 3
INVARIANTS
    OneLiveCapEach
PROPERTIES
    RetiredForGood
    AuthorityMovesByConsent
CHECK_DEADLOCK FALSE
