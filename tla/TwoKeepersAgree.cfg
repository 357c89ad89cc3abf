SPECIFICATION MergeSpec
CONSTANTS
    Keepers = {"k1", "k2"}
    Calls = {1}
    EVENT_MODULES <- ThreeModules
    PageLimits = {1, 2}
    Digests = {1}
    MaxMs = 1
    MaxEvents = 2
    Wanted = {1, 2}
INVARIANTS
    TwoKeepersAgree
CHECK_DEADLOCK FALSE
