SPECIFICATION MergeFairSpec
CONSTANTS
    Keepers = {"k1"}
    Calls = {1, 2}
    EVENT_MODULES <- TwoModules
    PageLimits = {1, 2}
    Digests = {1, 2}
    MaxMs = 0
    MaxEvents = 3
    Wanted = {2, 3}
INVARIANTS
    PagingInvisible
    NotFoundMeansNew
PROPERTIES
    NothingOldIsMissed
CHECK_DEADLOCK FALSE
