SPECIFICATION NotesSpec
CONSTANTS
    Depth = 2
    RootHistory = 2
    Ladder <- TwoTiers
    MaxNotes = 1
    OwnTiers = {2}
    MaxClicks = 2
    MaxOthers = 1
    OthersDeposits <- FairAndCheap
    MaxFailures = 1
    NoRoot = NoRoot
INVARIANTS
    BackingExact
    TreeIsLeaves
    SdkTwin
    CheckedPathHolds
PROPERTIES
    PanelNeverGoesBack
    EveryNoteSpends
CHECK_DEADLOCK FALSE
