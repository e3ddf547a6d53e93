CONSTANTS
    MaxSlot = 4
    Network = "BSC"
    Chains <- ForkedBscChains
    FirstHead = 2
    FinalityLag = 1
    MaxNow = 1
    MaxReorgs = 1
    MaxGlitches = 0
    Starts = {1, 2}
    Intervals = {2, 3}
    MaxCrashes = 2
    TempDirPersists = FALSE
    CommitAckMayBeLost = TRUE
    StartLoweredEarly = FALSE
CHECK_DEADLOCK FALSE
SPECIFICATION Spec
INVARIANTS
    RecordedAsOnChain
    OneOpenBundle
    BundlesMeetAtOneSlot
