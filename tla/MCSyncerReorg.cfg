CONSTANTS
    MaxSlot = 4
    Network = "ETH"
    Chains <- ForkedChains
    FirstHead = 2
    FinalityLag = 1
    MaxNow = 1
    MaxReorgs = 1
    MaxGlitches = 0
    Starts = {1}
    Intervals = {2}
    MaxCrashes = 0
    TempDirPersists = TRUE
    CommitAckMayBeLost = FALSE
    StartLoweredEarly = FALSE
CHECK_DEADLOCK FALSE
SPECIFICATION Spec
INVARIANT RecordedAsOnChain
