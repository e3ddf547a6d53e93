CONSTANTS
    MaxSlot = 4
    Network = "ETH"
    Chains <- ForkedChains
    FirstHead = 1
    FinalityLag = 1
    MaxNow = 1
    MaxReorgs = 1
    MaxGlitches = 1
    Starts = {1}
    Intervals = {1, 2}
    MaxCrashes = 1
    TempDirPersists = FALSE
    CommitAckMayBeLost = FALSE
    StartLoweredEarly = FALSE
CHECK_DEADLOCK FALSE
SPECIFICATION Spec
INVARIANTS
    IInv
