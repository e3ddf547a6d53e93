CONSTANTS
    MaxSlot = 3
    Network = "BSC"
    Chains <- ThreeSlots
    FirstHead = 4
    FinalityLag = 0
    MaxNow = 2
    MaxReorgs = 0
    MaxGlitches = 0
    Starts = {1}
    Intervals = {2}
    MaxCrashes = 0
    TempDirPersists = TRUE
    CommitAckMayBeLost = FALSE
    StartLoweredEarly = FALSE
    Detailed = TRUE
    ReUploadThreshold = 0
    MaxDamages = 1
    MaxLosses = 0
CHECK_DEADLOCK FALSE
SPECIFICATION HubSpec
INVARIANTS
    VerifiedIsInGreenfield
    GreenfieldInv
