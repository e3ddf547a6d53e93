CONSTANTS
    MaxSlot = 2
    Network = "BSC"
    Chains <- OneBundle
    FirstHead = 3
    FinalityLag = 0
    MaxNow = 1
    MaxReorgs = 0
    MaxGlitches = 0
    Starts = {1}
    Intervals = {2}
    MaxCrashes = 0
    TempDirPersists = TRUE
    CommitAckMayBeLost = FALSE
    StartLoweredEarly = FALSE
    Detailed = FALSE
    ReUploadThreshold = 0
    MaxDamages = 1
    MaxLosses = 0
CHECK_DEADLOCK FALSE
SPECIFICATION HubFairSpec
PROPERTY EveryBlockVerified
