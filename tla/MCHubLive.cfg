CONSTANTS
    MaxSlot = 4
    Network = "BSC"
    Chains <- BusyHubChains
    FirstHead = 5
    FinalityLag = 0
    MaxNow = 1
    MaxReorgs = 0
    MaxGlitches = 0
    Starts = {1}
    Intervals = {2}
    MaxCrashes = 1
    TempDirPersists = TRUE
    CommitAckMayBeLost = FALSE
    StartLoweredEarly = FALSE
    Detailed = FALSE
    ReUploadThreshold = 0
    MaxDamages = 0
    MaxLosses = 0
CHECK_DEADLOCK FALSE
SPECIFICATION HubFairSpec
PROPERTIES
    EveryBlockRecorded
    EveryBlockVerified
