CONSTANTS
    MaxSlot = 3
    Network = "BSC"
    Chains <- CrashChains
    FirstHead = 4
    FinalityLag = 0
    MaxNow = 1
    MaxReorgs = 0
    MaxGlitches = 0
    Starts = {1, 3}
    Intervals = {2}
    MaxCrashes = 1
    TempDirPersists = TRUE
    CommitAckMayBeLost = FALSE
    StartLoweredEarly = FALSE
    Detailed = FALSE
    ReUploadThreshold = 0
    MaxDamages = 1
    MaxLosses = 1
CHECK_DEADLOCK FALSE
SPECIFICATION HubSpec
INVARIANTS
    HubTypeOK
    HubInv
PROPERTY ReverifiedOnlyAfterReUpload
