CONSTANTS
    MaxSlot = 6
    Network = "ETH"
    Chains <- TwoBlobs
    FirstHead = 7
    FinalityLag = 1
    MaxNow = 1
    MaxReorgs = 0
    MaxGlitches = 1
    Starts = {1}
    Intervals = {3}
    MaxCrashes = 0
    TempDirPersists = TRUE
    CommitAckMayBeLost = FALSE
    StartLoweredEarly = FALSE
    Detailed = FALSE
    ReUploadThreshold = 0
    MaxDamages = 0
    MaxLosses = 0
CHECK_DEADLOCK FALSE
SPECIFICATION HubSpec
INVARIANTS
    VerifiedBundleIsWhole
    VerifiedIsInGreenfield
