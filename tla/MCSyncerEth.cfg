CONSTANTS
    MaxSlot = 4
    Network = "ETH"
    Chains <- EthChains
    FirstHead = 5
    FinalityLag = 1
    MaxNow = 1
    MaxReorgs = 0
    MaxGlitches = 0
    Starts = {1, 3}
    Intervals = {2, 3}
    MaxCrashes = 2
    TempDirPersists = TRUE
    CommitAckMayBeLost = FALSE
    StartLoweredEarly = FALSE
CHECK_DEADLOCK FALSE
SPECIFICATION Spec
INVARIANTS
    TypeOK
    BlockInOwnBundle
    FinalizedHoldsBlobs
    OneOpenBundle
    CompleteBundleIsOut
    SkippedWithItsBundle
PROPERTY ImplementsArchive
