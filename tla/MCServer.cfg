CONSTANTS
    MaxSlot = 3
    Network = "BSC"
    Chains <- OneChain
    FirstHead = 4
    FinalityLag = 0
    MaxNow = 1
    MaxReorgs = 0
    MaxGlitches = 0
    Starts = {1, 2}
    Intervals = {2, 3}
    MaxCrashes = 0
    TempDirPersists = TRUE
    CommitAckMayBeLost = FALSE
    StartLoweredEarly = FALSE
    Detailed = FALSE
    ReUploadThreshold = 0
    MaxDamages = 1
    MaxLosses = 0
    Clients = {c1, c2}
    Asks <- AllAsks
    Width = 2
    TxOf <- OneTx
    CacheSize = 2
CHECK_DEADLOCK FALSE
SYMMETRY ClientSymmetry
SPECIFICATION InstanceSpec
INVARIANTS
    ServerTypeOK
    CacheInOrder
    ArchiveAsOnChain
    FullAnswerIsWhole
    IndexedAnswerIsAsAsked
    VerifiedAnswerIsRight
