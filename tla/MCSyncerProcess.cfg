CONSTANTS
    Files <- SomeFiles
    Environments <- SomeEnvironments
    Quotas <- SomeQuotas
    Word = 8
    MaxStarts = 3
    Objects <- SomeObjects
    Params <- SomeParams
    ShortReads = FALSE
CHECK_DEADLOCK FALSE
SPECIFICATION ProcessFairSpec
INVARIANTS
    ProcessInv
    ProcessTypeOK
    LoopsAsConfigured
    GaugeIsRemaining
    HashIsReference
    MatchMeansSame
    SameMatches
PROPERTY
    VerifyReturns
