CONSTANTS
    EnabledListeners <- AllSchemes
    ConfigFiles <- SomeFiles
    Environments <- OneEnvironment
    MaxCalls = 1
    MaxSignals = 2
CHECK_DEADLOCK FALSE
SPECIFICATION RestFairSpec
INVARIANTS
    RestTypeOK
    ServedOnlyConfigured
    ShutdownHookAfterDrain
    ReturnsInOrder
    ClosedOnce
PROPERTY
    InterruptStops
