SPECIFICATION ServicesSpec
CONSTANTS
    Fetchers = {f1, f2}
    WorkerOf <- OwnWorker
    Invalidators = {i1, i2}
    Lifetimes = {2}
    Margin = 1
    StampTTL = 1
    MaxGet = 1
    MaxFetch = 1
    RedisFaults = TRUE
    TokenHorizon = 2
    MaxRecords = 2
    JobTries = 2
    ArqTries = 3
    CallbackFaults = 2
    MaxTransfers = 2
    TransferFaults = 1
    MaxOutcomes = 2
    Window = 2
    MinCalls = 2
    Percent = 60
    MaxDelay = 1
    BreakerFaults = 1
    BreakerHorizon = 4
INVARIANTS
    ServicesTypeOK
    NoTokenOutlivesInvalidation
    ServedTokensAreAlive
    CancelledIsNotCalled
    CallsAreBounded
    PendingHasJob
    CallerFollowsAnswer
    LegsFindTheTransfer
PROPERTIES
    VerdictIsExact
SYMMETRY TokenSymmetry
CHECK_DEADLOCK FALSE
