SPECIFICATION Spec
CONSTANTS
    Sources = {s1, s2}
    MaxRetries = 1
    NoRow = NoRow
    Workers = {w1}
    BatchSize = 2
    RetryDelay = 1
    MaxExhausted = 2
    MaxFaults = 1
    MaxSurprises = 1
    MaxTroubles = 1
    MaxJobs = 2
    MaxEvents = 2
    NoTime = NoTime
    CompletionTimeout = 2
INVARIANTS
    TypeOK
    NoClaimLost
    CompletedIsDrained
PROPERTIES
    OneRunPerRow
SYMMETRY SourceSymmetry
CHECK_DEADLOCK FALSE
