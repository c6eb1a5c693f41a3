SPECIFICATION FairSpec
CONSTANTS
    Sources = {s1}
    MaxRetries = 1
    NoRow = NoRow
    Workers = {w1}
    BatchSize = 1
    RetryDelay = 1
    MaxExhausted = 2
    MaxFaults = 1
    MaxSurprises = 1
    MaxTroubles = 1
    MaxJobs = 2
    MaxEvents = 3
    NoTime = NoTime
    CompletionTimeout = 2
PROPERTIES
    CampaignEnds
CHECK_DEADLOCK FALSE
