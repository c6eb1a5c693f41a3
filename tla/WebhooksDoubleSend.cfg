\* An attempt outlasts its lease.
SPECIFICATION Spec
CONSTANTS
    Deliveries = {d1}
    OAuth = {d1}
    Workers = {w1, w2}
    NoJob = NoJob
    MaxAttempts = 2
    Backoff <- BackoffSeconds
    Lease = 2
    MaxSend = 3
    KeepResult = 2
    MaxFaults = 0
INVARIANT
    OneSender
CHECK_DEADLOCK FALSE
