\* Two workers, the sweeper and faults; an attempt ends before its lease.
SPECIFICATION FairSpec
CONSTANTS
    Deliveries = {d1}
    OAuth = {d1}
    Workers = {w1, w2}
    NoJob = NoJob
    MaxAttempts = 2
    Backoff <- BackoffSeconds
    Lease = 2
    MaxSend = 1
    KeepResult = 2
    MaxFaults = 1
INVARIANTS
    TypeOK
    OneSender
    AcceptedOnce
PROPERTIES
    TerminalIsFinal
    EveryDeliveryConcluded
CHECK_DEADLOCK FALSE
