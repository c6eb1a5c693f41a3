\* Calls and cleanups later than every timeout, metadata not written; no other faults.
SPECIFICATION FairSpec
CONSTANTS
    Numbers = {n1}
    NoNumber = NoNumber
    Preferred = {n1}
    Runs = {r1, r2}
    NoRun = NoRun
    Dispatchers = {a1}
    Cleaners = {b1}
    StaleTimeout = 2
    PoolTTL = 3
    MappingTTL = 3
    MaxBatch = 2
    MaxUse = 2
    Repeated = TRUE
    RedisFaults = FALSE
    DbFaults = TRUE
    Crashes = FALSE
    Horizon = 4
INVARIANT
    NoNumberForgotten
PROPERTY
    EndedCallsReturnNumbers
CHECK_DEADLOCK FALSE
