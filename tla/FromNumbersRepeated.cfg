\* Two status callbacks of one call overlap.
SPECIFICATION Spec
CONSTANTS
    Numbers = {n1}
    NoNumber = NoNumber
    Preferred = {n1}
    Runs = {r1, r2}
    NoRun = NoRun
    Dispatchers = {a1, a2}
    Cleaners = {b1, b2}
    StaleTimeout = 3
    PoolTTL = 9
    MappingTTL = 4
    MaxBatch = 0
    MaxUse = 1
    Repeated = TRUE
    RedisFaults = FALSE
    DbFaults = FALSE
    Crashes = FALSE
    Horizon = 1
INVARIANT
    NumberExclusive
CHECK_DEADLOCK FALSE
