\* Redis fails, workers die; numbers grow stale and the pool's key expires.
SPECIFICATION Spec
CONSTANTS
    Numbers = {n1}
    NoNumber = NoNumber
    Preferred = {}
    Runs = {r1, r2}
    NoRun = NoRun
    Dispatchers = {a1, a2}
    Cleaners = {b1}
    StaleTimeout = 2
    PoolTTL = 3
    MappingTTL = 2
    MaxBatch = 1
    MaxUse = 1
    Repeated = FALSE
    RedisFaults = TRUE
    DbFaults = FALSE
    Crashes = TRUE
    Horizon = 4
SYMMETRY NumberSymmetry
INVARIANTS
    TypeOK
    ExclusiveUnlessSpoilt
CHECK_DEADLOCK FALSE
