\* Every interleaving of starts, cleanups, lost answers and cancellations; no time.
SPECIFICATION Spec
CONSTANTS
    Orgs = {o1}
    NoOrg = NoOrg
    Scopes = {c1}
    NoScope = NoScope
    Runs = {r1, r2}
    NoRun = NoRun
    Slots = {s1, s2, s3}
    NoSlot = NoSlot
    Starters = {a1}
    Cleaners = {b1, b2}
    OrgLimits = {2}
    ScopeLimits = {1}
    StaleTimeout = 3
    KeyTTL = 4
    MappingTTL = 3
    MaxSetup = 1
    MaxDuration = 0
    RedisFaults = TRUE
    Crashes = TRUE
    Horizon = 0
SYMMETRY SlotSymmetry
INVARIANTS
    TypeOK
    OrgWithinLimit
    ScopeCapsOrgEntries
    FleetNeverUndercounts
    BoundSlotRecoverable
    OneCallPerRun
CHECK_DEADLOCK FALSE
