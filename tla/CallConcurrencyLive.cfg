\* A limit of one and no faults: stale cutoffs, key and mapping expiry, call durations.
SPECIFICATION FairSpec
CONSTANTS
    Orgs = {o1}
    NoOrg = NoOrg
    Scopes = {c1}
    NoScope = NoScope
    Runs = {r1, r2}
    NoRun = NoRun
    Slots = {s1, s2}
    NoSlot = NoSlot
    Starters = {a1}
    Cleaners = {b1}
    OrgLimits = {1}
    ScopeLimits = {1}
    StaleTimeout = 3
    KeyTTL = 4
    MappingTTL = 3
    MaxSetup = 1
    MaxDuration = 0
    RedisFaults = FALSE
    Crashes = FALSE
    Horizon = 4
INVARIANTS
    CallsWithinLimit
    NoSlotForgotten
PROPERTIES
    ImplementsAdmission
    EndedCallsFreeTheirSlots
CHECK_DEADLOCK FALSE
