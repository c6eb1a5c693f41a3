\* Two tabs and a worker, a rewind, faults anywhere.
SPECIFICATION FairSpec
CONSTANTS
    Requests = {tab1, tab2}
    Workers = {w1}
    NoTurn = NoTurn
    MaxTurns = 3
    MaxRequests = 3
    Timeout = 1
    Lookback = 2
    MaxFaults = 1
INVARIANTS
    TypeOK
    SnapshotsAgree
    NoTurnLost
    AnsweredFromBranch
PROPERTIES
    ImplementsTurnLog
    AbandonedEnds
    EndedIsProcessed
CHECK_DEADLOCK FALSE
