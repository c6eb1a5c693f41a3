\* A message on its way while another tab ends the chat.
SPECIFICATION Spec
CONSTANTS
    Requests = {tab1, tab2}
    Workers = {w1}
    NoTurn = NoTurn
    MaxTurns = 2
    MaxRequests = 2
    Timeout = 1
    Lookback = 1
    MaxFaults = 0
PROPERTY
    EndWins
CHECK_DEADLOCK FALSE
