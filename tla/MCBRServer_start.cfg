SPECIFICATION BRSpec
CONSTANTS
    Clients = {c1, c2}
    Body = 2
    QueueMax = 1
    Split = TRUE
    MaxInputs = 2
    MaxPushes = 1
    c1 = c1
    c2 = c2
    NoClient = NoClient
CHECK_DEADLOCK FALSE
INVARIANT StartHeard
