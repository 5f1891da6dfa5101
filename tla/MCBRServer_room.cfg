SPECIFICATION BRSpec
CONSTANTS
    Clients = {c1, c2}
    Body = 2
    QueueMax = 2
    Split = TRUE
    MaxInputs = 3
    MaxPushes = 0
    c1 = c1
    c2 = c2
    NoClient = NoClient
SYMMETRY ClientSymmetry
CHECK_DEADLOCK FALSE
INVARIANTS BRTypeOK Realigned HandshakePrivate NoRevert InputOrder
