SPECIFICATION LiveSpec
CONSTANTS
    Players = {1, 2}
    Clients = {1}
    Winners = {0, 1, 3}
    KeepaliveTicks = 1
    MaxChanges = 1
    MaxKeys = 2
    MaxLag = 2
CHECK_DEADLOCK FALSE
INVARIANTS
    ViewTypeOK SurvivorSeesWinner
PROPERTIES
    MirrorForward BoardShown OverLeaves QuitLeaves
