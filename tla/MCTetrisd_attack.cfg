SPECIFICATION PlaySpec
CHECK_DEADLOCK FALSE
CONSTANTS
  MaxRooms = 3
  MaxLobby = 2
  RoomSize = 2
  MaxClients = 5
  MaxSpawns = 3
  MaxAttacks = 1
  MaxCrashes = 1
  StaleClients = FALSE
INVARIANTS
  FeedOnce GarbageRouted
PROPERTIES
  LosersAreOut
