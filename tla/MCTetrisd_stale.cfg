SPECIFICATION Spec
CHECK_DEADLOCK FALSE
CONSTANTS
  MaxRooms = 2
  MaxLobby = 2
  RoomSize = 2
  MaxClients = 5
  MaxSpawns = 3
  MaxAttacks = 0
  MaxCrashes = 1
  StaleClients = TRUE
INVARIANTS
  IdsUnique
