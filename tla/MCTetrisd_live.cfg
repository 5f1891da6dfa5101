SPECIFICATION LiveSpec
CHECK_DEADLOCK FALSE
CONSTANTS
  MaxRooms = 2
  MaxLobby = 2
  RoomSize = 1
  MaxClients = 2
  MaxSpawns = 2
  MaxAttacks = 0
  MaxCrashes = 0
  StaleClients = FALSE
PROPERTIES
  ElimHeard GameOverEndsRoom StopEndsRooms
