SPECIFICATION LiveSpec
CHECK_DEADLOCK FALSE
CONSTANTS
  MaxRooms = 2
  MaxLobby = 2
  RoomSize = 2
  MaxClients = 3
  MaxSpawns = 1
  MaxAttacks = 0
  MaxCrashes = 1
  StaleClients = FALSE
INVARIANTS
  TypeOK LobbyFits NoEarlyRedirect
PROPERTIES
  StartObeyed
