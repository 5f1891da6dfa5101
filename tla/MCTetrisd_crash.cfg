SPECIFICATION Spec
CHECK_DEADLOCK FALSE
CONSTANTS
  MaxRooms = 2
  MaxLobby = 1
  RoomSize = 1
  MaxClients = 3
  MaxSpawns = 3
  MaxAttacks = 0
  MaxCrashes = 1
  StaleClients = FALSE
INVARIANTS
  IdsUnique NoEmptyStart EliminationConserved RosterFresh OneWinner
PROPERTIES
  ImplementsMatch
