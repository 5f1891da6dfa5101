SPECIFICATION LogLiveSpec
CHECK_DEADLOCK FALSE
CONSTANTS
  Senders = {1, 2}
  Master = 1
  QueueSize = 2
  Batch = 1
  SockSize = 1
  MaxTracked = 1
  MaxRecords = 3
  MaxLives = 2
INVARIANTS
  LogTypeOK RecordsAccounted LogOrdered GapsExact
PROPERTIES
  MasterDrains
