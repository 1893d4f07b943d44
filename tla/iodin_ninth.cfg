SPECIFICATION Spec
CONSTANTS
  Block = 3
  TickRange = 6
  MDB_TIMEOUT = 2
  TIMEOUT_CHAR = 1
  TIMEOUT_RECEIVE = 1
  TIMEOUT_SMALL = 1
  MaxDelay = 1
  MaxTx = 2
  MaxFaults = 0
CHECK_DEADLOCK FALSE
INVARIANT MarksOnlyTheAddress
