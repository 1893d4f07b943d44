SPECIFICATION FairSpec
CONSTANTS
  Block = 2
  TickRange = 6
  MDB_TIMEOUT = 2
  TIMEOUT_CHAR = 1
  TIMEOUT_RECEIVE = 1
  TIMEOUT_SMALL = 1
  MaxDelay = 2
  MaxTx = 2
  MaxFaults = 1
CHECK_DEADLOCK FALSE
INVARIANTS TypeOK OwnAnswer StaleMarksNeedLongReads PortHeld WavesAreOwned
PROPERTIES NoEarlyTimeout WaitEnds
