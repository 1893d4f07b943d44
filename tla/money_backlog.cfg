SPECIFICATION FairSpec
CONSTANTS
  Nominals = {1}
  Alien = 0
  Inserted = {1}
  Payable = {1}
  FullTubes = 4
  Routing = {"tubes"}
  QuietStatuses = {}
  MaxItems = 2
  Budget <- BacklogBudget
  DispenseLimit = 4
  CountRange = 8
  BillRunning = TRUE
  Prices = {}
PROPERTIES NoticesHandled
CHECK_DEADLOCK FALSE
