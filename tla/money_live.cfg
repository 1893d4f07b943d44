SPECIFICATION FairSpec
CONSTANTS
  Nominals = {1}
  Alien = 0
  Inserted = {1}
  Payable = {1}
  FullTubes = 0
  Routing = {"tubes"}
  QuietStatuses = {}
  MaxItems = 2
  Budget <- LiveBudget
  DispenseLimit = 2
  CountRange = 8
  BillRunning = TRUE
  Prices = {}
PROPERTIES NoticesHandled AbortsReturn
