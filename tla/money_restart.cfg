SPECIFICATION Spec
CONSTANTS
  Nominals = {1}
  Alien = 0
  Inserted = {0, 1}
  Payable = {1}
  FullTubes = 1
  Routing = {"cashbox"}
  QuietStatuses <- MCQuiet
  MaxItems = 1
  Budget <- RestartBudget
  DispenseLimit = 4
  CountRange = 8
  BillRunning = FALSE
  Prices = {}
INVARIANTS CreditIsExact NoPanic
CHECK_DEADLOCK FALSE
