SPECIFICATION Spec
CONSTANTS
  Nominals = {1, 2}
  Alien = 0
  Inserted = {1, 2}
  Payable = {1, 2}
  FullTubes = 0
  Routing = {"tubes"}
  QuietStatuses = {}
  MaxItems = 2
  Budget <- CoreBudget
  DispenseLimit = 2
  CountRange = 2
  BillRunning = TRUE
  Prices = {1}
INVARIANTS TypeOK PipelineInOrder CoinsBookedOnce LeverCoversEarlierCoins CreditIsExact
PROPERTIES PayoutsNeverOverlap ErasedOnlyAfterPayout
