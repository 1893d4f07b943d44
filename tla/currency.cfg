SPECIFICATION Spec
CONSTANTS
  Groups <- TwoGroups
  CountRange = 3
  MaxAmount = 7
INVARIANTS CurrencyTypeOK NothingLost SaysWhetherPayable
PROPERTIES CheckedCommits
