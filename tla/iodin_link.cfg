SPECIFICATION FairSpec
CONSTANTS
  c1 = c1
  c2 = c2
  Callers = {c1, c2}
  MaxDo = 8
  MaxLong = 2
  None = None
CHECK_DEADLOCK FALSE
INVARIANTS LinkTypeOK PipeHoldsOwnAnswer
PROPERTIES KeepsPromise ServerEnds
