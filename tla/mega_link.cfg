SPECIFICATION FairSpec
CONSTANTS
  RESPONSE_MAX_LENGTH = 8
  Hello = 3
  Results = {4}
  Burst = 2
  MaxRequests = 1
  MaxOutside = 1
INVARIANTS MegaTypeOK AnswersSurvive TakenInOrder DeafOnlyWhenFull CommandsExecuted
PROPERTIES DoReturns TransfersEnd
