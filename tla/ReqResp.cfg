CONSTANTS
  Window = 1
  MaxSent = 3
SPECIFICATION FairSpec
INVARIANTS
  SuccessMeansAnswered
  HandlersFit
PROPERTY
  HandlerReturns
CHECK_DEADLOCK FALSE
