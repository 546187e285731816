CONSTANTS
  SubTopics = {t1, t2}
  Buffer = 2
  MaxPanics = 4
SPECIFICATION FairSpec
INVARIANTS
  PanicIsFinal
PROPERTIES
  RestartedForEver
  AllStop
CHECK_DEADLOCK FALSE
