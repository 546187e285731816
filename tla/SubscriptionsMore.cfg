\* As Subscriptions.cfg: the other topics.
CONSTANTS
  SubTopics = {t1, t2}
  Buffer = 2
  MaxPanics = 4
SPECIFICATION FairSpec
INVARIANTS
  SubTypeOK
  OnlyPanicsCancel
PROPERTIES
  QueuesDrain
CHECK_DEADLOCK FALSE
