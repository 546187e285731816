\* Two slot messages of the same slot, which share a batch.
SPECIFICATION Spec
CONSTANTS
  a1 = a1
  a2 = a2
  b = b
  x = x
  bad = bad
  Messages = {a1, a2}
  Topics <- MCTopics
  TopicOf <- MCTopicOf
  KindOf <- MCKindOf
  SlotOf <- MCSlotOf
  SecondsPerSlot = 2
  GenesisTime = 4
  MaxUint64 = 99
  NotifyCap = 1
  MayForget = FALSE
  MaxTime = 5
  MaxCopies <- MCTwoCopies
INVARIANTS
  TypeOK
  NeverGuessed
  ProcessedOnce
PROPERTIES
  ImplementsLedger
\* The program stops after a termination signal.
CHECK_DEADLOCK FALSE
