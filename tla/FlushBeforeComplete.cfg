\* A batch is drained while its slot still runs.
SPECIFICATION Spec
CONSTANTS
  a1 = a1
  a2 = a2
  b = b
  x = x
  bad = bad
  Messages = {a1}
  Topics <- MCTopics
  TopicOf <- MCTopicOf
  KindOf <- MCKindOf
  SlotOf <- MCSlotOf
  SecondsPerSlot = 2
  GenesisTime = 4
  MaxUint64 = 99
  NotifyCap = 1
  MayForget = FALSE
  MaxTime = 6
  MaxCopies <- MCTwoCopies
INVARIANTS
  FlushedOnceComplete
\* The program stops after a termination signal.
CHECK_DEADLOCK FALSE
