\* Pubsub forgets IDs: a slot message that arrives twice and one that does not
\* decode and arrives once, under fairness.
SPECIFICATION FairSpec
CONSTANTS
  a1 = a1
  a2 = a2
  b = b
  x = x
  bad = bad
  Messages = {a1, bad}
  Topics <- MCTopics
  TopicOf <- MCTopicOf
  KindOf <- MCKindOf
  SlotOf <- MCSlotOf
  SecondsPerSlot = 2
  GenesisTime = 4
  MaxUint64 = 99
  NotifyCap = 1
  MayForget = TRUE
  MaxTime = 5
  MaxCopies <- MCCopies
INVARIANTS
  SeenConserved
  DeliveriesConserved
PROPERTIES
  CompletedSlotsLeaveCache
  ServeReturns
\* The program stops after a termination signal.
CHECK_DEADLOCK FALSE
