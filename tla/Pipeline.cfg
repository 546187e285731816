\* Two slot messages of different slots and topics and a general message,
\* two copies of each but the block, which arrives once.
SPECIFICATION Spec
CONSTANTS
  a1 = a1
  a2 = a2
  b = b
  x = x
  bad = bad
  Messages = {a1, b, x}
  Topics <- MCTopics
  TopicOf <- MCTopicOf
  KindOf <- MCKindOf
  SlotOf <- MCSlotOf
  SecondsPerSlot = 2
  GenesisTime = 6
  MaxUint64 = 99
  NotifyCap = 1
  MayForget = FALSE
  MaxTime = 6
  MaxCopies <- MCCopies
INVARIANTS
  TypeOK
  SeenConserved
  DeliveriesConserved
  FlushLeavesOnlyLate
PROPERTIES
  OrphansStay
  ImplementsLedger
\* The program stops after a termination signal.
CHECK_DEADLOCK FALSE
