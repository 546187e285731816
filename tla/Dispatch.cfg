\* Every fork, every topic, every moment of starting the program.
SPECIFICATION Spec
CONSTANTS
  ForkEpoch <- MCForkEpoch
  SubnetCount <- MCSubnetCount
  MaxEpoch = 14
INVARIANTS
  SwitchesAgree
  DecodesForkOfTopic
  EveryMessageClassified
\* The chain stops at MaxEpoch, but messages keep coming.
CHECK_DEADLOCK TRUE
