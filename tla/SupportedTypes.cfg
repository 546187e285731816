\* Messages of every topic that the README lists as supported.
SPECIFICATION Spec
CONSTANTS
  ForkEpoch <- MCForkEpoch
  SubnetCount <- MCSubnetCount
  MaxEpoch = 14
INVARIANTS
  SupportedTypesDecode
\* The chain stops at MaxEpoch, but messages keep coming.
CHECK_DEADLOCK TRUE
