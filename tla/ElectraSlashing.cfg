\* The second Electra case of the attester slashing handler.
SPECIFICATION Spec
CONSTANTS
  ForkEpoch <- MCForkEpoch
  SubnetCount <- MCSubnetCount
  MaxEpoch = 14
INVARIANTS
  ElectraSlashingsAreElectra
\* The chain stops at MaxEpoch, but messages keep coming.
CHECK_DEADLOCK TRUE
