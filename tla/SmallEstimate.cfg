\* A positive estimate that makes params panic.
SPECIFICATION Spec
CONSTANTS
  Topics <- MCTopics
  Estimates <- MCEstimates
  SlotsPerEpoch = 32
  TargetCommitteeSize = 128
  MaxCommitteesPerSlot = 64
  TargetAggregatorsPerCommittee = 16
  AttestationSubnetCount = 64
  SyncCommitteeSize = 512
  SyncCommitteeSubnetCount = 4
  TargetAggregatorsPerSyncSubcommittee = 16
  MaxAttempts = 3
INVARIANT AcceptedEstimateScores
CHECK_DEADLOCK FALSE
