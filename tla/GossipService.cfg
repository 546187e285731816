\* Every estimate, every failure, up to three calls of Serve.
SPECIFICATION Spec
CONSTANTS
  Topics <- MCTopics
  Estimates <- MCEstimates
  SlotsPerEpoch = 32
  TargetCommitteeSize = 128
  MaxCommitteesPerSlot = 64
  TargetAggregatorsPerCommittee = 16
  AttestationSubnetCount = 64
  SyncCommitteeSize = 512
  SyncCommitteeSubnetCount = 4
  TargetAggregatorsPerSyncSubcommittee = 16
  MaxAttempts = 3
INVARIANTS
  RunsOnlyAboveMinimum
  RestartNeverRecovers
  OneSubscriptionPerTopic
\* A rejected estimate, the end of Serve and the last attempt stop the model.
CHECK_DEADLOCK FALSE
