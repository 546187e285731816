CONSTANTS
  HalfRange = 64
  Uint32 = 16
  Second = 4
  Millisecond = 2
  SecondsPerSlot = 2
  GenesisTimeNS = 3
  LimitMS = 4
  MessageSlots <- MCSlots
  Times <- MCTimes
SPECIFICATION LatencySpec
INVARIANT
  LatencyIsArrivalDelay
