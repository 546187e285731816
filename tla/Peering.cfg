\* Two peers, a target of two, with fairness.
SPECIFICATION FairSpec
CONSTANTS
  p1 = p1
  p2 = p2
  Peers = {p1, p2}
  Nodes <- MCNodes
  Self = Self
  NoNode = NoNode
  Target = 2
  MaxFaults = 2
INVARIANTS
  DroppedForAReason
PROPERTIES
  NoDialAfterClose
  NoDialWhenFull
  DiscoveryRecovers
  DialerRestartsForEver
  PeeringStops
CHECK_DEADLOCK FALSE
