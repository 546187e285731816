\* As Peering.cfg: discovery does not wait for the dialer for ever.
SPECIFICATION FairSpec
CONSTANTS
  p1 = p1
  p2 = p2
  Peers = {p1, p2}
  Nodes <- MCNodes
  Self = Self
  NoNode = NoNode
  Target = 2
  MaxFaults = 2
INVARIANTS
  TypeOK
  NoListenerLeftBehind
PROPERTIES
  NodeTaken
CHECK_DEADLOCK FALSE
