\* Two peers, each with up to two connections, with fairness.
SPECIFICATION FairSpec
CONSTANTS
  p1 = p1
  p2 = p2
  p3 = p3
  Peers <- TwoPeers
  Links <- AllLinks
  Scores <- MCScores
  Threshold <- MCThreshold
  Target = 1
  MaxLeft = 1
INVARIANTS
  KeepsTarget
  NoBadPeerLeft
PROPERTIES
  BadPeersGo
CHECK_DEADLOCK FALSE
