\* Three peers with one connection each, a target of one.
SPECIFICATION Spec
CONSTANTS
  p1 = p1
  p2 = p2
  p3 = p3
  Peers <- ThreePeers
  Links <- InboundLinks
  Scores <- MCScores
  Threshold <- MCThreshold
  Target = 1
  MaxLeft = 1
SYMMETRY Symmetry
INVARIANTS
  TypeOK
  KeepsTarget
  NoBadPeerLeft
\* The goroutine stops after cancellation.
CHECK_DEADLOCK FALSE
