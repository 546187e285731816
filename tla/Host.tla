-------------------------------- MODULE Host --------------------------------
(***************************************************************************)
(* The peer counts of host/host.go.  The connections of the libp2p network *)
(* are pairs of a remote peer and a direction.  Two peers that dial each   *)
(* other at the same time have a connection in each direction, so a count  *)
(* of peers is not a count of connections.                                 *)
(***************************************************************************)
EXTENDS Integers, FiniteSets

Directions == {"in", "out"}

\* The peers of a set of connections: the keys of the map each count builds.
RemotePeers(conns) == {c[1] : c \in conns}

\* Mutant: connections are counted.
ConnectionCount(conns) == Cardinality(conns)

TotalPeerCount(conns) == Cardinality(RemotePeers(conns))

InboundPeerCount(conns) ==
  Cardinality(RemotePeers({c \in conns : c[2] = "in"}))

OutboundPeerCount(conns) ==
  Cardinality(RemotePeers({c \in conns : c[2] = "out"}))
=============================================================================
