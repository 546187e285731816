------------------------------ MODULE MCPrune -------------------------------
(***************************************************************************)
(* Prune with small sets of model values.                                  *)
(***************************************************************************)
EXTENDS Prune, TLC

CONSTANTS p1, p2, p3

TwoPeers == {p1, p2}
ThreePeers == {p1, p2, p3}

InboundLinks == Peers \X {"in"}
AllLinks == Peers \X Directions

\* Bad, and better than no score at all, which counts as 0.
MCScores == {-2, 1}

MCThreshold == -1

\* Peers are interchangeable.
Symmetry == Permutations(Peers)
=============================================================================
