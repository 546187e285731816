----------------------------- MODULE MCPeering ------------------------------
(***************************************************************************)
(* Peering with small sets of model values.                                *)
(***************************************************************************)
EXTENDS Peering

CONSTANTS p1, p2

\* Every ID with a usable record, and with one of each kind of unusable ones.
MCNodes ==
  {[ID |-> i, private |-> FALSE, key |-> TRUE, ip |-> "ip4"] :
     i \in Peers \cup {Self}}
  \cup
  {[ID |-> i, private |-> TRUE, key |-> TRUE, ip |-> "ip4"] : i \in Peers}
  \cup
  {[ID |-> i, private |-> FALSE, key |-> FALSE, ip |-> "ip6"] : i \in Peers}
  \cup
  {[ID |-> i, private |-> FALSE, key |-> TRUE, ip |-> "none"] : i \in Peers}
=============================================================================
