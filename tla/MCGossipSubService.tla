------------------------- MODULE MCGossipSubService -------------------------
(***************************************************************************)
(* GossipSubService with the numbers of the mainnet configuration, one     *)
(* topic of each kind and two of each kind of subnet topic.  The estimates *)
(* lie on both sides of every threshold: none, no validator on a subnet,   *)
(* none in a slot, a message rate of zero, infinite weights, the least     *)
(* that works, and the default.                                            *)
(***************************************************************************)
EXTENDS GossipSubService

MCTopics == <<"beacon_block", "beacon_aggregate_and_proof",
              "beacon_attestation", "beacon_attestation",
              "sync_committee_contribution_and_proof",
              "sync_committee", "sync_committee", "voluntary_exit">>
MCEstimates == {0, 1, 63, 64, 2047, 2048, 6143, 6144, 184319, 184320,
                1000000}
=============================================================================
