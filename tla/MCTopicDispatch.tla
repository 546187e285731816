--------------------------- MODULE MCTopicDispatch ---------------------------
(***************************************************************************)
(* An instance of TopicDispatch in which a fork is activated every second  *)
(* epoch, so that an epoch without a fork lies between any two, and the    *)
(* subnet topics have two subnets each.                                    *)
(***************************************************************************)
EXTENDS TopicDispatch

MCForkEpoch == [f \in Range(Upgrades) |->
                  2 * SelectInSeq(Upgrades, LAMBDA g : g = f)]
MCSubnetCount == [n \in {"blob_sidecar", "beacon_attestation",
                         "sync_committee"} |-> 2]
=============================================================================
