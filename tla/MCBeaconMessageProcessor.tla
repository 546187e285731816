---------------------- MODULE MCBeaconMessageProcessor ----------------------
(***************************************************************************)
(* Small instances of BeaconMessageProcessor.  Two attestations of slot 0  *)
(* share a topic and a slot, a block is of slot 1, a proposer slashing is  *)
(* a general message and a malformed attestation fails to decode.  Slots   *)
(* last two seconds.  A message arrives at most twice; where MCCopies is   *)
(* used the block and the malformed attestation arrive once.               *)
(***************************************************************************)
EXTENDS BeaconMessageProcessor

CONSTANTS a1, a2, b, x, bad

MCTopicOf == [m \in Messages |-> CASE m \in {a1, a2, bad} -> "attestation"
                                   [] m = b -> "block"
                                   [] m = x -> "proposer_slashing"]
MCTopics == {MCTopicOf[m] : m \in Messages}
MCKindOf == [m \in Messages |-> CASE m \in {a1, a2, b} -> "slot"
                                  [] m = x -> "general"
                                  [] m = bad -> "rejected"]
MCTwoCopies == [m \in Messages |-> 2]
MCCopies == [m \in Messages |-> IF m \in {b, bad} THEN 1 ELSE 2]
MCSlotOf == [m \in Messages |-> IF m = b THEN 1 ELSE 0]
=============================================================================
