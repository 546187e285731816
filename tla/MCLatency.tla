------------------------------ MODULE MCLatency -----------------------------
(***************************************************************************)
(* Latency with Durations of 7 bits, latencies of 4 bits, two nanoseconds  *)
(* a millisecond and eight a slot: slot 8 is the first that overflows.     *)
(***************************************************************************)
EXTENDS Latency

MCSlots == (0..10) \cup (62..66) \cup {126, 127}
MCTimes == 0..70
=============================================================================
