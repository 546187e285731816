------------------------------ MODULE MCRollup ------------------------------
(***************************************************************************)
(* Rollup with two slots an hour; the slots' starts are off the hour's.    *)
(***************************************************************************)
EXTENDS Rollup

MCSlots == 0..3
=============================================================================
