------------------------------ MODULE MCStartup -----------------------------
(***************************************************************************)
(* Startup with one value of each flag for every way a constructor can     *)
(* treat it.                                                               *)
(***************************************************************************)
EXTENDS Startup
=============================================================================
