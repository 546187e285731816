--------------------------- MODULE MCSubscriptions --------------------------
(***************************************************************************)
(* Subscriptions with two topics.                                          *)
(***************************************************************************)
EXTENDS Subscriptions
=============================================================================
