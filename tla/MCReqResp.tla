------------------------------ MODULE MCReqResp -----------------------------
(***************************************************************************)
(* ReqResp with a window that a response does not fit into.                *)
(***************************************************************************)
EXTENDS ReqResp
=============================================================================
