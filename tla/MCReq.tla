------------------------------- MODULE MCReq -------------------------------
(* Instances of Req for TLC: two peers, a few requests. *)
EXTENDS Req
=============================================================================
