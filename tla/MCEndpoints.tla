------------------------------ MODULE MCEndpoints ------------------------------
(* Instances of Endpoints for TLC: three connections at a time, of which one   *)
(* waits for a peer, and one more read of a response.                          *)
EXTENDS Endpoints

\* A session starts with nothing of the last one, as nn_sws_recv_hdr asserts.
\* (The run shows that it does not.)
StartsAfresh == "left" \notin m.odd
=============================================================================
