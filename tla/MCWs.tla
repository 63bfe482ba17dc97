-------------------------------- MODULE MCWs --------------------------------
(* A session of PAIR or REQ with own or foreign peers.  Code points of two  *)
(* and four octets in chunks of up to two; three frames over all connections *)
(* of the session.                                                          *)
EXTENDS WsFrames

MCSockets == {"PAIR", "REQ"}
MCOctet == {"L2", "L4", "c"}
=============================================================================
