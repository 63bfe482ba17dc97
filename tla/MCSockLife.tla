----------------------------- MODULE MCSockLife -----------------------------
(* Instances of SockLife for TLC. *)
EXTENDS SockLife, TLC

\* Threads are interchangeable, and so are the socket objects.
MCSymmetry == Permutations(Thread) \cup Permutations(Sock)
=============================================================================
