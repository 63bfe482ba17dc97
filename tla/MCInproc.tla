------------------------------ MODULE MCInproc ------------------------------
(* Instances of Inproc for TLC: two threads, two messages each way.        *)
EXTENDS Inproc
=============================================================================
