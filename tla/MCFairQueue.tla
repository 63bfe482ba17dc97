---------------------------- MODULE MCFairQueue ----------------------------
(* Three pipes, queues of at most two messages.  MCNSlots = 2 lets a higher *)
(* priority preempt a lower one in the middle of a round.                  *)
EXTENDS FairQueue

CONSTANTS p1, p2, p3
MCPipe == {p1, p2, p3}
MCNSlots == 2
=============================================================================
