------------------------------ MODULE PrioSet ------------------------------
(***************************************************************************)
(* What a prioritised pipe list promises to the load balancer and to the   *)
(* fair queuer that use it (priolist.h, lb.h, fq.h): the pipe handed out   *)
(* is always a ready one, and never one of a lower priority than some      *)
(* other ready pipe.  Smaller numbers are higher priorities, 0 stands for  *)
(* a pipe that is not attached.  In which order pipes of one priority are  *)
(* served is left open here.                                               *)
(***************************************************************************)
EXTENDS Integers

CONSTANTS Pipe,     \* the pipes of the socket
          NSlots,   \* the number of priority levels
          NULL      \* no pipe

VARIABLES prio,     \* the priority each pipe is attached with, 0 if it is not
          ready,    \* the pipes that can be used right now
          picked    \* the pipe used by the last step, NULL if it used none

absvars == <<prio, ready, picked>>

AbsInit ==
    /\ prio = [p \in Pipe |-> 0]
    /\ ready = {}
    /\ picked = NULL

Attach(p) ==
    /\ prio[p] = 0
    /\ \E k \in 1..NSlots : prio' = [prio EXCEPT ![p] = k]
    /\ picked' = NULL
    /\ UNCHANGED ready

Ready(p) ==
    /\ prio[p] # 0
    /\ p \notin ready
    /\ ready' = ready \cup {p}
    /\ picked' = NULL
    /\ UNCHANGED prio

\* Use a pipe of the highest priority; it may or may not stay ready.
Use(p) ==
    /\ p \in ready
    /\ \A q \in ready : prio[p] <= prio[q]
    /\ picked' = p
    /\ ready' \in {ready, ready \ {p}}
    /\ UNCHANGED prio

Detach(p) ==
    /\ prio[p] # 0
    /\ prio' = [prio EXCEPT ![p] = 0]
    /\ ready' = ready \ {p}
    /\ picked' = NULL

\* There is nothing to use: the caller gets EAGAIN.
UseNone ==
    /\ ready = {}
    /\ picked' = NULL
    /\ UNCHANGED <<prio, ready>>

AbsNext ==
    \/ \E p \in Pipe : Attach(p) \/ Ready(p) \/ Use(p) \/ Detach(p)
    \/ UseNone

AbsSpec == AbsInit /\ [][AbsNext]_absvars
=============================================================================
