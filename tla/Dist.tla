-------------------------------- MODULE Dist --------------------------------
(* The distributor (protocols/utils/dist.c) of the protocols that send to   *)
(* everybody: the set of the pipes that can take a message right now.  A    *)
(* pipe leaves it when it is given a message and comes back when it reports *)
(* that it can take another one.                                            *)
EXTENDS Naturals, FiniteSets

\* nn_dist_out inserts the pipe; nn_list_insert asserts that it is not there.
DistOutFails(list, p) == p \in list
DistOut(list, p) == list \cup {p}

\* Faulty variant: a pipe that goes away stays in the list.
DistRmKeeps(list, p) == list

\* nn_dist_rm
DistRm(list, p) == list \ {p}

\* nn_dist_send: who is sent a copy, all but the pipe the message came from.
\* Pipes that are not in the list miss it.
Receivers(list, exclude) == list \ exclude

\* What is left when full are those that cannot take another one at once.
DistSent(list, full) == list \ full
=============================================================================
