------------------------------- MODULE Duplex -------------------------------
(***************************************************************************)
(* What a connection of two pipes promises to the two sockets (pipe.c,     *)
(* transport.h): each direction is a reliable first-in first-out channel   *)
(* while both pipes are up; an end that goes down loses what it had not    *)
(* received yet and stays down.                                            *)
(***************************************************************************)
EXTENDS Naturals, Sequences

CONSTANT End          \* the two ends

VARIABLES pipe,       \* each end's pipe: "NONE", "UP" or "DOWN"
          chan,       \* what each end has still to receive
          nsent,      \* how many messages each end sent
          taken       \* the message each end received last

duplexvars == <<pipe, chan, nsent, taken>>

DInit ==
    /\ pipe = [s \in End |-> "NONE"]
    /\ chan = [s \in End |-> <<>>]
    /\ nsent = [s \in End |-> 0]
    /\ taken = [s \in End |-> 0]

\* The pipe comes up; a message of a peer that came up first may be waiting.
Up(s) ==
    /\ pipe[s] = "NONE"
    /\ pipe' = [pipe EXCEPT ![s] = "UP"]
    /\ UNCHANGED <<chan, nsent, taken>>

\* A message is sent, perhaps by a pipe that has just come up; it reaches the
\* other end unless that is down.
Transfer(s) ==
    /\ pipe[s] # "DOWN"
    /\ pipe' = [pipe EXCEPT ![s] = "UP"]
    /\ nsent' = [nsent EXCEPT ![s] = @ + 1]
    /\ chan' = [r \in End |-> IF r = s \/ pipe[r] = "DOWN" THEN chan[r]
                             ELSE Append(chan[r], nsent[s] + 1)]
    /\ UNCHANGED taken

Take(s) ==
    /\ pipe[s] = "UP"
    /\ chan[s] # <<>>
    /\ taken' = [taken EXCEPT ![s] = Head(chan[s])]
    /\ chan' = [chan EXCEPT ![s] = Tail(@)]
    /\ UNCHANGED <<pipe, nsent>>

Down(s) ==
    /\ pipe[s] # "DOWN"
    /\ pipe' = [pipe EXCEPT ![s] = "DOWN"]
    /\ chan' = [chan EXCEPT ![s] = <<>>]
    /\ UNCHANGED <<nsent, taken>>

DNext == \E s \in End : Up(s) \/ Transfer(s) \/ Take(s) \/ Down(s)

DSpec == DInit /\ [][DNext]_duplexvars
=============================================================================
