------------------------------ MODULE Requests ------------------------------
(***************************************************************************)
(* What a REQ socket promises to its user (req.c, task.h): a new request   *)
(* replaces the one in progress, a request is answered only after some     *)
(* peer was sent it, and what the user receives answers the request he     *)
(* submitted last, once.                                                   *)
(***************************************************************************)
EXTENDS Naturals

CONSTANT NoReply      \* the user has received nothing yet

VARIABLES current,    \* the number of the last request
          phase,      \* "none", "waiting" or "answered"
          sent,       \* the requests some peer was ever sent
          got         \* the reply the user received last

reqvars == <<current, phase, sent, got>>

RInit ==
    /\ current = 0
    /\ phase = "none"
    /\ sent = {}
    /\ got = NoReply

\* The user submits a request; it may leave at once.
Submit ==
    /\ current' = current + 1
    /\ phase' = "waiting"
    /\ sent' \in {sent, sent \cup {current + 1}}
    /\ UNCHANGED got

\* The request is sent (again).
Transmit ==
    /\ phase = "waiting"
    /\ sent' = sent \cup {current}
    /\ UNCHANGED <<current, phase, got>>

Answer ==
    /\ phase = "waiting"
    /\ current \in sent
    /\ phase' = "answered"
    /\ UNCHANGED <<current, sent, got>>

\* The user receives the reply to the current request.
Take ==
    /\ phase = "answered"
    /\ phase' = "none"
    /\ got' = [id |-> current, to |-> current, live |-> TRUE]
    /\ UNCHANGED <<current, sent>>

\* The socket is closed.
Abandon ==
    /\ phase' = "none"
    /\ UNCHANGED <<current, sent, got>>

RNext == Submit \/ Transmit \/ Answer \/ Take \/ Abandon

RSpec == RInit /\ [][RNext]_reqvars
=============================================================================
