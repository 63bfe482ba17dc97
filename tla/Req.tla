-------------------------------- MODULE Req --------------------------------
(***************************************************************************)
(* A REQ socket (protocols/reqrep/req.c, xreq.c, task.c) with its re-send  *)
(* timer (aio/timer.c) and its pipes.  The user sends requests and         *)
(* receives replies; the request in progress is re-sent when the timer     *)
(* fires or its pipe breaks; replies come back in any order, late or       *)
(* twice; the timer is stopped by a task a worker thread runs later; the   *)
(* socket may be closed at any moment.                                     *)
(*                                                                         *)
(* Every step is one session in the socket's context: the events raised in *)
(* it (PIPE_IN, TIMER_TIMEOUT, TIMER_STOPPED) are handled before it ends.  *)
(* The pipes of the load balancer are a set here: that the one used is of  *)
(* the highest priority is the business of PrioList.                       *)
(***************************************************************************)
EXTENDS Naturals, FiniteSets

CONSTANTS
    Pipe,          \* the connections to peers
    MaxReq,        \* bound: the requests the user submits
    StaleReplies,  \* an old reply may arrive while a reply is stored
    NULL

ASSUME ReqAssumption ==
    /\ MaxReq \in Nat
    /\ StaleReplies \in BOOLEAN
    /\ NULL \notin Pipe

VARIABLES
    sock,     \* the socket: "ACTIVE", "STOPPING_EPS", "STOPPING" or "FINI"
    state,    \* nn_req.state
    id,       \* nn_task.id, which numbers the requests
    reply,    \* nn_task.reply: whose answer, and whether it is still allocated
    timer,    \* nn_task.timer: "IDLE", "ACTIVE" or "STOPPING"
    sent_to,  \* nn_task.sent_to
    pipes,    \* the pipes of the socket
    lb,       \* those the load balancer can send to
    peer,     \* the requests the peer at the end of each pipe may still answer
    got,      \* the reply the user received last
    sent,     \* history: the requests that ever left
    answered, \* history: the requests a reply was accepted for
    aborted   \* an nn_fsm_bad_action or an assertion was hit

reqfsm == <<state, timer, sent_to>>
vars == <<sock, reqfsm, id, reply, pipes, lb, peer, got, sent, answered, aborted>>

Request == 1..MaxReq
Reply == [id : 0..MaxReq, live : BOOLEAN]
NoReply == [id |-> 0, to |-> 0, live |-> FALSE]

Init ==
    /\ sock = "ACTIVE"
    /\ state = "PASSIVE"
    /\ id = 0
    /\ reply = [id |-> 0, live |-> FALSE]
    /\ timer = "IDLE"
    /\ sent_to = NULL
    /\ pipes = {}
    /\ lb = {}
    /\ peer = [p \in Pipe |-> {}]
    /\ got = NoReply
    /\ sent = {}
    /\ answered = {}
    /\ aborted = FALSE

\* nn_req_inprogress
InProgress == state \notin {"IDLE", "PASSIVE", "STOPPING"}

-----------------------------------------------------------------------------
(* Pieces of the handler.  Each gives the next value of some variables.    *)

\* nn_req_action_send, nn_xreq_send_to, nn_timer_start for request n with the
\* pipes of to in the load balancer and the timer in state tm: send, arm the
\* timer, which must be idle, and wait for the reply, or wait for a pipe where
\* that is allowed.  The pipe used leaves the load balancer until it reports
\* NN_PIPE_OUT again.
ActionSend(n, to, tm, allow_delay) ==
    \/ /\ to = {}
       /\ state' = "DELAYED"
       /\ timer' = tm
       /\ lb' = to
       /\ aborted' = ~allow_delay
       /\ UNCHANGED <<sent_to, peer, sent>>
    \/ \E p \in to :
          /\ state' = "ACTIVE"
          /\ timer' = "ACTIVE"
          /\ sent_to' = p
          /\ lb' = to \ {p}
          /\ peer' = [peer EXCEPT ![p] = @ \cup {n}]
          /\ sent' = sent \cup {n}
          /\ aborted' = (tm # "IDLE")

\* Faulty variant: sent_to is not reset.
StopTimerKeepsPipe(next) ==
    /\ timer' = IF timer = "ACTIVE" THEN "STOPPING" ELSE timer
    /\ state' = next
    /\ UNCHANGED sent_to

\* nn_timer_stop, which has an effect only on a running timer, and on to next.
StopTimer(next) ==
    /\ timer' = IF timer = "ACTIVE" THEN "STOPPING" ELSE timer
    /\ sent_to' = NULL
    /\ state' = next

\* nn_fsm_bad_action, nn_fsm_bad_source
Abort == aborted' = TRUE /\ UNCHANGED reqfsm

-----------------------------------------------------------------------------
(* The user.                                                               *)

\* nn_sock_send -> nn_req_csend -> NN_REQ_ACTION_SENT: a new request replaces
\* the one in progress, which is cancelled where it was already sent.
Send ==
    /\ sock = "ACTIVE"
    /\ id < MaxReq
    /\ id' = id + 1
    /\ \/ state \in {"PASSIVE", "DONE"} /\ ActionSend(id + 1, lb, timer, TRUE)
       \/ /\ state = "ACTIVE"
          /\ StopTimer("CANCELLING")
          /\ UNCHANGED <<lb, peer, sent, aborted>>
       \/ /\ state \in {"TIMED_OUT", "STOPPING_TIMER"}
          /\ state' = "CANCELLING"
          /\ UNCHANGED <<timer, sent_to, lb, peer, sent, aborted>>
       \/ /\ state \in {"DELAYED", "CANCELLING"}
          /\ UNCHANGED <<reqfsm, lb, peer, sent, aborted>>
    /\ UNCHANGED <<sock, reply, pipes, got, answered>>

\* Faulty variant: NN_REQ_ACTION_RECEIVED is forgotten.
RecvKeeps ==
    /\ sock = "ACTIVE"
    /\ state = "DONE"
    /\ got' = [id |-> reply.id, to |-> id, live |-> reply.live]
    /\ UNCHANGED <<sock, reqfsm, id, reply, pipes, lb, peer, sent, answered, aborted>>

\* nn_sock_recv -> nn_req_crecv: -EFSM or -EAGAIN, which change nothing,
\* unless a reply is stored (NN_REQ_ACTION_RECEIVED).
Recv ==
    /\ sock = "ACTIVE"
    /\ state = "DONE"
    /\ got' = [id |-> reply.id, to |-> id, live |-> reply.live]
    /\ reply' = [id |-> 0, live |-> FALSE]
    /\ state' = "PASSIVE"
    /\ UNCHANGED <<sock, id, timer, sent_to, pipes, lb, peer, sent, answered, aborted>>

-----------------------------------------------------------------------------
(* The pipes.                                                              *)

\* nn_xreq_add
PipeAdd(p) ==
    /\ sock = "ACTIVE"
    /\ p \notin pipes
    /\ pipes' = pipes \cup {p}
    /\ UNCHANGED <<sock, reqfsm, id, reply, lb, peer, got, sent, answered, aborted>>

\* Faulty variant: the state machine is not told of the pipe.
PipeOutSilent(p) ==
    /\ sock = "ACTIVE"
    /\ p \in pipes \ lb
    /\ lb' = lb \cup {p}
    /\ UNCHANGED <<sock, reqfsm, id, reply, pipes, peer, got, sent, answered, aborted>>

\* NN_PIPE_OUT -> nn_req_out, nn_xreq_out: a delayed request leaves.
PipeOut(p) ==
    /\ sock = "ACTIVE"
    /\ p \in pipes \ lb
    /\ IF state = "DELAYED"
       THEN ActionSend(id, lb \cup {p}, timer, FALSE)
       ELSE /\ lb' = lb \cup {p}
            /\ UNCHANGED <<reqfsm, peer, sent, aborted>>
    /\ UNCHANGED <<sock, id, reply, pipes, got, answered>>

\* The environment behind StaleReplies: FALSE rules out that an answer to an
\* earlier request comes in while the answer to the current one is stored.
MayArrive(n) ==
    StaleReplies \/ n = id \/ state \notin {"STOPPING_TIMER", "DONE"}

\* Faulty variant: the id of the reply is not checked.
PipeInAny(p, n) ==
    /\ sock = "ACTIVE"
    /\ p \in pipes
    /\ n \in peer[p]
    /\ MayArrive(n)
    /\ peer' = [peer EXCEPT ![p] = @ \ {n}]
    /\ reply' = [id |-> n, live |-> InProgress]
    /\ IF state = "ACTIVE"
       THEN StopTimer("STOPPING_TIMER") /\ answered' = answered \cup {n}
       ELSE UNCHANGED <<reqfsm, answered>>
    /\ UNCHANGED <<sock, id, pipes, lb, got, sent, aborted>>

\* NN_PIPE_IN -> nn_req_in with a reply to request n: nn_xreq_recv stores it
\* in task.reply whatever the state; a reply nobody waits for is terminated
\* there, and only the ACTIVE state is told of a good one.  The peer may have
\* been sent the request more than once.
PipeIn(p, n) ==
    /\ sock = "ACTIVE"
    /\ p \in pipes
    /\ n \in peer[p]
    /\ MayArrive(n)
    /\ peer' \in {peer, [peer EXCEPT ![p] = @ \ {n}]}
    /\ reply' = [id |-> n, live |-> InProgress /\ n = id]
    /\ IF state = "ACTIVE" /\ n = id
       THEN /\ StopTimer("STOPPING_TIMER")
            /\ answered' = answered \cup {n}
       ELSE UNCHANGED <<reqfsm, answered>>
    /\ UNCHANGED <<sock, id, pipes, lb, got, sent, aborted>>

\* nn_req_rm, nn_xreq_rm: a request sent to the broken pipe is re-sent as if
\* it had timed out (NN_REQ_ACTION_PIPE_RM).
PipeRm(p) ==
    /\ p \in pipes
    /\ pipes' = pipes \ {p}
    /\ lb' = lb \ {p}
    /\ peer' = [peer EXCEPT ![p] = {}]
    /\ IF sent_to # p THEN UNCHANGED <<reqfsm, aborted>>
       ELSE IF state = "ACTIVE" THEN StopTimer("TIMED_OUT") /\ UNCHANGED aborted
       ELSE Abort
    /\ UNCHANGED <<sock, id, reply, got, sent, answered>>

-----------------------------------------------------------------------------
(* The re-send timer and the closing of the socket.                        *)

\* NN_TIMER_TIMEOUT: only a timer that is not being stopped reports it.
Timeout ==
    /\ timer = "ACTIVE"
    /\ IF state = "ACTIVE" THEN StopTimer("TIMED_OUT") /\ UNCHANGED aborted
       ELSE Abort
    /\ UNCHANGED <<sock, id, reply, pipes, lb, peer, got, sent, answered>>

\* Faulty variant: a request that was answered is sent again, too.
TimerStoppedResends ==
    /\ timer = "STOPPING"
    /\ state \in {"TIMED_OUT", "CANCELLING", "STOPPING_TIMER"}
    /\ ActionSend(id, lb, "IDLE", TRUE)
    /\ UNCHANGED <<sock, id, reply, pipes, got, answered>>

\* The worker runs the stop task: NN_TIMER_STOPPED.  The request is sent
\* (again), or the reply is ready for the user, or the socket is through.
TimerStopped ==
    /\ timer = "STOPPING"
    /\ \/ /\ state \in {"TIMED_OUT", "CANCELLING"}
          /\ ActionSend(id, lb, "IDLE", TRUE)
          /\ UNCHANGED sock
       \/ /\ state \in {"STOPPING_TIMER", "STOPPING"}
          /\ timer' = "IDLE"
          /\ IF state = "STOPPING"
             THEN state' = "IDLE" /\ sock' = "FINI"
             ELSE state' = "DONE" /\ UNCHANGED sock
          /\ UNCHANGED <<sent_to, lb, peer, sent, aborted>>
       \/ /\ state \in {"IDLE", "PASSIVE", "DELAYED", "ACTIVE", "DONE"}
          /\ Abort
          /\ UNCHANGED <<sock, lb, peer, sent>>
    /\ UNCHANGED <<id, reply, pipes, got, answered>>

\* nn_close -> nn_sock_shutdown: the endpoints are asked to stop; from here on
\* the user is refused and pipes are only removed.
Close ==
    /\ sock = "ACTIVE"
    /\ sock' = "STOPPING_EPS"
    /\ UNCHANGED <<reqfsm, id, reply, pipes, lb, peer, got, sent, answered, aborted>>

\* Faulty variant: a timer that is idle already is waited for.
StopAlwaysWaits ==
    /\ sock = "STOPPING_EPS"
    /\ pipes = {}
    /\ timer' = IF timer = "ACTIVE" THEN "STOPPING" ELSE timer
    /\ state' = "STOPPING"
    /\ sock' = "STOPPING"
    /\ UNCHANGED <<sent_to, id, reply, pipes, lb, peer, got, sent, answered, aborted>>

\* All endpoints are gone: nn_req_stop -> nn_req_shutdown, which waits for the
\* timer; at the end nn_timer_term asserts that it is idle.
Stop ==
    /\ sock = "STOPPING_EPS"
    /\ pipes = {}
    /\ LET tm == IF timer = "ACTIVE" THEN "STOPPING" ELSE timer IN
       /\ timer' = tm
       /\ IF tm = "IDLE" THEN state' = "IDLE" /\ sock' = "FINI"
          ELSE state' = "STOPPING" /\ sock' = "STOPPING"
    /\ UNCHANGED <<sent_to, id, reply, pipes, lb, peer, got, sent, answered, aborted>>

-----------------------------------------------------------------------------
User == Send \/ Recv \/ Close

Network ==
    \/ \E p \in Pipe : PipeAdd(p) \/ PipeOut(p) \/ PipeRm(p)
    \/ \E p \in Pipe : \E n \in Request : PipeIn(p, n)

Next == ~aborted /\ (User \/ Network \/ Timeout \/ TimerStopped \/ Stop)

Spec == Init /\ [][Next]_vars

\* The worker thread runs the stop task, a socket that is being closed gets rid
\* of its pipes, a pipe is ready to send again some time after it was used, and
\* a peer that is asked again and again answers within the re-send interval.
Fairness ==
    /\ WF_vars(~aborted /\ TimerStopped)
    /\ WF_vars(~aborted /\ Stop)
    /\ \A p \in Pipe : /\ WF_vars(~aborted /\ sock = "STOPPING_EPS" /\ PipeRm(p))
                      /\ WF_vars(~aborted /\ PipeOut(p))
    /\ SF_vars(~aborted /\ state = "ACTIVE" /\ \E p \in Pipe : PipeIn(p, id))

FairSpec == Spec /\ Fairness

-----------------------------------------------------------------------------
TypeOK ==
    /\ sock \in {"ACTIVE", "STOPPING_EPS", "STOPPING", "FINI"}
    /\ state \in {"IDLE", "PASSIVE", "DELAYED", "ACTIVE", "TIMED_OUT",
                  "CANCELLING", "STOPPING_TIMER", "DONE", "STOPPING"}
    /\ id \in 0..MaxReq
    /\ reply \in Reply
    /\ timer \in {"IDLE", "ACTIVE", "STOPPING"}
    /\ sent_to \in Pipe \cup {NULL}
    /\ pipes \in SUBSET Pipe
    /\ lb \in SUBSET pipes
    /\ peer \in [Pipe -> SUBSET Request]
    /\ got \in [id : 0..MaxReq, to : 0..MaxReq, live : BOOLEAN]
    /\ sent \in SUBSET Request
    /\ answered \in SUBSET Request
    /\ aborted \in BOOLEAN

\* No event reaches the state machine in a state that does not expect it, and
\* the timer is started only when it is idle (the nn_fsm_bad_action defaults of
\* nn_req_handler, the assertions of nn_req_action_send and nn_fsm_start).
NeverAborts == ~aborted

\* Why: the timer runs exactly while the request waits for its reply and is
\* being stopped exactly in the states that wait for that; sent_to is a pipe
\* the socket still has exactly in the ACTIVE state, so it never dangles.
TimerFollowsState ==
    /\ timer = "ACTIVE" <=> state = "ACTIVE"
    /\ timer = "STOPPING" <=>
          state \in {"TIMED_OUT", "CANCELLING", "STOPPING_TIMER", "STOPPING"}
    /\ IF state = "ACTIVE" THEN sent_to \in pipes ELSE sent_to = NULL

\* A request is delayed only while there is no pipe to send it to, and a
\* request that waits for its reply really was sent.
NoNeedlessDelay ==
    /\ state = "DELAYED" => lb = {}
    /\ state \in {"ACTIVE", "TIMED_OUT", "STOPPING_TIMER", "DONE"} => id \in sent

\* What the user receives is the answer to the request submitted last ("Stored
\* reply, so that user can retrieve it later on", task.h:42).
OwnReply == got # NoReply => got.id = got.to /\ got.live

\* Once a reply was accepted its request is not sent again, whatever timer or
\* pipe events are still under way.
NotResent ==
    [][\A n \in answered : \A p \in Pipe : n \in peer'[p] => n \in peer[p]]_vars

\* With stable connections and a silent user, a submitted request is answered
\* as long as there is a peer.
Quiet ==
    /\ UNCHANGED <<sock, pipes>>
    /\ id' = id
Served ==
    <>[][Quiet]_vars =>
        []<>(state \in {"PASSIVE", "DONE"} \/ pipes = {} \/ sock # "ACTIVE")

\* A closed socket comes to its end: the timer never keeps it from stopping.
CloseEnds == sock # "ACTIVE" ~> sock = "FINI"

\* The socket does for its user what Requests says.
Phase == IF state \in {"IDLE", "PASSIVE", "STOPPING"} THEN "none"
         ELSE IF state = "DONE" THEN "answered" ELSE "waiting"

R == INSTANCE Requests WITH current <- id, phase <- Phase

RefinesRequests == R!RSpec
=============================================================================
