----------------------------- MODULE Req_proofs -----------------------------
(* The REQ socket, for any peers and any number of requests: timer, state  *)
(* and sent_to agree, no event is unexpected, an answered request is not   *)
(* sent again, and the user receives the answer to his own request.        *)
EXTENDS Req, TLAPS

\* A request that was answered is not in progress any more, and no request has
\* been answered that was not submitted.
AnsweredOnce ==
    /\ answered \subseteq 1..id
    /\ id \in answered =>
          state \in {"IDLE", "PASSIVE", "STOPPING_TIMER", "DONE", "STOPPING"}

\* The socket goes on to stop when the last pipe is gone, and gets no new one.
PipesGone ==
    /\ sock \in {"STOPPING", "FINI"} => pipes = {}
    /\ state = "STOPPING" => sock = "STOPPING"

\* There is a request to send when one is waiting to be sent.
Submitted == state \in {"DELAYED", "CANCELLING", "TIMED_OUT"} => id # 0

\* The inductive invariant.  TimerFollowsState alone is not inductive: the
\* socket could get a pipe in the middle of its stop, and sent_to dangle.
IInv ==
    /\ TypeOK
    /\ TimerFollowsState
    /\ NoNeedlessDelay
    /\ PipesGone
    /\ AnsweredOnce
    /\ Submitted
    /\ NeverAborts

\* What sending request n does when the timer is idle and either a pipe is ready
\* or waiting for one is allowed.
LEMMA ActionSendFacts ==
    ASSUME NEW n \in Request, NEW to \in SUBSET pipes, NEW allow \in BOOLEAN,
           TypeOK, NeverAborts, allow \/ to # {},
           ActionSend(n, to, "IDLE", allow)
    PROVE  /\ aborted' = FALSE
           /\ state' \in {"DELAYED", "ACTIVE"}
           /\ timer' = IF state' = "ACTIVE" THEN "ACTIVE" ELSE "IDLE"
           /\ IF state' = "ACTIVE" THEN sent_to' \in to /\ sent' = sent \cup {n}
                                   ELSE sent_to' = sent_to /\ sent' = sent
           /\ lb' \subseteq to
           /\ state' = "DELAYED" => lb' = {}
           /\ peer' \in [Pipe -> SUBSET Request]
           /\ \A p \in Pipe : \A m \in peer'[p] : m \in peer[p] \/ m = n
<1>1. pipes \subseteq Pipe /\ peer \in [Pipe -> SUBSET Request]
  BY DEF TypeOK
<1>2. CASE to = {}
  BY <1>1, <1>2 DEF ActionSend, NeverAborts
<1>3. CASE to # {}
  <2>1. PICK p \in to :
           /\ state' = "ACTIVE" /\ timer' = "ACTIVE" /\ sent_to' = p
           /\ lb' = to \ {p}
           /\ peer' = [peer EXCEPT ![p] = @ \cup {n}]
           /\ sent' = sent \cup {n}
           /\ aborted' = FALSE
    BY <1>3 DEF ActionSend
  <2>2. peer' \in [Pipe -> SUBSET Request]
    BY <1>1, <2>1
  <2>3. \A q \in Pipe : \A m \in peer'[q] : m \in peer[q] \/ m = n
    BY <1>1, <2>1
  <2> QED
    BY <2>1, <2>2, <2>3
<1> QED
  BY <1>2, <1>3

\* Before anything is submitted.
LEMMA InitInv == Init => IInv
<1> SUFFICES ASSUME Init PROVE IInv
  OBVIOUS
<1>1. TypeOK
  <2>1. reply \in Reply /\ id \in 0..MaxReq /\ got \in [id : 0..MaxReq, to : 0..MaxReq, live : BOOLEAN]
    BY ReqAssumption DEF Init, Reply, NoReply
  <2>2. peer \in [Pipe -> SUBSET Request]
    BY DEF Init
  <2> QED
    BY <2>1, <2>2 DEF Init, TypeOK
<1>2. TimerFollowsState /\ NoNeedlessDelay /\ PipesGone /\ NeverAborts
  BY DEF Init, TimerFollowsState, NoNeedlessDelay, PipesGone, NeverAborts
<1>3. AnsweredOnce /\ Submitted
  BY DEF Init, AnsweredOnce, Submitted
<1> QED
  BY <1>1, <1>2, <1>3 DEF IInv

\* A new request, whatever became of the one before.
LEMMA SendInv == ASSUME IInv, Send PROVE IInv'
<1>1. /\ id' = id + 1 /\ id' \in Request /\ id \in Nat
      /\ id + 1 \notin answered
      /\ UNCHANGED <<sock, reply, pipes, got, answered>>
  BY ReqAssumption DEF IInv, TypeOK, AnsweredOnce, Send, Request
<1>2. answered' \subseteq 1..id' /\ id' \notin answered'
  BY <1>1 DEF IInv, AnsweredOnce
<1>3. CASE state \in {"PASSIVE", "DONE"} /\ ActionSend(id + 1, lb, timer, TRUE)
  <2>1. timer = "IDLE" /\ lb \in SUBSET pipes /\ sent_to = NULL
    BY <1>3 DEF IInv, TypeOK, TimerFollowsState
  <2>2. /\ aborted' = FALSE
        /\ state' \in {"DELAYED", "ACTIVE"}
        /\ timer' = IF state' = "ACTIVE" THEN "ACTIVE" ELSE "IDLE"
        /\ IF state' = "ACTIVE" THEN sent_to' \in lb /\ sent' = sent \cup {id + 1}
                                ELSE sent_to' = sent_to /\ sent' = sent
        /\ lb' \subseteq lb
        /\ state' = "DELAYED" => lb' = {}
        /\ peer' \in [Pipe -> SUBSET Request]
    BY <1>1, <1>3, <2>1, ActionSendFacts DEF IInv
  <2>3. TypeOK'
    <3>1. sent' \in SUBSET Request /\ sent_to' \in Pipe \cup {NULL} /\ lb' \in SUBSET pipes'
      BY <1>1, <2>1, <2>2 DEF IInv, TypeOK
    <3>2. id' \in 0..MaxReq /\ timer' \in {"IDLE", "ACTIVE"}
      BY <1>1, <2>2 DEF Request
    <3> QED
      BY <1>1, <2>2, <3>1, <3>2 DEF IInv, TypeOK
  <2> QED
    BY <1>1, <1>2, <2>1, <2>2, <2>3
       DEF IInv, TypeOK, TimerFollowsState, NoNeedlessDelay, PipesGone,
           AnsweredOnce, Submitted, NeverAborts
<1>4. CASE /\ state \in {"ACTIVE", "TIMED_OUT", "STOPPING_TIMER", "DELAYED", "CANCELLING"}
           /\ UNCHANGED <<lb, peer, sent, aborted>>
           /\ IF state = "DELAYED" THEN UNCHANGED reqfsm
              ELSE /\ state' = "CANCELLING" /\ timer' = "STOPPING"
                   /\ sent_to' = NULL
  BY <1>1, <1>2, <1>4
     DEF IInv, TypeOK, TimerFollowsState, NoNeedlessDelay, PipesGone,
         AnsweredOnce, Submitted, NeverAborts, Request, reqfsm
<1> QED
  BY <1>3, <1>4 DEF Send, StopTimer, IInv, TimerFollowsState, reqfsm

\* The user takes the stored reply.
LEMMA RecvInv == ASSUME IInv, Recv PROVE IInv'
BY ReqAssumption
   DEF Recv, IInv, TypeOK, TimerFollowsState, NoNeedlessDelay, PipesGone,
       AnsweredOnce, Submitted, NeverAborts, Request, Reply

\* nn_close
LEMMA CloseInv == ASSUME IInv, Close PROVE IInv'
BY DEF Close, IInv, TypeOK, TimerFollowsState, NoNeedlessDelay, PipesGone,
       AnsweredOnce, Submitted, NeverAborts, Request, reqfsm

\* A new connection.
LEMMA PipeAddInv == ASSUME IInv, NEW p \in Pipe, PipeAdd(p) PROVE IInv'
BY DEF PipeAdd, IInv, TypeOK, TimerFollowsState, NoNeedlessDelay, PipesGone,
       AnsweredOnce, Submitted, NeverAborts, Request, reqfsm

\* A pipe can be sent to, and a request may be waiting for that.
LEMMA PipeOutInv == ASSUME IInv, NEW p \in Pipe, PipeOut(p) PROVE IInv'
<1>1. p \in pipes /\ lb \subseteq pipes /\ UNCHANGED <<sock, id, reply, pipes, got, answered>>
  BY DEF PipeOut, IInv, TypeOK
<1>2. CASE state = "DELAYED"
  <2>1. timer = "IDLE" /\ sent_to = NULL /\ id \in 0..MaxReq
    BY <1>2 DEF IInv, TypeOK, TimerFollowsState
  <2>2. id \in Request
    BY <1>2, <2>1 DEF IInv, Request, Submitted
  <2>3. /\ aborted' = FALSE
        /\ state' \in {"DELAYED", "ACTIVE"}
        /\ timer' = IF state' = "ACTIVE" THEN "ACTIVE" ELSE "IDLE"
        /\ IF state' = "ACTIVE" THEN sent_to' \in lb \cup {p} /\ sent' = sent \cup {id}
                                ELSE sent_to' = sent_to /\ sent' = sent
        /\ lb' \subseteq lb \cup {p}
        /\ state' = "DELAYED" => lb' = {}
        /\ peer' \in [Pipe -> SUBSET Request]
    BY <1>1, <1>2, <2>1, <2>2, ActionSendFacts DEF IInv, PipeOut
  <2> QED
    BY <1>1, <1>2, <2>1, <2>2, <2>3
       DEF IInv, TypeOK, TimerFollowsState, NoNeedlessDelay, PipesGone,
           AnsweredOnce, Submitted, NeverAborts, Request
<1>3. CASE state # "DELAYED"
  <2>1. lb' = lb \cup {p} /\ UNCHANGED <<state, timer, sent_to, peer, sent, aborted>>
    BY <1>3 DEF PipeOut, reqfsm
  <2>2. TypeOK'
    BY <1>1, <2>1 DEF IInv, TypeOK
  <2> QED
    BY <1>1, <1>3, <2>1, <2>2
       DEF IInv, TimerFollowsState, NoNeedlessDelay, PipesGone, AnsweredOnce,
           Submitted, NeverAborts
<1> QED
  BY <1>2, <1>3

\* A reply, whoever's and whenever it comes in.
LEMMA PipeInInv == ASSUME IInv, NEW p \in Pipe, NEW n \in Request, PipeIn(p, n) PROVE IInv'
<1>1. /\ UNCHANGED <<sock, id, pipes, lb, got, sent, aborted>>
      /\ peer' \in [Pipe -> SUBSET Request]
      /\ reply' \in Reply
  BY DEF PipeIn, IInv, TypeOK, Reply, Request, InProgress
<1>2. CASE state = "ACTIVE" /\ n = id
  <2>1. /\ timer' = "STOPPING" /\ sent_to' = NULL /\ state' = "STOPPING_TIMER"
        /\ answered' = answered \cup {n}
    BY <1>2 DEF PipeIn, StopTimer, IInv, TimerFollowsState
  <2> QED
    BY <1>1, <1>2, <2>1
       DEF IInv, TypeOK, TimerFollowsState, NoNeedlessDelay, PipesGone,
           AnsweredOnce, Submitted, NeverAborts, Request
<1>3. CASE ~(state = "ACTIVE" /\ n = id)
  <2>1. UNCHANGED <<state, timer, sent_to, answered>>
    BY <1>3 DEF PipeIn, reqfsm
  <2>2. TypeOK'
    BY <1>1, <2>1 DEF IInv, TypeOK
  <2> QED
    BY <1>1, <2>1, <2>2
       DEF IInv, TimerFollowsState, NoNeedlessDelay, PipesGone, AnsweredOnce,
           Submitted, NeverAborts
<1> QED
  BY <1>2, <1>3

\* A connection breaks: only an ACTIVE request can have been sent there.
LEMMA PipeRmInv == ASSUME IInv, NEW p \in Pipe, PipeRm(p) PROVE IInv'
<1>1. /\ UNCHANGED <<sock, id, reply, got, sent, answered>>
      /\ p \in pipes /\ pipes' = pipes \ {p} /\ lb' = lb \ {p}
      /\ peer' \in [Pipe -> SUBSET Request]
  BY DEF PipeRm, IInv, TypeOK
<1>2. CASE sent_to = p
  <2>1. state = "ACTIVE" /\ timer = "ACTIVE" /\ id # 0
    BY <1>2, ReqAssumption DEF IInv, TypeOK, TimerFollowsState, NoNeedlessDelay, Request
  <2>2. /\ timer' = "STOPPING" /\ sent_to' = NULL /\ state' = "TIMED_OUT"
        /\ UNCHANGED aborted
    BY <1>2, <2>1 DEF PipeRm, StopTimer
  <2> QED
    BY <1>1, <2>1, <2>2
       DEF IInv, TypeOK, TimerFollowsState, NoNeedlessDelay, PipesGone,
           AnsweredOnce, Submitted, NeverAborts, Request
<1>3. CASE sent_to # p
  BY <1>1, <1>3
     DEF PipeRm, IInv, TypeOK, TimerFollowsState, NoNeedlessDelay, PipesGone,
         AnsweredOnce, Submitted, NeverAborts, Request, reqfsm
<1> QED
  BY <1>2, <1>3

\* The re-send interval is over.
LEMMA TimeoutInv == ASSUME IInv, Timeout PROVE IInv'
<1>1. state = "ACTIVE" /\ id # 0
  BY DEF Timeout, IInv, TypeOK, TimerFollowsState, NoNeedlessDelay, Request
<1>2. /\ timer' = "STOPPING" /\ sent_to' = NULL /\ state' = "TIMED_OUT"
      /\ UNCHANGED <<aborted, sock, id, reply, pipes, lb, peer, got, sent, answered>>
  BY <1>1 DEF Timeout, StopTimer
<1> QED
  BY <1>1, <1>2
     DEF IInv, TypeOK, TimerFollowsState, NoNeedlessDelay, PipesGone,
         AnsweredOnce, Submitted, NeverAborts, Request

\* The timer has stopped, whatever it was stopped for.
LEMMA TimerStoppedInv == ASSUME IInv, TimerStopped PROVE IInv'
<1>1. /\ timer = "STOPPING" /\ UNCHANGED <<id, reply, pipes, got, answered>>
      /\ state \in {"TIMED_OUT", "CANCELLING", "STOPPING_TIMER", "STOPPING"}
      /\ sent_to = NULL /\ id \in 0..MaxReq /\ lb \in SUBSET pipes
  BY DEF TimerStopped, IInv, TypeOK, TimerFollowsState
<1>2. CASE state \in {"TIMED_OUT", "CANCELLING"}
  <2>1. ActionSend(id, lb, "IDLE", TRUE) /\ UNCHANGED sock
    BY <1>1, <1>2 DEF TimerStopped
  <2>2. id \in Request
    <3>1. id # 0
      BY <1>2 DEF IInv, Submitted
    <3> QED
      BY <1>1, <3>1, ReqAssumption DEF Request
  <2>3. /\ aborted' = FALSE
        /\ state' \in {"DELAYED", "ACTIVE"}
        /\ timer' = IF state' = "ACTIVE" THEN "ACTIVE" ELSE "IDLE"
        /\ IF state' = "ACTIVE" THEN sent_to' \in lb /\ sent' = sent \cup {id}
                                ELSE sent_to' = sent_to /\ sent' = sent
        /\ lb' \subseteq lb
        /\ state' = "DELAYED" => lb' = {}
        /\ peer' \in [Pipe -> SUBSET Request]
    BY <1>1, <2>1, <2>2, ActionSendFacts DEF IInv
  <2> QED
    BY <1>1, <1>2, <2>1, <2>2, <2>3
       DEF IInv, TypeOK, TimerFollowsState, NoNeedlessDelay, PipesGone,
           AnsweredOnce, Submitted, NeverAborts, Request
<1>3. CASE state \in {"STOPPING_TIMER", "STOPPING"}
  <2>1. /\ timer' = "IDLE" /\ UNCHANGED <<sent_to, lb, peer, sent, aborted>>
        /\ \/ state = "STOPPING" /\ state' = "IDLE" /\ sock' = "FINI"
           \/ state = "STOPPING_TIMER" /\ state' = "DONE" /\ UNCHANGED sock
    BY <1>3 DEF TimerStopped
  <2> QED
    BY <1>1, <1>3, <2>1
       DEF IInv, TypeOK, TimerFollowsState, NoNeedlessDelay, PipesGone,
           AnsweredOnce, Submitted, NeverAborts, Request
<1> QED
  BY <1>1, <1>2, <1>3

\* The protocol is stopped when the pipes are gone.
LEMMA StopInv == ASSUME IInv, Stop PROVE IInv'
<1>1. state # "ACTIVE" /\ timer # "ACTIVE" /\ pipes = {}
  BY DEF Stop, IInv, TimerFollowsState
<1>2. /\ timer' = timer
      /\ UNCHANGED <<sent_to, id, reply, pipes, lb, peer, got, sent, answered, aborted>>
      /\ \/ timer = "IDLE" /\ state' = "IDLE" /\ sock' = "FINI"
         \/ timer # "IDLE" /\ state' = "STOPPING" /\ sock' = "STOPPING"
  BY <1>1 DEF Stop
<1> QED
  BY <1>1, <1>2
     DEF IInv, TypeOK, TimerFollowsState, NoNeedlessDelay, PipesGone,
         AnsweredOnce, Submitted, NeverAborts, Request

\* The invariant is inductive.
LEMMA NextInv == IInv /\ [Next]_vars => IInv'
<1> SUFFICES ASSUME IInv, [Next]_vars PROVE IInv'
  OBVIOUS
<1>1. CASE User
  BY <1>1, SendInv, RecvInv, CloseInv DEF User
<1>2. CASE Network
  BY <1>2, PipeAddInv, PipeOutInv, PipeRmInv, PipeInInv DEF Network
<1>3. CASE Timeout \/ TimerStopped \/ Stop
  BY <1>3, TimeoutInv, TimerStoppedInv, StopInv
<1>4. CASE UNCHANGED vars
  BY <1>4
     DEF vars, reqfsm, IInv, TypeOK, TimerFollowsState, NoNeedlessDelay, PipesGone,
         AnsweredOnce, Submitted, NeverAborts, Request
<1> QED
  BY <1>1, <1>2, <1>3, <1>4 DEF Next

\* Every variable of the REQ socket keeps its type: in particular the load
\* balancer holds only pipes the socket still has.
THEOREM TypeCorrect == Spec => []TypeOK
<1>1. IInv => TypeOK
  BY DEF IInv
<1> QED
  BY InitInv, NextInv, <1>1, PTL DEF Spec

\* No event reaches the state machine in a state that does not expect it, and
\* the timer is never started while it runs (req.c, timer.c).
THEOREM EventsExpected == Spec => []NeverAborts
<1>1. IInv => NeverAborts
  BY DEF IInv
<1> QED
  BY InitInv, NextInv, <1>1, PTL DEF Spec

\* The timer runs exactly in the ACTIVE state and is being stopped exactly in
\* the states that wait for it; sent_to is a pipe of the socket in the ACTIVE
\* state and reset otherwise.
THEOREM TimerAndState == Spec => []TimerFollowsState
<1>1. IInv => TimerFollowsState
  BY DEF IInv
<1> QED
  BY InitInv, NextInv, <1>1, PTL DEF Spec

\* A request waits only when there is no pipe for it.
THEOREM PromptSend == Spec => []NoNeedlessDelay
<1>1. IInv => NoNeedlessDelay
  BY DEF IInv
<1> QED
  BY InitInv, NextInv, <1>1, PTL DEF Spec

-----------------------------------------------------------------------------
\* No step sends an answered request.
LEMMA StepNotResent ==
    IInv /\ [Next]_vars =>
       [\A n \in answered : \A p \in Pipe : n \in peer'[p] => n \in peer[p]]_vars
<1> SUFFICES ASSUME IInv, Next,
                    NEW n \in answered, NEW p \in Pipe, n \in peer'[p]
             PROVE  n \in peer[p]
  OBVIOUS
<1>1. ASSUME NEW m, m \notin answered,
             \A q \in Pipe : \A x \in peer'[q] : x \in peer[q] \/ x = m
      PROVE  n \in peer[p]
  BY <1>1
<1>2. CASE Send
  <2>1. CASE state \in {"PASSIVE", "DONE"} /\ ActionSend(id + 1, lb, timer, TRUE)
    <3>1. timer = "IDLE" /\ lb \in SUBSET pipes
      BY <2>1 DEF IInv, TypeOK, TimerFollowsState
    <3>2. id + 1 \in Request /\ id + 1 \notin answered
      BY <1>2, ReqAssumption DEF Send, IInv, TypeOK, AnsweredOnce, Request
    <3>3. \A q \in Pipe : \A x \in peer'[q] : x \in peer[q] \/ x = id + 1
      BY <2>1, <3>1, <3>2, ActionSendFacts DEF IInv
    <3> QED
      BY <1>1, <3>2, <3>3
  <2>2. CASE UNCHANGED peer
    BY <2>2
  <2> QED
    BY <1>2, <2>1, <2>2 DEF Send
<1>3. ASSUME NEW q \in Pipe, PipeOut(q) PROVE n \in peer[p]
  <2>1. CASE state = "DELAYED"
    <3>1. /\ timer = "IDLE" /\ lb \cup {q} \in SUBSET pipes
          /\ ActionSend(id, lb \cup {q}, timer, FALSE)
      BY <1>3, <2>1 DEF PipeOut, IInv, TypeOK, TimerFollowsState
    <3>2. id # 0 /\ id \notin answered
      BY <2>1 DEF IInv, AnsweredOnce, Submitted
    <3>3. id \in Request
      BY <3>2, ReqAssumption DEF IInv, TypeOK, Request
    <3>4. \A r \in Pipe : \A x \in peer'[r] : x \in peer[r] \/ x = id
      BY <3>1, <3>3, ActionSendFacts DEF IInv
    <3> QED
      BY <1>1, <3>2, <3>4
  <2>2. CASE state # "DELAYED"
    BY <1>3, <2>2 DEF PipeOut
  <2> QED
    BY <2>1, <2>2
<1>4. CASE TimerStopped
  <2>1. CASE state \in {"TIMED_OUT", "CANCELLING"}
    <3>1. ActionSend(id, lb, "IDLE", TRUE) /\ lb \in SUBSET pipes
      BY <1>4, <2>1 DEF TimerStopped, IInv, TypeOK
    <3>2. id # 0 /\ id \notin answered
      BY <2>1 DEF IInv, AnsweredOnce, Submitted
    <3>3. id \in Request
      BY <3>2, ReqAssumption DEF IInv, TypeOK, Request
    <3>4. \A r \in Pipe : \A x \in peer'[r] : x \in peer[r] \/ x = id
      BY <3>1, <3>3, ActionSendFacts DEF IInv
    <3> QED
      BY <1>1, <3>2, <3>4
  <2>2. CASE ~(state \in {"TIMED_OUT", "CANCELLING"})
    BY <1>4, <2>2 DEF TimerStopped
  <2> QED
    BY <2>1, <2>2
<1>5. ASSUME NEW q \in Pipe, NEW m \in Request, PipeIn(q, m) PROVE n \in peer[p]
  BY <1>5 DEF PipeIn, IInv, TypeOK
<1>6. ASSUME NEW q \in Pipe, PipeRm(q) PROVE n \in peer[p]
  BY <1>6 DEF PipeRm, IInv, TypeOK
<1>7. CASE \/ Recv \/ Close \/ Timeout \/ Stop
           \/ \E q \in Pipe : PipeAdd(q)
  BY <1>7 DEF Recv, Close, Timeout, Stop, PipeAdd
<1> QED
  BY <1>2, <1>3, <1>4, <1>5, <1>6, <1>7 DEF Next, User, Network

\* Once a reply was accepted its request is not sent again (NN_REQ_ACTION_IN,
\* NN_TIMER_STOPPED and nn_req_rm in req.c).
THEOREM AnsweredNotResent == Spec => NotResent
BY InitInv, NextInv, StepNotResent, PTL DEF Spec, NotResent

-----------------------------------------------------------------------------
\* The reply that is stored, and the one the user has, answer the request.
ReplyInv ==
    /\ state \in {"STOPPING_TIMER", "DONE"} => reply = [id |-> id, live |-> TRUE]
    /\ OwnReply

\* That stays so as long as no old reply comes in after the good one.
LEMMA ReplyNextInv ==
    ASSUME StaleReplies = FALSE
    PROVE  IInv /\ ReplyInv /\ [Next]_vars => ReplyInv'
<1> SUFFICES ASSUME IInv, ReplyInv, [Next]_vars PROVE ReplyInv'
  OBVIOUS
<1>1. ASSUME UNCHANGED got,
             \/ state' \notin {"STOPPING_TIMER", "DONE"}
             \/ /\ state \in {"STOPPING_TIMER", "DONE"}
                /\ UNCHANGED <<id, reply>>
      PROVE  ReplyInv'
  BY <1>1 DEF ReplyInv, OwnReply
<1>2. CASE Send
  <2>1. UNCHANGED got
    BY <1>2 DEF Send
  <2>2. state' \notin {"STOPPING_TIMER", "DONE"}
    BY <1>2 DEF Send, ActionSend, StopTimer, reqfsm
  <2> QED
    BY <1>1, <2>1, <2>2
<1>3. CASE Recv
  <2>1. got' = [id |-> id, to |-> id, live |-> TRUE] /\ state' = "PASSIVE"
    <3>1. reply = [id |-> id, live |-> TRUE] /\ state' = "PASSIVE"
      BY <1>3 DEF Recv, ReplyInv
    <3>2. reply.id = id /\ reply.live = TRUE
      BY <3>1
    <3> QED
      BY <1>3, <3>1, <3>2 DEF Recv
  <2> QED
    BY <2>1 DEF ReplyInv, OwnReply
<1>4. CASE Close \/ (\E p \in Pipe : PipeAdd(p)) \/ UNCHANGED vars
  BY <1>1, <1>4 DEF Close, PipeAdd, vars, reqfsm
<1>5. ASSUME NEW p \in Pipe, PipeOut(p) PROVE ReplyInv'
  <2>1. UNCHANGED <<got, id, reply>>
    BY <1>5 DEF PipeOut
  <2>2. UNCHANGED state \/ state' \in {"DELAYED", "ACTIVE"}
    BY <1>5 DEF PipeOut, ActionSend, reqfsm
  <2> QED
    BY <1>1, <2>1, <2>2
<1>6. ASSUME NEW p \in Pipe, NEW n \in Request, PipeIn(p, n) PROVE ReplyInv'
  <2>1. /\ UNCHANGED <<id, got>>
        /\ reply' = [id |-> n, live |-> InProgress /\ n = id]
        /\ n = id \/ state \notin {"STOPPING_TIMER", "DONE"}
    BY <1>6 DEF PipeIn, MayArrive
  <2>2. CASE state = "ACTIVE" /\ n = id
    <3>1. reply' = [id |-> id, live |-> TRUE]
      BY <2>1, <2>2 DEF InProgress
    <3> QED
      BY <2>1, <3>1 DEF ReplyInv, OwnReply
  <2>3. CASE ~(state = "ACTIVE" /\ n = id)
    <3>1. UNCHANGED state
      BY <1>6, <2>3 DEF PipeIn, reqfsm
    <3>2. CASE state \in {"STOPPING_TIMER", "DONE"}
      <4>1. reply' = [id |-> id, live |-> TRUE]
        BY <2>1, <3>2 DEF InProgress
      <4> QED
        BY <2>1, <3>1, <4>1 DEF ReplyInv, OwnReply
    <3>3. CASE state \notin {"STOPPING_TIMER", "DONE"}
      BY <1>1, <2>1, <3>1, <3>3
    <3> QED
      BY <3>2, <3>3
  <2> QED
    BY <2>2, <2>3
<1>7. ASSUME NEW p \in Pipe, PipeRm(p) PROVE ReplyInv'
  <2>1. UNCHANGED <<got, id, reply>>
    BY <1>7 DEF PipeRm
  <2>2. UNCHANGED state \/ state' = "TIMED_OUT"
    BY <1>7 DEF PipeRm, StopTimer, Abort, reqfsm
  <2> QED
    BY <1>1, <2>1, <2>2
<1>8. CASE Timeout
  <2>1. UNCHANGED <<got, id, reply>>
    BY <1>8 DEF Timeout
  <2>2. UNCHANGED state \/ state' = "TIMED_OUT"
    BY <1>8 DEF Timeout, StopTimer, Abort, reqfsm
  <2> QED
    BY <1>1, <2>1, <2>2
<1>9. CASE TimerStopped
  <2>1. UNCHANGED <<got, id, reply>>
    BY <1>9 DEF TimerStopped
  <2>2. \/ state' \in {"DELAYED", "ACTIVE", "IDLE"}
        \/ state = "STOPPING_TIMER"
        \/ UNCHANGED state
    BY <1>9 DEF TimerStopped, ActionSend, Abort, reqfsm
  <2> QED
    BY <1>1, <2>1, <2>2
<1>10. CASE Stop
  <2>1. UNCHANGED got /\ state' \in {"IDLE", "STOPPING"}
    BY <1>10 DEF Stop
  <2> QED
    BY <1>1, <2>1
<1> QED
  BY <1>2, <1>3, <1>4, <1>5, <1>6, <1>7, <1>8, <1>9, <1>10 DEF Next, User, Network

\* What the user receives is the answer to the request submitted last, provided
\* that no reply to an earlier one arrives while it is stored: the run
\* req_stale shows what happens otherwise (req.c:155).
THEOREM OwnReplyUnlessStale ==
    ASSUME StaleReplies = FALSE
    PROVE  Spec => []OwnReply
<1>1. Init => ReplyInv
  BY DEF Init, ReplyInv, OwnReply
<1>2. ReplyInv => OwnReply
  BY DEF ReplyInv
<1>3. IInv /\ ReplyInv /\ [Next]_vars => ReplyInv'
  BY ReplyNextInv
<1> QED
  BY InitInv, NextInv, <1>1, <1>2, <1>3, PTL DEF Spec

-----------------------------------------------------------------------------
\* The steps that neither submit nor answer leave the abstract socket alone.
LEMMA Stutters ==
    ASSUME UNCHANGED <<id, sent, got>>, UNCHANGED Phase
    PROVE  UNCHANGED R!reqvars
BY DEF R!reqvars

\* Sending the request in progress (again) is a Transmit.
LEMMA SendRefines ==
    ASSUME Phase = "waiting", Phase' = "waiting", UNCHANGED <<id, got>>,
           sent' \in {sent, sent \cup {id}}
    PROVE  [R!RNext]_(R!reqvars)
<1>1. CASE sent' = sent
  BY <1>1, Stutters
<1>2. CASE sent' = sent \cup {id}
  <2>1. R!Transmit
    BY <1>2 DEF R!Transmit
  <2> QED
    BY <2>1 DEF R!RNext
<1> QED
  BY <1>1, <1>2

\* Every step of the socket is one of the abstract socket, or a stutter.
LEMMA NextRefines ==
    ASSUME StaleReplies = FALSE
    PROVE  IInv /\ ReplyInv /\ [Next]_vars => [R!RNext]_(R!reqvars)
<1> SUFFICES ASSUME IInv, ReplyInv, [Next]_vars PROVE [R!RNext]_(R!reqvars)
  OBVIOUS
<1>1. CASE Send
  <2>1. /\ id' = id + 1 /\ UNCHANGED got
        /\ Phase' = "waiting"
        /\ sent' \in {sent, sent \cup {id + 1}}
    BY <1>1 DEF Send, ActionSend, StopTimer, reqfsm, Phase
  <2>2. R!Submit
    BY <2>1 DEF R!Submit
  <2> QED
    BY <2>2 DEF R!RNext
<1>2. CASE Recv
  <2>1. Phase = "answered" /\ Phase' = "none" /\ UNCHANGED <<id, sent>>
    BY <1>2 DEF Recv, Phase
  <2>2. got' = [id |-> id, to |-> id, live |-> TRUE]
    <3>1. reply = [id |-> id, live |-> TRUE]
      BY <1>2 DEF Recv, ReplyInv
    <3>2. reply.id = id /\ reply.live = TRUE
      BY <3>1
    <3> QED
      BY <1>2, <3>2 DEF Recv
  <2>3. R!Take
    BY <2>1, <2>2 DEF R!Take
  <2> QED
    BY <2>3 DEF R!RNext
<1>3. CASE Close \/ (\E p \in Pipe : PipeAdd(p)) \/ UNCHANGED vars
  <2>1. UNCHANGED <<id, sent, got, state>>
    BY <1>3 DEF Close, PipeAdd, vars, reqfsm
  <2> QED
    BY <2>1, Stutters DEF Phase
<1>4. ASSUME NEW p \in Pipe, PipeOut(p) PROVE [R!RNext]_(R!reqvars)
  <2>1. UNCHANGED <<id, got>>
    BY <1>4 DEF PipeOut
  <2>2. CASE state = "DELAYED"
    <3>1. state' \in {"DELAYED", "ACTIVE"} /\ sent' \in {sent, sent \cup {id}}
      BY <1>4, <2>2 DEF PipeOut, ActionSend
    <3>2. Phase = "waiting" /\ Phase' = "waiting"
      BY <2>2, <3>1 DEF Phase
    <3> QED
      BY <2>1, <3>1, <3>2, SendRefines
  <2>3. CASE state # "DELAYED"
    <3>1. UNCHANGED <<state, sent>>
      BY <1>4, <2>3 DEF PipeOut, reqfsm
    <3> QED
      BY <2>1, <3>1, Stutters DEF Phase
  <2> QED
    BY <2>2, <2>3
<1>5. ASSUME NEW p \in Pipe, NEW n \in Request, PipeIn(p, n)
      PROVE  [R!RNext]_(R!reqvars)
  <2>1. UNCHANGED <<id, sent, got>>
    BY <1>5 DEF PipeIn
  <2>2. UNCHANGED state \/ (state = "ACTIVE" /\ state' = "STOPPING_TIMER")
    BY <1>5 DEF PipeIn, StopTimer, reqfsm
  <2> QED
    BY <2>1, <2>2, Stutters DEF Phase
<1>6. ASSUME NEW p \in Pipe, PipeRm(p) PROVE [R!RNext]_(R!reqvars)
  <2>1. UNCHANGED <<id, sent, got>>
    BY <1>6 DEF PipeRm
  <2>2. UNCHANGED state \/ (state = "ACTIVE" /\ state' = "TIMED_OUT")
    BY <1>6 DEF PipeRm, StopTimer, Abort, reqfsm
  <2> QED
    BY <2>1, <2>2, Stutters DEF Phase
<1>7. CASE Timeout
  <2>1. UNCHANGED <<id, sent, got>>
    BY <1>7 DEF Timeout
  <2>2. UNCHANGED state \/ (state = "ACTIVE" /\ state' = "TIMED_OUT")
    BY <1>7 DEF Timeout, StopTimer, Abort, reqfsm
  <2> QED
    BY <2>1, <2>2, Stutters DEF Phase
<1>8. CASE TimerStopped
  <2>1. UNCHANGED <<id, got>>
    BY <1>8 DEF TimerStopped
  <2>2. CASE state \in {"TIMED_OUT", "CANCELLING"}
    <3>1. state' \in {"DELAYED", "ACTIVE"} /\ sent' \in {sent, sent \cup {id}}
      BY <1>8, <2>2 DEF TimerStopped, ActionSend
    <3>2. Phase = "waiting" /\ Phase' = "waiting"
      BY <2>2, <3>1 DEF Phase
    <3> QED
      BY <2>1, <3>1, <3>2, SendRefines
  <2>3. CASE state = "STOPPING_TIMER"
    <3>1. state' = "DONE" /\ UNCHANGED sent /\ id \in sent
      BY <1>8, <2>3 DEF TimerStopped, IInv, NoNeedlessDelay
    <3>2. R!Answer
      BY <2>1, <2>3, <3>1 DEF R!Answer, Phase
    <3> QED
      BY <3>2 DEF R!RNext
  <2>4. CASE state = "STOPPING"
    <3>1. state' = "IDLE" /\ UNCHANGED sent
      BY <1>8, <2>4 DEF TimerStopped
    <3> QED
      BY <2>1, <2>4, <3>1, Stutters DEF Phase
  <2>5. state \in {"TIMED_OUT", "CANCELLING", "STOPPING_TIMER", "STOPPING"}
    BY <1>8 DEF TimerStopped, IInv, TimerFollowsState
  <2> QED
    BY <2>2, <2>3, <2>4, <2>5
<1>9. CASE Stop
  <2>1. UNCHANGED <<id, sent, got>> /\ Phase' = "none"
    BY <1>9 DEF Stop, Phase
  <2>2. R!Abandon
    BY <2>1 DEF R!Abandon
  <2> QED
    BY <2>2 DEF R!RNext
<1> QED
  BY <1>1, <1>2, <1>3, <1>4, <1>5, <1>6, <1>7, <1>8, <1>9 DEF Next, User, Network

\* The REQ socket keeps its promise to the user, with the same proviso: it
\* implements the abstract request/reply socket.
THEOREM SocketImplementsRequests ==
    ASSUME StaleReplies = FALSE
    PROVE  Spec => RefinesRequests
<1>1. Init => R!RInit
  BY DEF Init, R!RInit, Phase
<1>2. Init => ReplyInv
  BY DEF Init, ReplyInv, OwnReply
<1>3. IInv /\ ReplyInv /\ [Next]_vars => ReplyInv'
  BY ReplyNextInv
<1>4. IInv /\ ReplyInv /\ [Next]_vars => [R!RNext]_(R!reqvars)
  BY NextRefines
<1> QED
  BY InitInv, NextInv, <1>1, <1>2, <1>3, <1>4, PTL
     DEF Spec, RefinesRequests, R!RSpec
=============================================================================
