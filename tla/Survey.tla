------------------------------- MODULE Survey -------------------------------
(* A SURVEYOR socket (surveyor.c, xsurveyor.c) with its deadline timer and  *)
(* the distributor, RESPONDENT sockets at the other ends of its pipes, and  *)
(* devices that pass on what others ask.  A survey goes to everybody who    *)
(* can take it, answers come until the deadline, a new survey cancels the   *)
(* last one; pipes come and go, each end noticing in its own time.          *)
(*                                                                          *)
(* A step is a session in the context of one socket.  A pipe holds one      *)
(* message each way; a fair queue gives out any of those that arrived       *)
(* (which one is in FairQueue).                                             *)
EXTENDS Responder, Dist

CONSTANTS
    Respondent,
    MaxSurveys,     \* bound: the surveys the user starts
    DeviceHeader    \* the headers under which devices pass on a question

ASSUME SurveyAssumption ==
    /\ MaxSurveys \in Nat
    /\ DeviceHeader \subseteq [stack : Seq(Nat), id : Nat \cup {NULL}]
    /\ NULL \notin {"surveyor", "device"}

VARIABLES
    sock,       \* the surveyor's socket: "ACTIVE", "CLOSING", "STOPPING" or "FINI"
    state,      \* nn_surveyor.state
    timer,      \* the deadline timer: "IDLE", "ACTIVE" or "STOPPING"
    surveyid,   \* nn_surveyor.surveyid, which numbers the surveys
    timedout,   \* nn_surveyor.timedout
    outpipes,   \* the distributor
    resp,       \* the respondents
    pipe,       \* the connections
    sent,       \* history: the survey sent last
    taken,      \* history: the pipes that answered the user's last survey
    wrong,      \* history: an answer that is not one to the survey in progress
    aborted     \* an nn_fsm_bad_action or an assertion was hit

fsm == <<state, timer, surveyid, timedout>>
seen == <<sent, taken, wrong>>
vars == <<sock, fsm, outpipes, resp, pipe, seen, aborted>>

\* What a message says: on which pipe it was asked, under which header.
Question(p, stack, id) == [pipe |-> p, stack |-> stack, id |-> id]

\* A connection: who asks on it ("surveyor" or "device"), which respondent it
\* leads to, whether each end still has its pipe, and the messages on their way.
NoPipe == [asker |-> NULL, to |-> NULL, here |-> FALSE, there |-> FALSE,
           ask |-> NULL, answer |-> NULL]

Init ==
    /\ sock = "ACTIVE" /\ state = "PASSIVE" /\ timer = "IDLE"
    /\ surveyid = 0 /\ timedout = FALSE
    /\ outpipes = {}
    /\ resp = [r \in Respondent |-> NewResponder]
    /\ pipe = [p \in Pipe |-> NoPipe]
    /\ sent = 0 /\ taken = {} /\ wrong = FALSE
    /\ aborted = FALSE

Mine == {p \in Pipe : pipe[p].asker = "surveyor" /\ pipe[p].here}

InProgress == state \notin {"IDLE", "PASSIVE", "STOPPING"}

-----------------------------------------------------------------------------
(* The surveyor.                                                            *)

Abort == aborted' = TRUE /\ UNCHANGED <<fsm, outpipes, pipe, sent>>

\* nn_surveyor_resend, nn_dist_send and nn_timer_start: survey n leaves on every
\* pipe of the distributor, which asserts that the pipe is still there.
Ask(n) ==
    LET to == Receivers(outpipes, {})
        survey(p) == [stack |-> <<>>, id |-> n, says |-> Question(p, <<>>, n)]
    IN /\ state' = "ACTIVE" /\ timer' = "ACTIVE"
       /\ pipe' = [p \in Pipe |-> IF p \in to THEN [pipe[p] EXCEPT !.ask = survey(p)] ELSE pipe[p]]
       /\ outpipes' = DistSent(outpipes, to)
       /\ sent' = n
       /\ aborted' = (\E p \in to : p \notin Mine \/ pipe[p].ask # NULL)

\* Faulty variant: a survey that has timed out is not followed by another one
\* before its timer has stopped.
CancelLate ==
    /\ timer' = IF state = "ACTIVE" THEN "STOPPING" ELSE timer
    /\ state' = IF state = "ACTIVE" THEN "CANCELLING" ELSE state
    /\ UNCHANGED <<timedout, outpipes, pipe, sent, aborted>>

\* NN_SURVEYOR_ACTION_CANCEL
Cancel ==
    /\ timer' = IF state = "ACTIVE" THEN "STOPPING" ELSE timer
    /\ state' = "CANCELLING"
    /\ UNCHANGED <<timedout, outpipes, pipe, sent, aborted>>

\* nn_surveyor_send; raw sockets can always send, so it never says EAGAIN.
Send ==
    /\ sock = "ACTIVE" /\ surveyid < MaxSurveys
    /\ surveyid' = surveyid + 1
    /\ \/ ~InProgress /\ Ask(surveyid + 1) /\ UNCHANGED timedout
       \/ InProgress /\ Cancel
    /\ taken' = {}
    /\ UNCHANGED <<sock, resp, wrong>>

\* Faulty variant: the answer to an earlier survey is not told from others.
StaleAnswerNever(p) == FALSE

\* Answers that are there, and those that are not to the survey in progress.
Arrived == {p \in Mine : pipe[p].answer # NULL}
StaleAnswer(p) == pipe[p].answer.id # surveyid

Taken(ps) == [p \in Pipe |-> IF p \in ps THEN [pipe[p] EXCEPT !.answer = NULL] ELSE pipe[p]]

\* nn_surveyor_recv: stale answers are dropped until a good one is found.  Which
\* of them come before it depends on the fair queue.
RecvAnswer ==
    /\ sock = "ACTIVE" /\ InProgress
    /\ \E p \in Arrived, stale \in SUBSET Arrived :
          /\ ~StaleAnswer(p) /\ \A q \in stale : StaleAnswer(q)
          /\ LET a == pipe[p].answer.says
             IN /\ taken' = taken \cup {p}
                /\ wrong' = (wrong \/ p \in taken \/ a # Question(p, <<>>, surveyid))
          /\ pipe' = Taken(stale \cup {p})
    /\ UNCHANGED <<sock, fsm, outpipes, resp, sent, aborted>>

\* There was no good one: EAGAIN.
RecvNothing ==
    /\ sock = "ACTIVE" /\ InProgress
    /\ Arrived # {} /\ \A p \in Arrived : StaleAnswer(p)
    /\ pipe' = Taken(Arrived)
    /\ UNCHANGED <<sock, fsm, outpipes, resp, seen, aborted>>

\* ETIMEDOUT, which is said once; after that it is EFSM.
RecvTimedOut ==
    /\ sock = "ACTIVE" /\ ~InProgress /\ timedout
    /\ timedout' = FALSE
    /\ UNCHANGED <<sock, state, timer, surveyid, outpipes, resp, pipe, seen, aborted>>

\* NN_TIMER_TIMEOUT
Timeout ==
    /\ timer = "ACTIVE"
    /\ \/ /\ state = "ACTIVE"
          /\ state' = "STOPPING_TIMER" /\ timer' = "STOPPING" /\ timedout' = TRUE
          /\ UNCHANGED <<surveyid, outpipes, pipe, sent, aborted>>
       \/ state # "ACTIVE" /\ Abort
    /\ UNCHANGED <<sock, resp, taken, wrong>>

\* NN_TIMER_STOPPED, which the worker reports some time after the stop.
TimerStopped ==
    /\ timer = "STOPPING"
    /\ \/ state = "CANCELLING" /\ Ask(surveyid) /\ UNCHANGED <<sock, surveyid, timedout>>
       \/ /\ state = "STOPPING_TIMER" /\ state' = "PASSIVE" /\ timer' = "IDLE"
          /\ UNCHANGED <<sock, surveyid, timedout, outpipes, pipe, sent, aborted>>
       \/ /\ state = "STOPPING" /\ state' = "IDLE" /\ timer' = "IDLE" /\ sock' = "FINI"
          /\ UNCHANGED <<surveyid, timedout, outpipes, pipe, sent, aborted>>
       \/ state \in {"IDLE", "PASSIVE", "ACTIVE"} /\ Abort /\ UNCHANGED sock
    /\ UNCHANGED <<resp, taken, wrong>>

\* nn_close; nn_surveyor_stop is called when all endpoints are gone.
Close ==
    /\ sock = "ACTIVE" /\ sock' = "CLOSING"
    /\ UNCHANGED <<fsm, outpipes, resp, pipe, seen, aborted>>

Stop ==
    /\ sock = "CLOSING" /\ Mine = {}
    /\ IF timer = "IDLE" THEN sock' = "FINI" /\ state' = "IDLE" /\ timer' = timer
       ELSE sock' = "STOPPING" /\ state' = "STOPPING" /\ timer' = "STOPPING"
    /\ UNCHANGED <<surveyid, timedout, outpipes, resp, pipe, seen, aborted>>

-----------------------------------------------------------------------------
(* The pipes.                                                               *)

\* nn_xsurveyor_add at the one end, nn_xrespondent_add at the other.
Connect(p, asker, r) ==
    /\ pipe[p] = NoPipe /\ (asker = "surveyor" => sock = "ACTIVE")
    /\ pipe' = [pipe EXCEPT ![p] = [NoPipe EXCEPT !.asker = asker, !.to = r,
                                                  !.here = TRUE, !.there = TRUE]]
    /\ resp' = [resp EXCEPT ![r] = Add(@, p)]
    /\ aborted' = DuplicateKey(resp'[r])
    /\ UNCHANGED <<sock, fsm, outpipes, seen>>

\* NN_PIPE_OUT at each end: the last message was passed on.
OutHere(p) ==
    /\ p \in Mine /\ pipe[p].ask = NULL /\ p \notin outpipes
    /\ aborted' = DistOutFails(outpipes, p)
    /\ outpipes' = DistOut(outpipes, p)
    /\ UNCHANGED <<sock, fsm, resp, pipe, seen>>

OutThere(p) ==
    /\ pipe[p].there /\ pipe[p].answer = NULL /\ p \notin resp[pipe[p].to].out
    /\ resp' = [resp EXCEPT ![pipe[p].to] = Out(@, p)]
    /\ UNCHANGED <<sock, fsm, outpipes, pipe, seen, aborted>>

\* The connection breaks; each end removes its pipe when it finds out, and what
\* had not been read at that end is lost.
RmHere(p) ==
    /\ pipe[p].here
    /\ pipe' = [pipe EXCEPT ![p].here = FALSE, ![p].answer = NULL]
    /\ outpipes' = IF pipe[p].asker = "surveyor" THEN DistRm(outpipes, p) ELSE outpipes
    /\ UNCHANGED <<sock, fsm, resp, seen, aborted>>

RmThere(p) ==
    /\ pipe[p].there
    /\ pipe' = [pipe EXCEPT ![p].there = FALSE, ![p].ask = NULL]
    /\ resp' = [resp EXCEPT ![pipe[p].to] = Rm(@, p)]
    /\ UNCHANGED <<sock, fsm, outpipes, seen, aborted>>

\* A device passes on a question of somebody else, and takes the answer.
DeviceAsks(p) ==
    /\ pipe[p].asker = "device" /\ pipe[p].here /\ pipe[p].ask = NULL
    /\ \E h \in DeviceHeader :
          pipe' = [pipe EXCEPT ![p].ask =
                      [stack |-> h.stack, id |-> h.id, says |-> Question(p, h.stack, h.id)]]
    /\ UNCHANGED <<sock, fsm, outpipes, resp, seen, aborted>>

DeviceTakes(p) ==
    /\ pipe[p].asker = "device" /\ pipe[p].here /\ pipe[p].answer # NULL
    /\ pipe' = [pipe EXCEPT ![p].answer = NULL]
    /\ UNCHANGED <<sock, fsm, outpipes, resp, seen, aborted>>

-----------------------------------------------------------------------------
(* The respondents.                                                         *)

\* nn_respondent_recv: a survey, or nothing; either way the last one is over.
RespRecv(r) ==
    /\ \/ \E p \in Pipe :
             /\ Has(resp[r], p) /\ pipe[p].ask # NULL
             /\ resp' = [resp EXCEPT ![r] = Recv(@, p, pipe[p].ask)]
             /\ pipe' = [pipe EXCEPT ![p].ask = NULL]
       \/ /\ \A p \in Pipe : Has(resp[r], p) => pipe[p].ask = NULL
          /\ resp[r].working /\ resp' = [resp EXCEPT ![r] = Cancelled(@)]
          /\ UNCHANGED pipe
    /\ UNCHANGED <<sock, fsm, outpipes, seen, aborted>>

\* nn_respondent_send: EFSM, which changes nothing, unless a survey was read.
RespSend(r) ==
    /\ resp[r].working
    /\ LET to == Destination(resp[r])
       IN /\ resp' = [resp EXCEPT ![r] = Answered(@, to)]
          /\ pipe' = [p \in Pipe |-> IF p \in to /\ pipe[p].here
                                     THEN [pipe[p] EXCEPT !.answer = Answer(resp[r])]
                                     ELSE pipe[p]]
          /\ aborted' = (\E p \in to : pipe[p].answer # NULL)
    /\ UNCHANGED <<sock, fsm, outpipes, seen>>

-----------------------------------------------------------------------------
User == Send \/ RecvAnswer \/ RecvNothing \/ RecvTimedOut \/ Close

Network ==
    \/ \E p \in Pipe, asker \in {"surveyor", "device"}, r \in Respondent : Connect(p, asker, r)
    \/ \E p \in Pipe : \/ OutHere(p) \/ OutThere(p) \/ RmHere(p) \/ RmThere(p)
                       \/ DeviceAsks(p) \/ DeviceTakes(p)

Respondents == \E r \in Respondent : RespRecv(r) \/ RespSend(r)

Next == ~aborted /\ (User \/ Timeout \/ TimerStopped \/ Stop \/ Network \/ Respondents)

\* Timers fire and are stopped; a socket that closes gets rid of its pipes.
Fairness ==
    /\ WF_vars(~aborted /\ (Timeout \/ TimerStopped)) /\ WF_vars(~aborted /\ Stop)
    /\ \A p \in Pipe : WF_vars(~aborted /\ sock = "CLOSING" /\ p \in Mine /\ RmHere(p))

Spec == Init /\ [][Next]_vars /\ Fairness

-----------------------------------------------------------------------------
TypeOK ==
    /\ sock \in {"ACTIVE", "CLOSING", "STOPPING", "FINI"}
    /\ state \in {"IDLE", "PASSIVE", "ACTIVE", "CANCELLING", "STOPPING_TIMER", "STOPPING"}
    /\ timer \in {"IDLE", "ACTIVE", "STOPPING"}
    /\ surveyid \in 0 .. MaxSurveys
    /\ outpipes \subseteq Pipe /\ sent \in 0 .. MaxSurveys

\* No event reaches the surveyor's state machine in a state that does not expect
\* it, nothing is sent on a pipe that is gone or not ready, no pipe is entered
\* twice in the distributor, and no key twice in the hash.
NeverAborts == TypeOK /\ ~aborted

\* The user of a surveyor gets answers to the survey in progress only, each from
\* the pipe it was asked on, and no pipe's answer twice (nn_surveyor_recv).
OwnAnswers == ~wrong

\* What comes back on a connection is an answer to what was asked on it, with
\* the header it was asked under, even if connections were broken and made while
\* the respondent worked (the keys and backtraces of xrespondent.c and xrep.c).
Routed ==
    \A p \in Pipe : pipe[p].answer # NULL =>
        LET a == pipe[p].answer
        IN a.says = Question(p, a.stack, a.id) /\ Len(a.stack) < MaxTtl

\* A survey that is started is sent before its deadline runs, unless another one
\* takes its place or the socket is closed; if no more are started it comes to an
\* end without anybody's help; and so does the closing of the socket (the timer
\* and its stop in nn_surveyor_handler and nn_surveyor_shutdown).
SurveyEnds ==
    /\ [](state \in {"PASSIVE", "ACTIVE", "STOPPING_TIMER"} => sent = surveyid)
    /\ InProgress ~> ~InProgress
    /\ sock = "CLOSING" ~> sock = "FINI"
=============================================================================
