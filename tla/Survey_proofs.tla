---------------------------- MODULE Survey_proofs ----------------------------
(* Surveys, for any connections, respondents, devices and number of surveys: *)
(* no event is unexpected and no pipe is used that is not ready, answers go  *)
(* back the way the question came, and the user gets an answer of each pipe  *)
(* once, to his own survey.                                                  *)
EXTENDS Survey, SequenceTheorems, TLAPS

\* The types of what TypeOK leaves out.
Message == [stack : Seq(Nat), id : Nat \cup {NULL},
            says : [pipe : Pipe, stack : Seq(Nat), id : Nat \cup {NULL}]]

Connection ==
    [asker : {NULL, "surveyor", "device"}, to : Respondent \cup {NULL},
     here : BOOLEAN, there : BOOLEAN,
     ask : Message \cup {NULL}, answer : Message \cup {NULL}]

Socket ==
    [keys : [Pipe -> Nat \cup {NULL}], next : Nat, out : SUBSET Pipe,
     working : BOOLEAN, back : Message \cup {NULL}]

Types ==
    /\ TypeOK
    /\ pipe \in [Pipe -> Connection]
    /\ resp \in [Respondent -> Socket]

\* The timer runs and is stopped exactly in the states that wait for it.
Machine ==
    /\ sock \in {"ACTIVE", "CLOSING"} =>
          /\ state \in {"PASSIVE", "ACTIVE", "CANCELLING", "STOPPING_TIMER"}
          /\ state = "PASSIVE" => timer = "IDLE"
          /\ state = "ACTIVE" => timer = "ACTIVE"
          /\ state \in {"CANCELLING", "STOPPING_TIMER"} => timer = "STOPPING"
    /\ sock = "STOPPING" => state = "STOPPING" /\ timer = "STOPPING"
    /\ sock = "FINI" => state = "IDLE" /\ timer = "IDLE"

\* The surveyor has sent the survey it counts, but for one it is going to send.
\* Nobody has answered what was not sent.
Counted ==
    /\ sent <= surveyid
    /\ state \in {"PASSIVE", "ACTIVE", "STOPPING_TIMER"} => sent = surveyid
    /\ state = "CANCELLING" => sent < surveyid
    /\ sent < surveyid => taken = {}

\* What is in the distributor can take a survey.
Ready == \A p \in outpipes : p \in Mine /\ pipe[p].ask = NULL

\* A respondent has a key for each pipe that ends there, all different, and can
\* answer on those that have room.
KeyedAt(r, p) ==
    /\ Has(resp[r], p) <=> pipe[p].there /\ pipe[p].to = r
    /\ Has(resp[r], p) =>
          /\ resp[r].keys[p] < resp[r].next
          /\ \A q \in Pipe : resp[r].keys[q] = resp[r].keys[p] => q = p
    /\ p \in resp[r].out => Has(resp[r], p) /\ pipe[p].answer = NULL

Keyed ==
    /\ \A p \in Pipe : pipe[p].there => pipe[p].to \in Respondent
    /\ \A r \in Respondent, p \in Pipe : KeyedAt(r, p)

\* What is said was asked on pipe p with this stack and id.
AskedOn(p, stack, id, says) ==
    /\ pipe[p].asker # NULL
    /\ says = Question(p, stack, id)
    /\ pipe[p].asker = "surveyor" => stack = <<>> /\ id \in 0 .. sent

Told ==
    \A p \in Pipe :
        /\ pipe[p].ask # NULL =>
              AskedOn(p, pipe[p].ask.stack, pipe[p].ask.id, pipe[p].ask.says)
        /\ pipe[p].answer # NULL =>
              /\ AskedOn(p, pipe[p].answer.stack, pipe[p].answer.id, pipe[p].answer.says)
              /\ Len(pipe[p].answer.stack) < MaxTtl

\* Message b, which respondent r works on, came from the pipe that has, or had,
\* the key on top of its stack.
Trace(r, b) ==
    /\ b \in Message /\ b.stack # <<>> /\ Len(b.stack) <= MaxTtl
    /\ Head(b.stack) < resp[r].next
    /\ \A p \in Pipe : resp[r].keys[p] = Head(b.stack) => p = b.says.pipe
    /\ AskedOn(b.says.pipe, Tail(b.stack), b.id, b.says)
    /\ pipe[b.says.pipe].to = r

Traced == \A r \in Respondent : resp[r].working => Trace(r, resp[r].back)

\* The survey in progress on a pipe of the surveyor: asked, worked on, answered,
\* or its answer taken, and only one of these.
Asked(p) == pipe[p].ask # NULL /\ pipe[p].ask.id = surveyid
WorkedOn(p) ==
    \E r \in Respondent : /\ resp[r].working /\ resp[r].back.says.pipe = p
                          /\ resp[r].back.id = surveyid
AnsweredOn(p) == pipe[p].answer # NULL /\ pipe[p].answer.id = surveyid

Once ==
    \A p \in Pipe : pipe[p].asker = "surveyor" =>
        /\ Asked(p) => ~WorkedOn(p) /\ ~AnsweredOn(p) /\ p \notin taken
        /\ WorkedOn(p) => ~AnsweredOn(p) /\ p \notin taken
        /\ AnsweredOn(p) => p \notin taken

\* The inductive invariant.  OwnAnswers and Routed rest on where every message and
\* every backtrace came from (Told, Traced), on keys that stay unique (Keyed), and
\* on the one place where the survey in progress is (Once).
IInv ==
    /\ Types /\ Machine /\ Counted /\ Ready /\ Keyed /\ Told /\ Traced /\ Once
    /\ aborted = FALSE /\ wrong = FALSE

-----------------------------------------------------------------------------
(* What the operators of Responder return.                                  *)

\* The key on top of the stack can be taken off again.
LEMMA Pushed ==
    ASSUME NEW k \in Nat, NEW s \in Seq(Nat)
    PROVE  /\ <<k>> \o s \in Seq(Nat) /\ <<k>> \o s # <<>>
           /\ Head(<<k>> \o s) = k /\ Tail(<<k>> \o s) = s
           /\ Len(<<k>> \o s) = Len(s) + 1
<1> DEFINE t == <<k>> \o s
<1>1. t \in Seq(Nat) /\ Len(t) = Len(s) + 1
  OBVIOUS
<1>2. t # <<>> /\ t[1] = k /\ \A i \in 1 .. Len(s) : t[i + 1] = s[i]
  OBVIOUS
<1>3. Head(t) = k
  BY <1>1, <1>2
<1>4. Tail(t) \in Seq(Nat) /\ Len(Tail(t)) = Len(s)
      /\ \A i \in 1 .. Len(s) : Tail(t)[i] = s[i]
  BY <1>1, <1>2
<1>5. Tail(t) = s
  BY <1>4
<1>6. QED
  BY <1>1, <1>2, <1>3, <1>5

\* What is read keeps the key of its pipe on top of the stack, and the rest below.
LEMMA Received ==
    ASSUME NEW q \in Socket, NEW p \in Pipe, Has(q, p), NEW msg \in Message
    PROVE  LET n == Recv(q, p, msg)
           IN /\ n \in Socket
              /\ n.keys = q.keys /\ n.next = q.next /\ n.out = q.out
              /\ n.working => /\ n.back \in Message /\ n.back.stack # <<>>
                              /\ Head(n.back.stack) = q.keys[p]
                              /\ Tail(n.back.stack) = msg.stack
                              /\ Len(n.back.stack) <= MaxTtl
                              /\ n.back.id = msg.id /\ n.back.says = msg.says
<1>1. CASE ~Accepts(msg)
  BY <1>1 DEF Recv, Cancelled, Socket
<1>2. CASE Accepts(msg)
  <2> DEFINE b == [msg EXCEPT !.stack = <<q.keys[p]>> \o @]
  <2>1. q.keys[p] \in Nat /\ msg.stack \in Seq(Nat)
    BY DEF Has, Socket, Message
  <2>2. b.stack = <<q.keys[p]>> \o msg.stack /\ b.id = msg.id /\ b.says = msg.says
    BY DEF Message
  <2>3. b.stack \in Seq(Nat) /\ b.stack # <<>> /\ Head(b.stack) = q.keys[p]
        /\ Tail(b.stack) = msg.stack /\ Len(b.stack) = Len(msg.stack) + 1
    BY <2>1, <2>2, Pushed
  <2>4. b \in Message
    BY <2>2, <2>3 DEF Message
  <2>5. Len(b.stack) <= MaxTtl
    BY <1>2, <2>1, <2>3, ResponderAssumption DEF Accepts
  <2> HIDE DEF b
  <2>6. Recv(q, p, msg) = [q EXCEPT !.working = TRUE, !.back = b]
    BY <1>2 DEF Recv, b
  <2>7. QED
    BY <2>2, <2>3, <2>4, <2>5, <2>6 DEF Socket
<1>3. QED
  BY <1>1, <1>2

-----------------------------------------------------------------------------
(* The steps of the surveyor that touch no message.                         *)

\* The timer, the user's ETIMEDOUT and the end of the socket.
LEMMA SurveyorAlone ==
    ASSUME IInv,
           \/ RecvTimedOut \/ Close \/ Stop
           \/ Timeout
           \/ TimerStopped /\ state # "CANCELLING"
           \/ UNCHANGED vars
    PROVE  IInv'
<1>1. /\ UNCHANGED <<surveyid, outpipes, resp, pipe, seen, aborted>>
      /\ Machine' /\ TypeOK'
      /\ state' = state \/ state' = "STOPPING" \/ state' = "IDLE"
         \/ (state = "ACTIVE" /\ state' = "STOPPING_TIMER")
         \/ (state = "STOPPING_TIMER" /\ state' = "PASSIVE")
  <2>1. CASE RecvTimedOut
    BY <2>1 DEF IInv, RecvTimedOut, Machine, Types, TypeOK, seen
  <2>2. CASE Close
    BY <2>2 DEF IInv, Close, Machine, Types, TypeOK, seen, fsm
  <2>3. CASE Stop
    BY <2>3 DEF IInv, Stop, Machine, Types, TypeOK, seen, fsm
  <2>4. CASE Timeout
    BY <2>4 DEF IInv, Timeout, Machine, Types, TypeOK, seen, fsm
  <2>5. CASE TimerStopped /\ state # "CANCELLING"
    BY <2>5 DEF IInv, TimerStopped, Machine, Types, TypeOK, seen, fsm
  <2>6. CASE UNCHANGED vars
    BY <2>6 DEF IInv, vars, Machine, Types, TypeOK, seen, fsm
  <2>7. QED
    BY <2>1, <2>2, <2>3, <2>4, <2>5, <2>6
<1>2. Types' /\ Ready' /\ Keyed' /\ Told' /\ Traced'
  BY <1>1 DEF IInv, Types, Ready, Mine, Keyed, KeyedAt, Told, Traced, Trace, AskedOn, seen
<1>3. Once'
  BY <1>1 DEF IInv, Once, Asked, WorkedOn, AnsweredOn, seen
<1>4. Counted' /\ aborted' = FALSE /\ wrong' = FALSE
  BY <1>1 DEF IInv, Counted, Types, TypeOK, seen
<1>5. QED
  BY <1>1, <1>2, <1>3, <1>4 DEF IInv

-----------------------------------------------------------------------------
(* A survey is sent, or is about to be.                                     *)

\* What the surveyor has sent before are other surveys.
LEMMA NotYet ==
    ASSUME IInv, NEW n \in Nat, sent < n
    PROVE  \A p \in Pipe : pipe[p].asker = "surveyor" =>
               /\ pipe[p].ask # NULL => pipe[p].ask.id # n
               /\ pipe[p].answer # NULL => pipe[p].answer.id # n
               /\ \A r \in Respondent :
                     resp[r].working /\ resp[r].back.says.pipe = p => resp[r].back.id # n
<1>1. \A p \in Pipe : \A stack, id, says :
         AskedOn(p, stack, id, says) /\ pipe[p].asker = "surveyor" => id # n
  BY DEF AskedOn, IInv, Types, TypeOK
<1>2. QED
  BY <1>1 DEF IInv, Told, Traced, Trace

\* nn_surveyor_send while a survey is in progress.
LEMMA CancelKeeps ==
    ASSUME IInv, Send, InProgress
    PROVE  IInv'
<1>1. /\ sock = "ACTIVE" /\ UNCHANGED <<sock, outpipes, pipe, resp, sent, aborted, wrong>>
      /\ surveyid' = surveyid + 1 /\ surveyid' \in 0 .. MaxSurveys /\ taken' = {}
      /\ state' = "CANCELLING"
      /\ timer' = IF state = "ACTIVE" THEN "STOPPING" ELSE timer
  BY SurveyAssumption DEF IInv, Types, TypeOK, Send, Cancel
<1>2. sent <= surveyid /\ surveyid \in Nat /\ sent \in Nat
  BY SurveyAssumption DEF IInv, Counted, Types, TypeOK
<1>3. TypeOK' /\ Machine' /\ Counted'
  BY <1>1, <1>2 DEF IInv, Types, TypeOK, Machine, Counted, InProgress
<1>4. Types' /\ Ready' /\ Keyed' /\ Told' /\ Traced'
  BY <1>1, <1>3 DEF IInv, Types, Ready, Mine, Keyed, KeyedAt, Told, Traced, Trace, AskedOn
<1>5. Once'
  <2>1. surveyid' \in Nat /\ sent < surveyid'
    BY <1>1, <1>2
  <2>2. \A p \in Pipe : pipe[p].asker = "surveyor" =>
            ~Asked(p)' /\ ~AnsweredOn(p)' /\ ~WorkedOn(p)'
    BY <1>1, <2>1, NotYet DEF Asked, AnsweredOn, WorkedOn
  <2>3. QED
    BY <1>1, <2>2 DEF Once
<1>6. QED
  BY <1>1, <1>3, <1>4, <1>5 DEF IInv

\* nn_surveyor_resend: survey n, which is a new one.
LEMMA AskKeeps ==
    ASSUME IInv, NEW n \in 1 .. MaxSurveys, Ask(n), sent < n,
           surveyid' = n, taken' = {}, UNCHANGED <<sock, resp, wrong>>,
           sock \in {"ACTIVE", "CLOSING"}
    PROVE  IInv'
<1> DEFINE survey(p) == [stack |-> <<>>, id |-> n, says |-> Question(p, <<>>, n)]
<1>1. /\ state' = "ACTIVE" /\ timer' = "ACTIVE" /\ sent' = n /\ outpipes' = {}
      /\ pipe' = [p \in Pipe |-> IF p \in outpipes THEN [pipe[p] EXCEPT !.ask = survey(p)]
                                                  ELSE pipe[p]]
      /\ aborted' = (\E p \in outpipes : p \notin Mine \/ pipe[p].ask # NULL)
  BY DEF Ask, Receivers, DistSent
<1>2. aborted' = FALSE
  BY <1>1 DEF IInv, Ready
<1>3. TypeOK' /\ Machine' /\ Counted' /\ Ready'
  BY <1>1, SurveyAssumption DEF IInv, Types, TypeOK, Machine, Counted, Ready
<1>4. \A p \in Pipe : /\ survey(p) \in Message
                      /\ survey(p).stack = <<>> /\ survey(p).id = n
                      /\ survey(p).says = Question(p, <<>>, n)
  BY SurveyAssumption DEF Message, Question
<1> HIDE DEF survey
<1>5. \A p \in Pipe :
          /\ pipe[p] \in Connection
          /\ pipe'[p].asker = pipe[p].asker /\ pipe'[p].to = pipe[p].to
          /\ pipe'[p].here = pipe[p].here /\ pipe'[p].there = pipe[p].there
          /\ pipe'[p].answer = pipe[p].answer
          /\ p \in outpipes => pipe'[p].ask = survey(p) /\ pipe[p].asker = "surveyor"
          /\ p \notin outpipes => pipe'[p].ask = pipe[p].ask
  BY <1>1 DEF IInv, Types, Connection, Ready, Mine
<1>6. pipe' \in [Pipe -> Connection]
  BY <1>1, <1>4, <1>5 DEF Connection
<1>7. Types'
  BY <1>3, <1>6 DEF IInv, Types
<1>8. Keyed'
  <2>1. \A r \in Respondent, p \in Pipe :
            /\ Has(resp'[r], p) <=> Has(resp[r], p)
            /\ resp'[r] = resp[r]
    BY DEF Has
  <2>2. QED
    BY <1>5, <2>1 DEF IInv, Keyed, KeyedAt
<1>9. \A p \in Pipe : \A stack, id, says : AskedOn(p, stack, id, says) => AskedOn(p, stack, id, says)'
  BY <1>1, <1>5 DEF AskedOn, IInv, Types, TypeOK
<1>10. Told'
  <2>1. ASSUME NEW p \in Pipe, p \in outpipes
        PROVE  AskedOn(p, <<>>, n, Question(p, <<>>, n))'
    <3>1. pipe'[p].asker = "surveyor" /\ "surveyor" # NULL
      BY <1>5, <2>1, SurveyAssumption
    <3>2. n \in 0 .. sent'
      BY <1>1, SurveyAssumption
    <3>3. QED
      BY <3>1, <3>2 DEF AskedOn, Question
  <2>2. ASSUME NEW p \in Pipe, pipe'[p].ask # NULL
        PROVE  AskedOn(p, pipe[p].ask.stack, pipe[p].ask.id, pipe[p].ask.says)'
    BY <1>4, <1>5, <1>9, <2>1, <2>2 DEF IInv, Told
  <2>3. ASSUME NEW p \in Pipe, pipe'[p].answer # NULL
        PROVE  /\ AskedOn(p, pipe[p].answer.stack, pipe[p].answer.id, pipe[p].answer.says)'
               /\ Len(pipe'[p].answer.stack) < MaxTtl
    BY <1>5, <1>9, <2>3 DEF IInv, Told
  <2>4. QED
    BY <2>2, <2>3 DEF Told
<1>11. Traced'
  BY <1>5, <1>9 DEF IInv, Traced, Trace, Message
<1>12. Once'
  <2>1. \A p \in Pipe : pipe[p].asker = "surveyor" => ~AnsweredOn(p)' /\ ~WorkedOn(p)'
    <3>1. n \in Nat
      BY SurveyAssumption
    <3>2. QED
      BY <1>5, <3>1, NotYet DEF AnsweredOn, WorkedOn
  <2>2. QED
    BY <1>5, <2>1 DEF Once
<1>13. QED
  BY <1>2, <1>3, <1>7, <1>8, <1>10, <1>11, <1>12 DEF IInv

\* nn_surveyor_send.
LEMMA SendKeeps ==
    ASSUME IInv, Send
    PROVE  IInv'
<1>1. CASE InProgress
  BY <1>1, CancelKeeps
<1>2. CASE ~InProgress
  <2>1. /\ sock = "ACTIVE" /\ surveyid + 1 \in 1 .. MaxSurveys /\ Ask(surveyid + 1)
        /\ surveyid' = surveyid + 1 /\ taken' = {} /\ UNCHANGED <<sock, resp, wrong>>
    BY <1>2, SurveyAssumption DEF Send, IInv, Types, TypeOK
  <2>2. sent < surveyid + 1
    BY SurveyAssumption DEF IInv, Counted, Types, TypeOK
  <2>3. QED
    BY <2>1, <2>2, AskKeeps
<1>3. QED
  BY <1>1, <1>2

\* NN_TIMER_STOPPED after a survey was cancelled.
LEMMA ResendKeeps ==
    ASSUME IInv, TimerStopped, state = "CANCELLING"
    PROVE  IInv'
<1>1. /\ Ask(surveyid) /\ surveyid' = surveyid /\ UNCHANGED <<sock, resp, taken, wrong>>
  BY DEF TimerStopped
<1>2. sent < surveyid /\ taken = {} /\ surveyid \in 1 .. MaxSurveys
  BY SurveyAssumption DEF IInv, Counted, Types, TypeOK
<1>3. sock \in {"ACTIVE", "CLOSING"}
  BY DEF IInv, Machine, Types, TypeOK
<1>4. QED
  BY <1>1, <1>2, <1>3, AskKeeps

-----------------------------------------------------------------------------
(* Messages that are read or lost, and pipes that have room or go away.      *)

\* Where nothing is said or worked on that was not before, and no key is given.
LEMMA NothingSaid ==
    ASSUME IInv, UNCHANGED <<sock, fsm, seen>>,
           \A p \in Pipe : /\ pipe'[p].asker = pipe[p].asker /\ pipe'[p].to = pipe[p].to
                           /\ pipe'[p].ask = pipe[p].ask \/ pipe'[p].ask = NULL
                           /\ pipe'[p].answer = pipe[p].answer \/ pipe'[p].answer = NULL,
           \A r \in Respondent :
               /\ resp'[r].next = resp[r].next
               /\ resp'[r].working => resp[r].working /\ resp'[r].back = resp[r].back
               /\ \A p \in Pipe :
                     resp'[r].keys[p] = resp[r].keys[p] \/ resp'[r].keys[p] = NULL
    PROVE  Machine' /\ Counted' /\ Told' /\ Traced' /\ Once' /\ wrong' = FALSE
<1>1. Machine' /\ Counted' /\ wrong' = FALSE
  BY DEF IInv, Machine, Counted, fsm, seen
<1>2. \A p \in Pipe : \A stack, id, says : AskedOn(p, stack, id, says) => AskedOn(p, stack, id, says)'
  BY DEF AskedOn, seen
<1>3. Told'
  <2>1. ASSUME NEW p \in Pipe, pipe'[p].ask # NULL
        PROVE  AskedOn(p, pipe[p].ask.stack, pipe[p].ask.id, pipe[p].ask.says)'
    BY <1>2, <2>1 DEF IInv, Told
  <2>2. ASSUME NEW p \in Pipe, pipe'[p].answer # NULL
        PROVE  /\ AskedOn(p, pipe[p].answer.stack, pipe[p].answer.id, pipe[p].answer.says)'
               /\ Len(pipe'[p].answer.stack) < MaxTtl
    BY <1>2, <2>2 DEF IInv, Told
  <2>3. QED
    BY <2>1, <2>2 DEF Told
<1>4. Traced'
  <2>1. ASSUME NEW r \in Respondent, NEW b, Trace(r, b)
        PROVE  Trace(r, b)'
    <3>1. b.says.pipe \in Pipe /\ b.stack \in Seq(Nat) /\ b.stack # <<>>
      BY <2>1 DEF Trace, Message
    <3>2. Head(b.stack) # NULL
      BY <3>1, ResponderAssumption
    <3>3. QED
      BY <1>2, <2>1, <3>1, <3>2 DEF Trace
  <2>2. QED
    BY <2>1 DEF IInv, Traced
<1>5. Once'
  <2>1. UNCHANGED <<surveyid, taken>>
    BY DEF fsm, seen
  <2>2. \A p \in Pipe :
           /\ Asked(p)' => Asked(p)
           /\ WorkedOn(p)' => WorkedOn(p)
           /\ AnsweredOn(p)' => AnsweredOn(p)
    BY <2>1 DEF Asked, WorkedOn, AnsweredOn
  <2>3. QED
    BY <2>1, <2>2 DEF IInv, Once
<1>6. QED
  BY <1>1, <1>3, <1>4, <1>5

\* The messages of ps are taken out.
LEMMA TakenFacts ==
    ASSUME IInv, NEW ps \in SUBSET Pipe, pipe' = Taken(ps)
    PROVE  /\ pipe' \in [Pipe -> Connection]
           /\ \A p \in Pipe :
                 /\ pipe'[p].asker = pipe[p].asker /\ pipe'[p].to = pipe[p].to
                 /\ pipe'[p].here = pipe[p].here /\ pipe'[p].there = pipe[p].there
                 /\ pipe'[p].ask = pipe[p].ask
                 /\ pipe'[p].answer = IF p \in ps THEN NULL ELSE pipe[p].answer
  BY DEF IInv, Types, Connection, Taken

\* nn_surveyor_recv when only stale answers are there.
LEMMA RecvNothingKeeps ==
    ASSUME IInv, RecvNothing
    PROVE  IInv'
<1>1. UNCHANGED <<sock, fsm, outpipes, resp, seen, aborted>> /\ pipe' = Taken(Arrived)
  BY DEF RecvNothing
<1>2. Arrived \in SUBSET Pipe
  BY DEF Arrived, Mine
<1> DEFINE ps == Arrived
<1>3. /\ pipe' \in [Pipe -> Connection]
      /\ \A p \in Pipe :
            /\ pipe'[p].asker = pipe[p].asker /\ pipe'[p].to = pipe[p].to
            /\ pipe'[p].here = pipe[p].here /\ pipe'[p].there = pipe[p].there
            /\ pipe'[p].ask = pipe[p].ask
            /\ pipe'[p].answer = NULL \/ pipe'[p].answer = pipe[p].answer
  BY <1>1, <1>2, TakenFacts
<1>4. Machine' /\ Counted' /\ Told' /\ Traced' /\ Once' /\ wrong' = FALSE
  BY <1>1, <1>3, NothingSaid
<1>5. Types' /\ aborted' = FALSE
  BY <1>1, <1>3 DEF IInv, Types, TypeOK, fsm, seen
<1>6. Ready' /\ Keyed'
  BY <1>1, <1>3 DEF IInv, Ready, Keyed, KeyedAt, Mine, Has
<1>7. QED
  BY <1>4, <1>5, <1>6 DEF IInv

\* nn_xsurveyor_out.
LEMMA OutHereKeeps ==
    ASSUME IInv, NEW p \in Pipe, OutHere(p)
    PROVE  IInv'
<1>1. /\ UNCHANGED <<sock, fsm, resp, pipe, seen>> /\ outpipes' = outpipes \cup {p}
      /\ p \in Mine /\ pipe[p].ask = NULL
  BY DEF OutHere, DistOut
<1>2a. aborted' = FALSE
  <2>1. p \notin outpipes /\ aborted' = (p \in outpipes)
    BY DEF OutHere, DistOutFails
  <2>2. (p \in outpipes) = FALSE
    BY <2>1
  <2>3. QED
    BY <2>1, <2>2
<1>2. Machine' /\ Counted' /\ Told' /\ Traced' /\ Once' /\ wrong' = FALSE
  BY <1>1, NothingSaid
<1>3. Types' /\ Ready' /\ Keyed'
  BY <1>1 DEF IInv, Types, TypeOK, Ready, Keyed, KeyedAt, Mine, Has, fsm, seen
<1>4. QED
  BY <1>1, <1>2a, <1>2, <1>3 DEF IInv

\* nn_xrespondent_out.
LEMMA OutThereKeeps ==
    ASSUME IInv, NEW p \in Pipe, OutThere(p)
    PROVE  IInv'
<1> DEFINE r == pipe[p].to
<1>1. r \in Respondent /\ Has(resp[r], p) /\ pipe[p].answer = NULL
  BY SurveyAssumption DEF IInv, Types, Connection, Keyed, KeyedAt, OutThere, Has
<1> HIDE DEF r
<1>2. /\ UNCHANGED <<sock, fsm, outpipes, pipe, seen, aborted>>
      /\ resp' = [resp EXCEPT ![r].out = @ \cup {p}]
  BY DEF OutThere, Out, r
<1>3. /\ resp' \in [Respondent -> Socket]
      /\ \A x \in Respondent :
            /\ resp'[x].next = resp[x].next /\ resp'[x].keys = resp[x].keys
            /\ resp'[x].working = resp[x].working /\ resp'[x].back = resp[x].back
            /\ resp'[x].out = IF x = r THEN resp[x].out \cup {p} ELSE resp[x].out
  BY <1>1, <1>2 DEF IInv, Types, Socket
<1>4. Machine' /\ Counted' /\ Told' /\ Traced' /\ Once' /\ wrong' = FALSE
  BY <1>2, <1>3, NothingSaid
<1>5. Types' /\ Ready' /\ aborted' = FALSE
  BY <1>2, <1>3 DEF IInv, Types, TypeOK, Ready, Mine, fsm, seen
<1>6. Keyed'
  BY <1>1, <1>2, <1>3 DEF IInv, Keyed, KeyedAt, Has
<1>7. QED
  BY <1>4, <1>5, <1>6 DEF IInv

\* nn_xsurveyor_rm.
LEMMA RmHereKeeps ==
    ASSUME IInv, NEW p \in Pipe, RmHere(p)
    PROVE  IInv'
<1>1. /\ UNCHANGED <<sock, fsm, resp, seen, aborted>>
      /\ pipe' = [pipe EXCEPT ![p].here = FALSE, ![p].answer = NULL]
      /\ outpipes' \subseteq outpipes
      /\ pipe[p].asker = "surveyor" => p \notin outpipes'
  BY DEF RmHere, DistRm
<1>2. /\ pipe' \in [Pipe -> Connection]
      /\ \A x \in Pipe :
            /\ pipe'[x].asker = pipe[x].asker /\ pipe'[x].to = pipe[x].to
            /\ pipe'[x].there = pipe[x].there /\ pipe'[x].ask = pipe[x].ask
            /\ pipe'[x].here = IF x = p THEN FALSE ELSE pipe[x].here
            /\ pipe'[x].answer = IF x = p THEN NULL ELSE pipe[x].answer
  <2>1. pipe \in [Pipe -> Connection]
    BY DEF IInv, Types
  <2> DEFINE c == [pipe[p] EXCEPT !.here = FALSE, !.answer = NULL]
  <2>2. /\ c \in Connection /\ c.asker = pipe[p].asker /\ c.to = pipe[p].to
        /\ c.there = pipe[p].there /\ c.ask = pipe[p].ask
        /\ c.here = FALSE /\ c.answer = NULL
    BY <2>1 DEF Connection
  <2>3. pipe' = [pipe EXCEPT ![p] = c]
    BY <1>1
  <2> HIDE DEF c
  <2>4. QED
    BY <2>1, <2>2, <2>3
<1>3. Machine' /\ Counted' /\ Told' /\ Traced' /\ Once' /\ wrong' = FALSE
  BY <1>1, <1>2, NothingSaid
<1>4. Types' /\ aborted' = FALSE
  BY <1>1, <1>2 DEF IInv, Types, TypeOK, fsm, seen
<1>5. Ready' /\ Keyed'
  BY <1>1, <1>2 DEF IInv, Types, TypeOK, Ready, Keyed, KeyedAt, Mine, Has
<1>6. QED
  BY <1>3, <1>4, <1>5 DEF IInv

\* nn_xrespondent_rm.
LEMMA RmThereKeeps ==
    ASSUME IInv, NEW p \in Pipe, RmThere(p)
    PROVE  IInv'
<1> DEFINE r == pipe[p].to
<1>1. r \in Respondent /\ Has(resp[r], p)
  BY SurveyAssumption DEF IInv, Types, Connection, Keyed, KeyedAt, RmThere, Has
<1> HIDE DEF r
<1>2. /\ UNCHANGED <<sock, fsm, outpipes, seen, aborted>>
      /\ pipe' = [pipe EXCEPT ![p].there = FALSE, ![p].ask = NULL]
      /\ resp' = [resp EXCEPT ![r] = Rm(@, p)]
  BY DEF RmThere, r
<1>3. /\ pipe' \in [Pipe -> Connection]
      /\ \A x \in Pipe :
            /\ pipe'[x].asker = pipe[x].asker /\ pipe'[x].to = pipe[x].to
            /\ pipe'[x].here = pipe[x].here /\ pipe'[x].answer = pipe[x].answer
            /\ IF x = p THEN ~pipe'[x].there ELSE pipe'[x].there = pipe[x].there
            /\ pipe'[x].ask = IF x = p THEN NULL ELSE pipe[x].ask
  BY <1>2 DEF IInv, Types, Connection
<1>4. /\ resp' \in [Respondent -> Socket]
      /\ \A x \in Respondent :
            /\ resp'[x].next = resp[x].next
            /\ resp'[x].working = resp[x].working /\ resp'[x].back = resp[x].back
            /\ resp'[x].out \subseteq resp[x].out /\ (x = r => p \notin resp'[x].out)
            /\ \A y \in Pipe : resp'[x].keys[y] = IF x = r /\ y = p THEN NULL
                                                  ELSE resp[x].keys[y]
  BY <1>1, <1>2 DEF IInv, Types, Socket, Rm
<1>5. Machine' /\ Counted' /\ Told' /\ Traced' /\ Once' /\ wrong' = FALSE
  <2>1. \A x \in Respondent, y \in Pipe :
           resp'[x].keys[y] = resp[x].keys[y] \/ resp'[x].keys[y] = NULL
    BY <1>4
  <2>2. \A x \in Pipe :
           /\ pipe'[x].asker = pipe[x].asker /\ pipe'[x].to = pipe[x].to
           /\ pipe'[x].ask = pipe[x].ask \/ pipe'[x].ask = NULL
           /\ pipe'[x].answer = pipe[x].answer
    BY <1>3
  <2>3. QED
    BY <1>2, <1>4, <2>1, <2>2, NothingSaid
<1>6. Types' /\ Ready' /\ aborted' = FALSE
  BY <1>2, <1>3, <1>4 DEF IInv, Types, TypeOK, Ready, Mine, fsm, seen
<1>7. Keyed'
  <2>1. ASSUME NEW x \in Respondent, NEW y \in Pipe
        PROVE  KeyedAt(x, y)'
    <3>1. KeyedAt(x, y) /\ (x = r <=> pipe[p].to = x)
      BY DEF IInv, Keyed, r
    <3>2. CASE x = r /\ y = p
      BY <1>3, <1>4, <3>2 DEF KeyedAt, Has
    <3>3. CASE x # r \/ y # p
      BY <1>3, <1>4, <3>1, <3>3 DEF KeyedAt, Has
    <3>4. QED
      BY <3>2, <3>3
  <2>2. QED
    BY <1>3, <2>1 DEF IInv, Keyed
<1>8. QED
  BY <1>5, <1>6, <1>7 DEF IInv

\* A device takes the answer to what it passed on.
LEMMA DeviceTakesKeeps ==
    ASSUME IInv, NEW p \in Pipe, DeviceTakes(p)
    PROVE  IInv'
<1>1. /\ UNCHANGED <<sock, fsm, outpipes, resp, seen, aborted>>
      /\ pipe' = [pipe EXCEPT ![p].answer = NULL]
  BY DEF DeviceTakes
<1>2. /\ pipe' \in [Pipe -> Connection]
      /\ \A x \in Pipe :
            /\ pipe'[x].asker = pipe[x].asker /\ pipe'[x].to = pipe[x].to
            /\ pipe'[x].here = pipe[x].here /\ pipe'[x].there = pipe[x].there
            /\ pipe'[x].ask = pipe[x].ask
            /\ pipe'[x].answer = IF x = p THEN NULL ELSE pipe[x].answer
  BY <1>1 DEF IInv, Types, Connection
<1>3. Machine' /\ Counted' /\ Told' /\ Traced' /\ Once' /\ wrong' = FALSE
  BY <1>1, <1>2, NothingSaid
<1>4. Types' /\ aborted' = FALSE
  BY <1>1, <1>2 DEF IInv, Types, TypeOK, fsm, seen
<1>5. Ready' /\ Keyed'
  BY <1>1, <1>2 DEF IInv, Ready, Keyed, KeyedAt, Mine, Has
<1>6. QED
  BY <1>3, <1>4, <1>5 DEF IInv

\* nn_surveyor_recv: the answer of a pipe of which the user has none yet.
LEMMA RecvAnswerKeeps ==
    ASSUME IInv, RecvAnswer
    PROVE  IInv'
<1>1. PICK p \in Arrived, stale \in SUBSET Arrived :
         /\ ~StaleAnswer(p) /\ taken' = taken \cup {p}
         /\ wrong' = (wrong \/ p \in taken
                        \/ pipe[p].answer.says # Question(p, <<>>, surveyid))
         /\ pipe' = Taken(stale \cup {p})
  BY DEF RecvAnswer
<1>2. UNCHANGED <<sock, fsm, outpipes, resp, sent, aborted>>
  BY DEF RecvAnswer
<1>3. /\ p \in Pipe /\ pipe[p].asker = "surveyor" /\ pipe[p].answer # NULL
      /\ pipe[p].answer.id = surveyid /\ stale \cup {p} \in SUBSET Pipe
  BY <1>1 DEF Arrived, Mine, StaleAnswer
<1>4. /\ AnsweredOn(p) /\ ~Asked(p) /\ ~WorkedOn(p) /\ p \notin taken
  BY <1>3 DEF IInv, Once, AnsweredOn
<1>5. /\ AskedOn(p, pipe[p].answer.stack, surveyid, pipe[p].answer.says)
  BY <1>3 DEF IInv, Told
<1>6. pipe[p].answer.says = Question(p, <<>>, surveyid) /\ surveyid \in 0 .. sent
  BY <1>3, <1>5 DEF AskedOn
<1>7. wrong' = FALSE
  BY <1>1, <1>4, <1>6 DEF IInv
<1>8. /\ pipe' \in [Pipe -> Connection]
      /\ \A x \in Pipe :
            /\ pipe'[x].asker = pipe[x].asker /\ pipe'[x].to = pipe[x].to
            /\ pipe'[x].here = pipe[x].here /\ pipe'[x].there = pipe[x].there
            /\ pipe'[x].ask = pipe[x].ask
            /\ pipe'[x].answer = NULL \/ pipe'[x].answer = pipe[x].answer
      /\ pipe'[p].answer = NULL
  BY <1>1, <1>3, TakenFacts
<1>9. Types' /\ aborted' = FALSE
  BY <1>2, <1>8 DEF IInv, Types, TypeOK, fsm
<1>10. Ready' /\ Keyed'
  BY <1>2, <1>8 DEF IInv, Ready, Keyed, KeyedAt, Mine, Has
<1>11. Machine' /\ Counted'
  BY <1>2, <1>6, SurveyAssumption DEF IInv, Machine, Counted, Types, TypeOK, fsm
<1>12. Told' /\ Traced'
  <2>1. \A x \in Pipe : \A stack, id, says :
           AskedOn(x, stack, id, says) => AskedOn(x, stack, id, says)'
    BY <1>2, <1>8 DEF AskedOn
  <2>2. ASSUME NEW r \in Respondent, NEW b, Trace(r, b)
        PROVE  Trace(r, b)'
    BY <1>2, <1>8, <2>1, <2>2 DEF Trace, Message
  <2>3. Traced'
    BY <1>2, <2>2 DEF IInv, Traced
  <2>4. ASSUME NEW x \in Pipe, pipe'[x].answer # NULL
        PROVE  /\ AskedOn(x, pipe[x].answer.stack, pipe[x].answer.id, pipe[x].answer.says)'
               /\ Len(pipe'[x].answer.stack) < MaxTtl
    BY <1>8, <2>1, <2>4 DEF IInv, Told
  <2>5. ASSUME NEW x \in Pipe, pipe'[x].ask # NULL
        PROVE  AskedOn(x, pipe[x].ask.stack, pipe[x].ask.id, pipe[x].ask.says)'
    BY <1>8, <2>1, <2>5 DEF IInv, Told
  <2>6. QED
    BY <2>3, <2>4, <2>5 DEF Told
<1>13. Once'
  <2>1. \A x \in Pipe :
           /\ Asked(x)' => Asked(x)
           /\ WorkedOn(x)' => WorkedOn(x)
           /\ AnsweredOn(x)' => AnsweredOn(x) /\ x # p
    BY <1>2, <1>8 DEF Asked, WorkedOn, AnsweredOn, fsm
  <2>2. QED
    BY <1>1, <1>3, <1>4, <1>8, <2>1 DEF IInv, Once
<1>14. QED
  BY <1>7, <1>9, <1>10, <1>11, <1>12, <1>13 DEF IInv

-----------------------------------------------------------------------------
(* Connections are made, and devices ask.                                   *)

\* A device passes on a question, under a header of its own.
LEMMA DeviceAsksKeeps ==
    ASSUME IInv, NEW p \in Pipe, DeviceAsks(p)
    PROVE  IInv'
<1>1. PICK h \in DeviceHeader :
         pipe' = [pipe EXCEPT ![p].ask =
                     [stack |-> h.stack, id |-> h.id, says |-> Question(p, h.stack, h.id)]]
  BY DEF DeviceAsks
<1>2. /\ UNCHANGED <<sock, fsm, outpipes, resp, seen, aborted>>
      /\ pipe[p].asker = "device"
  BY DEF DeviceAsks
<1> DEFINE m == [stack |-> h.stack, id |-> h.id, says |-> Question(p, h.stack, h.id)]
<1>3. /\ m \in Message /\ m.stack = h.stack /\ m.id = h.id
      /\ m.says = Question(p, h.stack, h.id)
  BY SurveyAssumption DEF Message, Question
<1>4. pipe' = [pipe EXCEPT ![p].ask = m]
  BY <1>1
<1> HIDE DEF m
<1>5. /\ pipe' \in [Pipe -> Connection]
      /\ \A x \in Pipe :
            /\ pipe'[x].asker = pipe[x].asker /\ pipe'[x].to = pipe[x].to
            /\ pipe'[x].here = pipe[x].here /\ pipe'[x].there = pipe[x].there
            /\ pipe'[x].answer = pipe[x].answer
            /\ pipe'[x].ask = IF x = p THEN m ELSE pipe[x].ask
  BY <1>3, <1>4 DEF IInv, Types, Connection
<1>6. Types' /\ aborted' = FALSE /\ wrong' = FALSE
  BY <1>2, <1>5 DEF IInv, Types, TypeOK, fsm, seen
<1>7. Machine' /\ Counted'
  BY <1>2 DEF IInv, Machine, Counted, fsm, seen
<1>8. Ready' /\ Keyed'
  BY <1>2, <1>5 DEF IInv, Ready, Keyed, KeyedAt, Mine, Has
<1>9. \A x \in Pipe : \A stack, id, says :
         AskedOn(x, stack, id, says) => AskedOn(x, stack, id, says)'
  BY <1>2, <1>5 DEF AskedOn, seen
<1>10. Traced'
  <2>1. ASSUME NEW r \in Respondent, NEW b, Trace(r, b)
        PROVE  Trace(r, b)'
    BY <1>2, <1>5, <1>9, <2>1 DEF Trace, Message
  <2>2. QED
    BY <1>2, <2>1 DEF IInv, Traced
<1>11. Told'
  <2>1. AskedOn(p, m.stack, m.id, m.says)'
    BY <1>2, <1>3, <1>5, SurveyAssumption DEF AskedOn, Question
  <2>2. ASSUME NEW x \in Pipe, pipe'[x].ask # NULL
        PROVE  AskedOn(x, pipe[x].ask.stack, pipe[x].ask.id, pipe[x].ask.says)'
    BY <1>5, <1>9, <2>1, <2>2 DEF IInv, Told
  <2>3. ASSUME NEW x \in Pipe, pipe'[x].answer # NULL
        PROVE  /\ AskedOn(x, pipe[x].answer.stack, pipe[x].answer.id, pipe[x].answer.says)'
               /\ Len(pipe'[x].answer.stack) < MaxTtl
    BY <1>5, <1>9, <2>3 DEF IInv, Told
  <2>4. QED
    BY <2>2, <2>3 DEF Told
<1>12. Once'
  <2>1. \A x \in Pipe : pipe[x].asker = "surveyor" =>
           /\ Asked(x)' => Asked(x)
           /\ WorkedOn(x)' => WorkedOn(x)
           /\ AnsweredOn(x)' => AnsweredOn(x)
    BY <1>2, <1>5 DEF Asked, WorkedOn, AnsweredOn, fsm
  <2>2. QED
    BY <1>2, <1>5, <2>1 DEF IInv, Once, seen
<1>13. QED
  BY <1>6, <1>7, <1>8, <1>10, <1>11, <1>12 DEF IInv

\* nn_xsurveyor_add and nn_xrespondent_add: the new pipe's key is nobody's, and
\* no stack in use holds it.
LEMMA ConnectKeeps ==
    ASSUME IInv, NEW p \in Pipe, NEW asker \in {"surveyor", "device"}, NEW r \in Respondent,
           Connect(p, asker, r)
    PROVE  IInv'
<1> DEFINE c == [NoPipe EXCEPT !.asker = asker, !.to = r, !.here = TRUE, !.there = TRUE]
<1>1. /\ c \in Connection /\ c.asker = asker /\ c.to = r /\ c.here /\ c.there
      /\ c.ask = NULL /\ c.answer = NULL
  BY DEF NoPipe, Connection
<1>2. /\ UNCHANGED <<sock, fsm, outpipes, seen>> /\ pipe[p] = NoPipe
      /\ pipe' = [pipe EXCEPT ![p] = c]
      /\ resp' = [resp EXCEPT ![r] = Add(@, p)]
      /\ aborted' = DuplicateKey(resp'[r])
  BY DEF Connect
<1>3. /\ pipe[p].asker = NULL /\ pipe[p].to = NULL /\ ~pipe[p].here /\ ~pipe[p].there
      /\ pipe[p].ask = NULL /\ pipe[p].answer = NULL
  BY <1>2 DEF NoPipe
<1> HIDE DEF c
<1>4. /\ pipe' \in [Pipe -> Connection] /\ pipe'[p] = c
      /\ \A x \in Pipe : x # p => pipe'[x] = pipe[x]
  BY <1>1, <1>2 DEF IInv, Types
<1>5. /\ resp' \in [Respondent -> Socket]
      /\ \A x \in Respondent :
            /\ resp'[x].working = resp[x].working /\ resp'[x].back = resp[x].back
            /\ resp'[x].out = resp[x].out
            /\ \A y \in Pipe : resp'[x].keys[y] = IF x = r /\ y = p THEN resp[r].next
                                                  ELSE resp[x].keys[y]
            /\ resp'[x].next = IF x = r THEN resp[r].next + 1 ELSE resp[x].next
  <2> DEFINE n == Add(resp[r], p)
  <2>1. resp \in [Respondent -> Socket] /\ resp' = [resp EXCEPT ![r] = n]
    BY <1>2 DEF IInv, Types
  <2>2. /\ n \in Socket /\ n.next = resp[r].next + 1 /\ n.out = resp[r].out
        /\ n.working = resp[r].working /\ n.back = resp[r].back
        /\ \A y \in Pipe : n.keys[y] = IF y = p THEN resp[r].next ELSE resp[r].keys[y]
    <3> DEFINE q == resp[r]
               ks == [q.keys EXCEPT ![p] = q.next]
    <3>1. q \in Socket /\ q.next \in Nat /\ q.keys \in [Pipe -> Nat \cup {NULL}]
      BY <2>1 DEF Socket
    <3>2. /\ ks \in [Pipe -> Nat \cup {NULL}]
          /\ \A y \in Pipe : ks[y] = IF y = p THEN q.next ELSE q.keys[y]
      BY <3>1
    <3> DEFINE k == q.next + 1
    <3>3. n = [q EXCEPT !.keys = ks, !.next = k] /\ k \in Nat
      BY <3>1 DEF Add
    <3> HIDE DEF q, ks, k, n
    <3>4. n \in Socket /\ n.keys = ks
      BY <3>1, <3>2, <3>3 DEF Socket
    <3>5. n.next = k /\ n.out = q.out /\ n.working = q.working /\ n.back = q.back
      BY <3>1, <3>3 DEF Socket
    <3>6. QED
      BY <3>2, <3>4, <3>5 DEF q, k
  <2> HIDE DEF n
  <2>3. QED
    BY <2>1, <2>2
<1>6. \A x \in Respondent : ~Has(resp[x], p) /\ p \notin resp[x].out /\ resp[x].next \in Nat
  BY <1>3 DEF IInv, Types, Socket, Keyed, KeyedAt
<1>7. Keyed'
  <2>1. ASSUME NEW x \in Respondent, NEW y \in Pipe
        PROVE  KeyedAt(x, y)'
    <3>1. KeyedAt(x, y) /\ resp[x].next \in Nat /\ resp[x].keys \in [Pipe -> Nat \cup {NULL}]
      BY DEF IInv, Keyed, Types, Socket
    <3>2. \A q \in Pipe : Has(resp[x], q) => resp[x].keys[q] < resp[x].next
      BY DEF IInv, Keyed, KeyedAt
    <3>3. CASE y = p
      BY <1>1, <1>4, <1>5, <1>6, <3>1, <3>2, <3>3, ResponderAssumption DEF KeyedAt, Has
    <3>4. CASE y # p
      BY <1>4, <1>5, <1>6, <3>1, <3>4, ResponderAssumption DEF KeyedAt, Has
    <3>5. QED
      BY <3>3, <3>4
  <2>2. QED
    BY <1>1, <1>4, <2>1 DEF IInv, Keyed
<1>8. aborted' = FALSE
  <2>1. DuplicateKey(resp'[r]) = FALSE
    BY <1>7 DEF Keyed, KeyedAt, DuplicateKey, Has
  <2>2. QED
    BY <1>2, <2>1
<1>9. Types' /\ wrong' = FALSE
  BY <1>2, <1>4, <1>5 DEF IInv, Types, TypeOK, fsm, seen
<1>10. Machine' /\ Counted'
  BY <1>2 DEF IInv, Machine, Counted, fsm, seen
<1>11. Ready'
  BY <1>2, <1>3, <1>4 DEF IInv, Ready, Mine, Types, TypeOK
<1>12. \A x \in Pipe : \A stack, id, says :
         AskedOn(x, stack, id, says) => AskedOn(x, stack, id, says)' /\ x # p
  BY <1>2, <1>3, <1>4 DEF AskedOn, seen
<1>13. Traced'
  <2>1. ASSUME NEW x \in Respondent, NEW b, Trace(x, b)
        PROVE  Trace(x, b)'
    <3>1. b.says.pipe \in Pipe /\ b.stack \in Seq(Nat) /\ b.stack # <<>> /\ b.says.pipe # p
      BY <1>12, <2>1 DEF Trace, Message
    <3>2. Head(b.stack) \in Nat /\ resp[x].next \in Nat /\ Head(b.stack) < resp[x].next
      BY <1>6, <2>1, <3>1 DEF Trace
    <3>3. QED
      BY <1>4, <1>5, <1>12, <2>1, <3>1, <3>2 DEF Trace
  <2>2. QED
    BY <1>5, <2>1 DEF IInv, Traced
<1>14. Told'
  <2>1. ASSUME NEW x \in Pipe, pipe'[x].ask # NULL
        PROVE  AskedOn(x, pipe[x].ask.stack, pipe[x].ask.id, pipe[x].ask.says)'
    BY <1>1, <1>4, <1>12, <2>1 DEF IInv, Told
  <2>2. ASSUME NEW x \in Pipe, pipe'[x].answer # NULL
        PROVE  /\ AskedOn(x, pipe[x].answer.stack, pipe[x].answer.id, pipe[x].answer.says)'
               /\ Len(pipe'[x].answer.stack) < MaxTtl
    BY <1>1, <1>4, <1>12, <2>2 DEF IInv, Told
  <2>3. QED
    BY <2>1, <2>2 DEF Told
<1>15. Once'
  <2>1. \A x \in Pipe :
           /\ Asked(x)' => Asked(x) /\ x # p
           /\ WorkedOn(x)' => WorkedOn(x)
           /\ AnsweredOn(x)' => AnsweredOn(x) /\ x # p
    BY <1>1, <1>2, <1>4, <1>5 DEF Asked, WorkedOn, AnsweredOn, fsm
  <2>2. ~WorkedOn(p)
    BY <1>12 DEF WorkedOn, IInv, Traced, Trace
  <2>3. QED
    BY <1>2, <1>4, <2>1, <2>2 DEF IInv, Once, seen
<1>16. QED
  BY <1>7, <1>8, <1>9, <1>10, <1>11, <1>13, <1>14, <1>15 DEF IInv

-----------------------------------------------------------------------------
(* The respondents.                                                         *)

\* nn_respondent_recv, when it finds nothing.
LEMMA CancelledKeeps ==
    ASSUME IInv, NEW r \in Respondent, resp' = [resp EXCEPT ![r] = Cancelled(@)],
           UNCHANGED <<sock, fsm, outpipes, pipe, seen, aborted>>
    PROVE  IInv'
<1>1. /\ resp' \in [Respondent -> Socket]
      /\ \A x \in Respondent :
            /\ resp'[x].next = resp[x].next /\ resp'[x].keys = resp[x].keys
            /\ resp'[x].out = resp[x].out
            /\ resp'[x].working => resp[x].working /\ resp'[x].back = resp[x].back
  BY DEF IInv, Types, Socket, Cancelled
<1>2. Machine' /\ Counted' /\ Told' /\ Traced' /\ Once' /\ wrong' = FALSE
  BY <1>1, NothingSaid
<1>3. Types' /\ Ready' /\ aborted' = FALSE
  BY <1>1 DEF IInv, Types, TypeOK, Ready, Mine, fsm, seen
<1>4. Keyed'
  BY <1>1 DEF IInv, Keyed, KeyedAt, Has
<1>5. QED
  BY <1>2, <1>3, <1>4 DEF IInv

\* nn_respondent_recv of what pipe p brought.
LEMMA ReceivedKeeps ==
    ASSUME IInv, NEW r \in Respondent, NEW p \in Pipe,
           Has(resp[r], p), pipe[p].ask # NULL,
           resp' = [resp EXCEPT ![r] = Recv(@, p, pipe[p].ask)],
           pipe' = [pipe EXCEPT ![p].ask = NULL],
           UNCHANGED <<sock, fsm, outpipes, seen, aborted>>
    PROVE  IInv'
<1> DEFINE m == pipe[p].ask
<1>0. PICK n : n = Recv(resp[r], p, m)
  OBVIOUS
<1>1. /\ pipe \in [Pipe -> Connection] /\ resp \in [Respondent -> Socket]
      /\ m \in Message
  BY DEF IInv, Types, Connection
<1>2. AskedOn(p, m.stack, m.id, m.says)
  BY DEF IInv, Told
<1>3. /\ n \in Socket
      /\ n.keys = resp[r].keys /\ n.next = resp[r].next /\ n.out = resp[r].out
      /\ n.working => /\ n.back \in Message /\ n.back.stack # <<>>
                      /\ Head(n.back.stack) = resp[r].keys[p]
                      /\ Tail(n.back.stack) = m.stack
                      /\ Len(n.back.stack) <= MaxTtl
                      /\ n.back.id = m.id /\ n.back.says = m.says
  BY <1>0, <1>1, Received
<1>4. resp' = [resp EXCEPT ![r] = n]
  BY <1>0
<1>5. n.working => n.back.says.pipe = p
  BY <1>2, <1>3 DEF AskedOn, Question
<1>6. /\ resp' \in [Respondent -> Socket] /\ resp'[r] = n
      /\ \A x \in Respondent :
            /\ resp'[x].next = resp[x].next /\ resp'[x].keys = resp[x].keys
            /\ resp'[x].out = resp[x].out
            /\ x # r => resp'[x] = resp[x]
  BY <1>1, <1>3, <1>4
<1>7. /\ pipe' \in [Pipe -> Connection]
      /\ \A x \in Pipe :
            /\ pipe'[x].asker = pipe[x].asker /\ pipe'[x].to = pipe[x].to
            /\ pipe'[x].here = pipe[x].here /\ pipe'[x].there = pipe[x].there
            /\ pipe'[x].answer = pipe[x].answer
            /\ pipe'[x].ask = IF x = p THEN NULL ELSE pipe[x].ask
  BY <1>1 DEF Connection
<1> HIDE DEF m
<1>8. Types' /\ aborted' = FALSE /\ wrong' = FALSE
  BY <1>6, <1>7 DEF IInv, Types, TypeOK, fsm, seen
<1>9. Machine' /\ Counted'
  BY DEF IInv, Machine, Counted, fsm, seen
<1>10. Ready' /\ Keyed'
  BY <1>6, <1>7 DEF IInv, Ready, Keyed, KeyedAt, Mine, Has
<1>11. \A x \in Pipe : \A stack, id, says :
         AskedOn(x, stack, id, says) => AskedOn(x, stack, id, says)'
  BY <1>7 DEF AskedOn, seen
<1>12. Told'
  <2>1. ASSUME NEW x \in Pipe, pipe'[x].ask # NULL
        PROVE  AskedOn(x, pipe[x].ask.stack, pipe[x].ask.id, pipe[x].ask.says)'
    BY <1>7, <1>11, <2>1 DEF IInv, Told
  <2>2. ASSUME NEW x \in Pipe, pipe'[x].answer # NULL
        PROVE  /\ AskedOn(x, pipe[x].answer.stack, pipe[x].answer.id, pipe[x].answer.says)'
               /\ Len(pipe'[x].answer.stack) < MaxTtl
    BY <1>7, <1>11, <2>2 DEF IInv, Told
  <2>3. QED
    BY <2>1, <2>2 DEF Told
<1>13. /\ pipe[p].to = r /\ resp[r].keys[p] < resp[r].next
       /\ \A q \in Pipe : resp[r].keys[q] = resp[r].keys[p] => q = p
  BY DEF IInv, Keyed, KeyedAt
<1>14. Traced'
  <2>1. ASSUME NEW x \in Respondent, NEW b, Trace(x, b)
        PROVE  Trace(x, b)'
    BY <1>6, <1>7, <1>11, <2>1 DEF Trace, Message
  <2>2. n.working => Trace(r, n.back)'
    BY <1>2, <1>3, <1>5, <1>6, <1>7, <1>11, <1>13 DEF Trace
  <2>3. QED
    BY <1>6, <2>1, <2>2 DEF IInv, Traced
<1>15. Once'
  <2>1. \A x \in Pipe : /\ Asked(x)' => Asked(x) /\ x # p
                        /\ AnsweredOn(x)' => AnsweredOn(x)
    BY <1>7 DEF Asked, AnsweredOn, fsm
  <2>2. \A x \in Pipe : WorkedOn(x)' => WorkedOn(x) \/ (x = p /\ Asked(p))
    BY <1>3, <1>5, <1>6 DEF Asked, WorkedOn, m, fsm
  <2>3. QED
    BY <1>7, <2>1, <2>2 DEF IInv, Once, seen
<1>16. QED
  BY <1>8, <1>9, <1>10, <1>12, <1>14, <1>15 DEF IInv

\* nn_respondent_recv.
LEMMA RespRecvKeeps ==
    ASSUME IInv, NEW r \in Respondent, RespRecv(r)
    PROVE  IInv'
<1>1. UNCHANGED <<sock, fsm, outpipes, seen, aborted>>
  BY DEF RespRecv
<1>2. CASE \E p \in Pipe :
             /\ Has(resp[r], p) /\ pipe[p].ask # NULL
             /\ resp' = [resp EXCEPT ![r] = Recv(@, p, pipe[p].ask)]
             /\ pipe' = [pipe EXCEPT ![p].ask = NULL]
  BY <1>1, <1>2, ReceivedKeeps
<1>3. CASE resp' = [resp EXCEPT ![r] = Cancelled(@)] /\ UNCHANGED pipe
  BY <1>1, <1>3, CancelledKeeps
<1>4. QED
  BY <1>2, <1>3 DEF RespRecv

\* nn_respondent_send: to the pipe the question came from, if it is still there.
LEMMA RespSendKeeps ==
    ASSUME IInv, NEW r \in Respondent, RespSend(r)
    PROVE  IInv'
<1> DEFINE b == resp[r].back
           to == Destination(resp[r])
           n == Answered(resp[r], to)
<1>0. PICK m : m = Answer(resp[r])
  OBVIOUS
<1>1. /\ UNCHANGED <<sock, fsm, outpipes, seen>> /\ resp[r].working
      /\ resp' = [resp EXCEPT ![r] = n]
      /\ pipe' = [p \in Pipe |-> IF p \in to /\ pipe[p].here
                                 THEN [pipe[p] EXCEPT !.answer = m] ELSE pipe[p]]
      /\ aborted' = (\E p \in to : pipe[p].answer # NULL)
  BY <1>0 DEF RespSend
<1>2. /\ pipe \in [Pipe -> Connection] /\ resp \in [Respondent -> Socket]
  BY DEF IInv, Types
<1>3. Trace(r, b) /\ b \in Message /\ b.says.pipe \in Pipe
  BY <1>1 DEF IInv, Traced, Trace, Message
<1>4. /\ m \in Message /\ m.stack = Tail(b.stack) /\ m.id = b.id /\ m.says = b.says
      /\ Len(m.stack) < MaxTtl
  <2>1. /\ Tail(b.stack) \in Seq(Nat) /\ Len(Tail(b.stack)) < MaxTtl
    BY <1>3, HeadTailProperties, ResponderAssumption DEF Trace, Message
  <2>2. m = [b EXCEPT !.stack = Tail(b.stack)]
    BY <1>0, <1>3 DEF Answer, Message
  <2> HIDE DEF b
  <2>3. m.stack = Tail(b.stack) /\ m.id = b.id /\ m.says = b.says
    BY <1>3, <2>2 DEF Message
  <2>4. m \in Message
    BY <1>3, <2>1, <2>2 DEF Message
  <2>5. QED
    BY <2>1, <2>3, <2>4
<1>5. to \subseteq resp[r].out /\ \A p \in to : p \in Pipe /\ p = b.says.pipe
  BY <1>2, <1>3 DEF Destination, Trace, Socket
<1>6. /\ n \in Socket /\ n.keys = resp[r].keys /\ n.next = resp[r].next
      /\ n.out = resp[r].out \ to /\ n.working = FALSE
  BY <1>2 DEF Answered, Socket
<1> HIDE DEF to, n
<1>7. aborted' = FALSE
  <2>1. (\E p \in to : pipe[p].answer # NULL) = FALSE
    BY <1>5 DEF IInv, Keyed, KeyedAt
  <2>2. QED
    BY <1>1, <2>1
<1>8. /\ resp' \in [Respondent -> Socket] /\ resp'[r] = n
      /\ \A x \in Respondent :
            /\ resp'[x].next = resp[x].next /\ resp'[x].keys = resp[x].keys
            /\ x # r => resp'[x] = resp[x]
  BY <1>1, <1>2, <1>6
<1>9. \A x \in Pipe :
         /\ pipe'[x] \in Connection
         /\ pipe'[x].asker = pipe[x].asker /\ pipe'[x].to = pipe[x].to
         /\ pipe'[x].here = pipe[x].here /\ pipe'[x].there = pipe[x].there
         /\ pipe'[x].ask = pipe[x].ask
         /\ pipe'[x].answer = IF x \in to /\ pipe[x].here THEN m ELSE pipe[x].answer
  BY <1>1, <1>2, <1>4 DEF Connection
<1>10. pipe' \in [Pipe -> Connection]
  BY <1>1, <1>9
<1>11. Types' /\ wrong' = FALSE
  BY <1>1, <1>8, <1>10 DEF IInv, Types, TypeOK, fsm, seen
<1>12. Machine' /\ Counted'
  BY <1>1 DEF IInv, Machine, Counted, fsm, seen
<1>13. Ready'
  BY <1>1, <1>9 DEF IInv, Ready, Mine, Types, TypeOK
<1>14. Keyed'
  <2>1. ASSUME NEW x \in Respondent, NEW y \in Pipe
        PROVE  KeyedAt(x, y)'
    <3>1. KeyedAt(x, y)
      BY DEF IInv, Keyed
    <3>2. y \in to => y \in resp[r].out /\ Has(resp[r], y) /\ pipe[y].to = r
      BY <1>5 DEF IInv, Keyed, KeyedAt
    <3>3. CASE x = r
      BY <1>6, <1>8, <1>9, <3>1, <3>3 DEF KeyedAt, Has
    <3>4. CASE x # r
      BY <1>6, <1>8, <1>9, <3>1, <3>2, <3>4 DEF KeyedAt, Has
    <3>5. QED
      BY <3>3, <3>4
  <2>2. QED
    BY <1>9, <2>1 DEF IInv, Keyed
<1>15. \A x \in Pipe : \A stack, id, says :
         AskedOn(x, stack, id, says) => AskedOn(x, stack, id, says)'
  BY <1>1, <1>9 DEF AskedOn, seen
<1>16. Traced'
  <2>1. ASSUME NEW x \in Respondent, NEW c, Trace(x, c)
        PROVE  Trace(x, c)'
    BY <1>8, <1>9, <1>15, <2>1 DEF Trace, Message
  <2>2. QED
    BY <1>6, <1>8, <2>1 DEF IInv, Traced
<1>17. Told'
  <2>1. ASSUME NEW x \in Pipe, x \in to
        PROVE  AskedOn(x, m.stack, m.id, m.says)'
    BY <1>3, <1>4, <1>5, <1>15, <2>1 DEF Trace
  <2>2. ASSUME NEW x \in Pipe, pipe'[x].ask # NULL
        PROVE  AskedOn(x, pipe[x].ask.stack, pipe[x].ask.id, pipe[x].ask.says)'
    BY <1>9, <1>15, <2>2 DEF IInv, Told
  <2>3. ASSUME NEW x \in Pipe, pipe'[x].answer # NULL
        PROVE  /\ AskedOn(x, pipe[x].answer.stack, pipe[x].answer.id, pipe[x].answer.says)'
               /\ Len(pipe'[x].answer.stack) < MaxTtl
    BY <1>4, <1>9, <1>15, <2>1, <2>3 DEF IInv, Told
  <2>4. QED
    BY <2>2, <2>3 DEF Told
<1>18. Once'
  <2>1. \A x \in Pipe : Asked(x)' => Asked(x)
    BY <1>1, <1>9 DEF Asked, fsm
  <2>2. \A x \in Pipe : AnsweredOn(x)' => AnsweredOn(x) \/ (x \in to /\ WorkedOn(x))
    BY <1>1, <1>4, <1>5, <1>9 DEF AnsweredOn, WorkedOn, fsm
  <2>3. \A x \in Pipe : WorkedOn(x)' => WorkedOn(x)
    BY <1>1, <1>6, <1>8 DEF WorkedOn, fsm
  <2>4. \A x \in Pipe : x \in to => ~WorkedOn(x)'
    <3>1. \A y \in Respondent : resp[y].working => pipe[resp[y].back.says.pipe].to = y
      BY DEF IInv, Traced, Trace
    <3>2. QED
      BY <1>1, <1>3, <1>5, <1>6, <1>8, <3>1 DEF WorkedOn
  <2>5. QED
    BY <1>1, <1>9, <2>1, <2>2, <2>3, <2>4 DEF IInv, Once, seen
<1>19. QED
  BY <1>7, <1>11, <1>12, <1>13, <1>14, <1>16, <1>17, <1>18 DEF IInv

-----------------------------------------------------------------------------
(* The theorems.                                                            *)

\* No pipes, no survey.
LEMMA Initially == Init => IInv
<1> SUFFICES ASSUME Init PROVE IInv
  OBVIOUS
<1>1. NewResponder \in Socket
  BY DEF NewResponder, Socket
<1>2. NoPipe \in Connection
  BY DEF NoPipe, Connection
<1>3. Types
  BY <1>1, <1>2, SurveyAssumption DEF Init, Types, TypeOK
<1>4. \A p \in Pipe : /\ pipe[p].asker = NULL /\ ~pipe[p].there
                      /\ pipe[p].ask = NULL /\ pipe[p].answer = NULL
  BY DEF Init, NoPipe
<1>5. \A r \in Respondent : /\ ~resp[r].working /\ resp[r].out = {}
                            /\ \A p \in Pipe : ~Has(resp[r], p)
  BY DEF Init, NewResponder, Has
<1>6. Machine /\ Counted /\ Ready /\ aborted = FALSE /\ wrong = FALSE
  BY DEF Init, Machine, Counted, Ready
<1>7. Keyed /\ Told /\ Traced
  BY <1>4, <1>5 DEF Keyed, KeyedAt, Told, Traced
<1>8. Once
  BY <1>4, SurveyAssumption DEF Once
<1>9. QED
  BY <1>3, <1>6, <1>7, <1>8 DEF IInv

\* Every step keeps the invariant.
LEMMA Inductive == IInv /\ [Next]_vars => IInv'
<1> SUFFICES ASSUME IInv, [Next]_vars PROVE IInv'
  OBVIOUS
<1>1. CASE User
  BY <1>1, SendKeeps, RecvAnswerKeeps, RecvNothingKeeps, SurveyorAlone DEF User
<1>2. CASE Timeout \/ TimerStopped \/ Stop \/ UNCHANGED vars
  BY <1>2, SurveyorAlone, ResendKeeps
<1>3. CASE Network
  BY <1>3, ConnectKeeps, OutHereKeeps, OutThereKeeps, RmHereKeeps, RmThereKeeps,
     DeviceAsksKeeps, DeviceTakesKeeps DEF Network
<1>4. CASE Respondents
  BY <1>4, RespRecvKeeps, RespSendKeeps DEF Respondents
<1>5. QED
  BY <1>1, <1>2, <1>3, <1>4 DEF Next

\* The invariant the theorems below follow from.
THEOREM Invariance == Spec => []IInv
BY Initially, Inductive, PTL DEF Spec

\* No event reaches the surveyor's state machine in a state that does not expect
\* it, nothing is sent on a pipe that is gone or has no room, and no key or pipe
\* is entered twice, however many respondents, devices and connections there are.
THEOREM EventsExpected == Spec => []NeverAborts
<1>1. IInv => NeverAborts
  BY DEF IInv, Types, NeverAborts
<1>2. QED
  BY <1>1, Invariance, PTL

\* The user of a surveyor gets the answers to his own survey, one of each pipe,
\* although surveys are cancelled and started again while answers are on the way.
THEOREM OwnAnswersOnly == Spec => []OwnAnswers
<1>1. IInv => OwnAnswers
  BY DEF IInv, OwnAnswers
<1>2. QED
  BY <1>1, Invariance, PTL

\* An answer comes back where its question was asked and under the header it was
\* asked with, although connections come and go while respondents work.
THEOREM RoutedBack == Spec => []Routed
<1>1. IInv => Routed
  BY DEF IInv, Told, AskedOn, Routed
<1>2. QED
  BY <1>1, Invariance, PTL
=============================================================================
