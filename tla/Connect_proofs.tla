--------------------------- MODULE Connect_proofs ---------------------------
(* A connecting endpoint, for any transport: what its parts are doing        *)
(* together at any moment, and that no step of any of them leaves these      *)
(* phases without a failed assertion.  Then the pipe is used only while      *)
(* the connection is up, and a freed endpoint leaves nothing.                *)
EXTENDS Endpoints_proofs

\* Tasks of the worker, and what the fields of a connecting endpoint may hold.
U(w) == <<"usock", w>>
T(w) == <<"TIMER", w>>
R(w) == <<"RECONNECT_TIMER", w>>

ConnectFields ==
    {"kind", "ep", "dns", "found", "peerGone", "usock", "owner", "poll", "header", "saved",
     "reads", "session", "in", "out", "chunks", "continuing", "pipe", "pipeIn", "pipeOut",
     "timer", "armed", "tasks", "events", "odd", "aborted"}
ConnectTask ==
    ({"usock"} \X {"RECV", "SEND", "CONNECTED", "CONNECTING", "STOP"})
    \cup (Timer \X {"START", "STOP"})
ConnectEvent ==
    [to : {"ep", "session", "header", "sock"},
     src : {"USOCK", "TIMER", "RECONNECT_TIMER", "HEADER", "SESSION", "DNS", "PIPE", "EP"},
     type : {"CONNECTED", "SENT", "RECEIVED", "SHUTDOWN", "ERROR", "STOPPED", "TIMEOUT",
             "OK", "CLOSE_HANDSHAKE", "DONE", "IN", "OUT"}]
UsockState == {"IDLE", "STARTING", "CONNECTING", "ACTIVE", "REMOVING_FD", "DONE", "STOPPING"}
ConnectTyped(x) ==
    /\ DOMAIN x = ConnectFields /\ x.aborted = FALSE
    /\ x.kind \in {"tcp", "ipc", "ws"}
    /\ x.usock \in UsockState /\ x.owner \in {"ep", "session", "header"}
    /\ DOMAIN x.timer = Timer /\ DOMAIN x.saved = {"session", "header"}
    /\ x.tasks \in Seq(ConnectTask) /\ Distinct(x.tasks)
    /\ x.events \in Seq(ConnectEvent) /\ Distinct(x.events)

\* A task is queued; the last of a queue; the only event; no event.
Has(x, t) == t \in Range(x.tasks)
Ends(q, e) == q # <<>> /\ q[Len(q)] = e
One(x, to, src, type) == x.events = <<Ev(to, src, type)>>
Settled(x) == x.events = <<>>

\* usock, poller and tasks
Wired(x) ==
    /\ x.usock \in {"IDLE", "DONE", "STARTING"} => "FD" \notin x.poll
    /\ "FD" \in x.poll => ~Has(x, U("CONNECTED")) /\ ~Has(x, U("CONNECTING"))
    /\ \A w \in {"CONNECTED", "CONNECTING"} : Has(x, U(w)) => Head(x.tasks) = U(w)
    /\ Has(x, U("CONNECTED")) => x.usock # "STARTING"
    /\ Has(x, U("CONNECTING")) => x.usock \in {"CONNECTING", "STOPPING"}
    /\ x.usock = "REMOVING_FD" => Has(x, U("STOP"))
\* A timer that is idle is not in the set of timeouts.
Timed(x) ==
    \A t \in Timer : x.timer[t] = "IDLE" => t \notin x.armed

\* operation: neither a task nor in the poller; a task that will ask the poller; or polled
Dir(w) == IF w = "RECV" THEN "IN" ELSE "OUT"
Polls(x, w) == Dir(w) \in x.poll /\ ~Has(x, U("CONNECTED")) /\ ~Has(x, U("CONNECTING"))
NoOp(x, w) == ~Has(x, U(w)) /\ ~Polls(x, w)
OneOp(x, w) == ~(Has(x, U(w)) /\ Polls(x, w))

\* its descriptor is still open, or going to be closed by the worker
Open(x, closed) ==
    \/ x.usock = "ACTIVE"
    \/ x.usock = "REMOVING_FD" /\ Ends(x.tasks, U("STOP"))
    \/ x.usock = "DONE" /\ closed
Up(x) == x.usock = "ACTIVE" \/ (x.usock = "DONE" /\ "lost" \in x.odd)

\* Before a session and after it: its parts are idle.
NoSession(x) ==
    /\ x.owner = "ep" /\ x.session = "IDLE" /\ x.header = "IDLE" /\ x.pipe = "IDLE"
    /\ x.timer["TIMER"] = "IDLE" /\ x.dns = "IDLE"
Still(x) == x.timer["RECONNECT_TIMER"] = "IDLE"

\* The phases.  The address is looked up.
Resolving(x) ==
    /\ x.owner = "ep" /\ x.session = "IDLE" /\ x.header = "IDLE" /\ x.pipe = "IDLE"
    /\ x.timer["TIMER"] = "IDLE"
    /\ Still(x) /\ x.usock \in {"IDLE", "STARTING"} /\ x.tasks = <<>> /\ ~x.peerGone
    /\ \/ x.ep = "RESOLVING" /\ x.dns = "DONE" /\ One(x, "ep", "DNS", "DONE")
       \/ x.ep = "STOPPING_DNS" /\ x.dns = "IDLE" /\ One(x, "ep", "DNS", "STOPPED")
\* The system is asked to connect: it did, it is about to, or it failed.
Connecting(x) ==
    /\ NoSession(x) /\ Still(x) /\ x.ep = "CONNECTING" /\ ~x.peerGone
    /\ \/ /\ x.usock = "ACTIVE" /\ One(x, "ep", "USOCK", "CONNECTED")
          /\ NoOp(x, "RECV") /\ NoOp(x, "SEND")
       \/ /\ x.usock = "CONNECTING" /\ Settled(x) /\ NoOp(x, "RECV")
          /\ ~Has(x, U("SEND")) /\ ~Has(x, U("CONNECTED"))
       \/ x.usock = "DONE" /\ One(x, "ep", "USOCK", "ERROR")
\* The interval runs until the next attempt, or its timer is stopping.
Pausing(x) ==
    /\ NoSession(x) /\ x.usock \in {"IDLE", "STARTING"} /\ ~x.peerGone
    /\ \/ /\ x.ep = "WAITING" /\ x.timer["RECONNECT_TIMER"] = "ACTIVE"
          /\ \/ Ends(x.tasks, R("START")) /\ "RECONNECT_TIMER" \notin x.armed /\ Settled(x)
             \/ x.tasks = <<>> /\ (Settled(x) \/ One(x, "ep", "RECONNECT_TIMER", "TIMEOUT"))
       \/ /\ x.ep = "STOPPING_BACKOFF"
          /\ \/ x.timer["RECONNECT_TIMER"] = "STOPPING" /\ x.tasks = <<R("STOP")>> /\ Settled(x)
             \/ Still(x) /\ x.tasks = <<>> /\ One(x, "ep", "RECONNECT_TIMER", "STOPPED")
\* The usock stops: the worker has its task, or has told about it.
UsockStops(x) ==
    /\ x.usock = "STOPPING" /\ Ends(x.tasks, U("STOP"))
    /\ Settled(x) \/ One(x, "ep", "USOCK", "SHUTDOWN")
\* A connection that failed is closed; cws stays here when its peer is gone.
Disconnecting(x) ==
    /\ NoSession(x) /\ Still(x) /\ x.ep = "STOPPING_USOCK"
    /\ \/ UsockStops(x)
       \/ /\ x.usock = "IDLE" /\ (x.peerGone => x.tasks = <<>>)
          /\ One(x, "ep", "USOCK", "STOPPED") \/ (x.peerGone /\ Settled(x))
\* The endpoint is stopped: first its usock, then the timer of the interval.
Finishing(x) ==
    /\ NoSession(x) /\ x.ep = "STOPPING"
    /\ \/ Still(x) /\ UsockStops(x)
       \/ /\ x.usock = "IDLE" /\ x.timer["RECONNECT_TIMER"] = "STOPPING" /\ Ends(x.tasks, R("STOP"))
          /\ Settled(x) \/ One(x, "ep", "USOCK", "STOPPED")
       \/ /\ x.usock = "IDLE" /\ Still(x) /\ x.tasks = <<>>
          /\ One(x, "ep", "USOCK", "STOPPED") \/ One(x, "ep", "RECONNECT_TIMER", "STOPPED")
\* The socket is told that the endpoint stopped, and frees it.
Over(x) ==
    /\ NoSession(x) /\ Still(x) /\ x.usock = "IDLE" /\ x.tasks = <<>>
    /\ \/ x.ep = "IDLE" /\ One(x, "sock", "EP", "STOPPED")
       \/ x.ep = "FREED" /\ Settled(x)

\* The timer of the header exchange stops, whatever the usock still reports.
TimerStops(x) ==
    \/ /\ x.timer["TIMER"] = "STOPPING" /\ Ends(x.tasks, T("STOP"))
       /\ \/ Settled(x)
          \/ \E t \in {"SENT", "RECEIVED", "SHUTDOWN", "ERROR"} : One(x, "header", "USOCK", t)
    \/ x.timer["TIMER"] = "IDLE" /\ x.tasks = <<>> /\ One(x, "header", "TIMER", "STOPPED")
\* The header exchange sends or receives: one operation, one event or one failure.
Talks(x, w, type) ==
    /\ x.timer["TIMER"] = "ACTIVE"
    /\ \/ /\ x.usock = "ACTIVE"
          /\ \/ Settled(x) /\ OneOp(x, w) /\ (\A v \in {"RECV", "SEND"} \ {w} : NoOp(x, v))
             \/ One(x, "header", "USOCK", type) /\ (\A v \in {"RECV", "SEND"} : NoOp(x, v))
             \/ One(x, "header", "TIMER", "TIMEOUT")
       \/ /\ x.usock = "REMOVING_FD" /\ Ends(x.tasks, U("STOP"))
          /\ \/ Settled(x)
             \/ One(x, "header", "USOCK", "SHUTDOWN") \/ One(x, "header", "TIMER", "TIMEOUT")
       \/ x.usock = "DONE" /\ One(x, "header", "USOCK", "ERROR")
\* The headers are exchanged.
Greeting(x) ==
    /\ x.session = "PROTOHDR" /\ x.owner = "header" /\ x.saved["header"] = "session"
    /\ x.pipe = "IDLE"
    /\ \/ x.header = "SENDING" /\ Talks(x, "SEND", "SENT")
       \/ x.header = "RECEIVING" /\ Talks(x, "RECV", "RECEIVED")
       \/ /\ x.header = "STOPPING_TIMER_ERROR" /\ TimerStops(x)
          /\ x.usock \in {"ACTIVE", "DONE", "REMOVING_FD"}
       \/ /\ x.header = "STOPPING_TIMER_DONE" /\ TimerStops(x) /\ Up(x)
          /\ \A v \in {"RECV", "SEND"} : NoOp(x, v)
\* The exchange is over, and the session hears of it.
Greeted(x) ==
    /\ x.owner = "session" /\ x.timer["TIMER"] = "IDLE" /\ x.tasks = <<>> /\ x.pipe = "IDLE"
    /\ \/ /\ x.session = "PROTOHDR" /\ x.header = "DONE"
          /\ \/ One(x, "session", "HEADER", "ERROR") /\ x.usock \in {"ACTIVE", "DONE"}
             \/ One(x, "session", "HEADER", "OK") /\ Up(x)
       \/ /\ x.session = "STOPPING_HEADER" /\ x.header = "IDLE"
          /\ One(x, "session", "HEADER", "STOPPED") /\ Up(x)

\* What a session that runs may hear, and what it sends to the protocol.
Usock(type) == Ev("session", "USOCK", type)
RunEvent ==
    {Usock(t) : t \in {"SENT", "RECEIVED", "SHUTDOWN", "ERROR"}}
    \cup {Ev("sock", "PIPE", t) : t \in {"IN", "OUT"}}
Gets(x, e) == e \in Range(x.events)
Breaks(x) == x.usock = "DONE" /\ x.events = <<Usock("ERROR")>>
\* The session runs, loses its connection, or closes it (ws).
Running(x) ==
    /\ x.owner = "session" /\ x.header = "IDLE" /\ x.timer["TIMER"] = "IDLE"
    /\ Range(x.events) \subseteq RunEvent
    /\ \/ /\ x.session = "ACTIVE" /\ x.pipe = "ACTIVE"
          /\ \/ x.usock = "ACTIVE" /\ ~Gets(x, Usock("SHUTDOWN")) /\ ~Gets(x, Usock("ERROR"))
             \/ /\ x.usock = "REMOVING_FD" /\ Ends(x.tasks, U("STOP"))
                /\ Gets(x, Usock("SHUTDOWN")) /\ ~Gets(x, Usock("ERROR"))
             \/ Breaks(x)
             \/ /\ x.usock = "DONE" /\ "lost" \in x.odd /\ x.tasks = <<>>
                /\ Range(x.events) \subseteq {Ev("sock", "PIPE", t) : t \in {"IN", "OUT"}}
       \/ /\ x.session = "SHUTTING_DOWN" /\ x.pipe = "IDLE"
          /\ \/ Breaks(x)
             \/ x.usock = "REMOVING_FD" /\ Ends(x.tasks, U("STOP")) /\ ~Gets(x, Usock("ERROR"))
       \/ /\ x.session = "CLOSING_CONNECTION" /\ x.pipe = "IDLE"
          /\ Breaks(x) \/ (Open(x, FALSE) /\ ~Gets(x, Usock("ERROR")))
\* The session is over, and the endpoint is the last to hear of it.
SessionOver(x) ==
    /\ x.owner = "session" /\ x.header \in {"IDLE", "DONE"} /\ x.timer["TIMER"] = "IDLE"
    /\ x.session = "DONE"
    /\ \E type \in {"ERROR", "CLOSE_HANDSHAKE"} :
          LET e == Ev("ep", "SESSION", type)
          IN /\ Range(x.events) \subseteq RunEvent \cup {e} /\ Ends(x.events, e)
             /\ Open(x, type = "ERROR" \/ x.tasks = <<>>)
\* The endpoint has a session.
InSession(x) ==
    /\ x.ep = "ACTIVE" /\ ~x.peerGone /\ Still(x) /\ x.saved["session"] = "ep" /\ x.dns = "IDLE"
    /\ Greeting(x) \/ Greeted(x) \/ Running(x) \/ SessionOver(x)
\* The endpoint stops its session, to try again.
Parting(x) ==
    /\ x.ep = "STOPPING_SESSION" /\ Still(x) /\ x.pipe = "IDLE" /\ x.dns = "IDLE"
    /\ Open(x, x.peerGone => x.tasks = <<>>)
    /\ \/ /\ x.session = "STOPPING" /\ x.header = "IDLE" /\ x.timer["TIMER"] = "IDLE"
          /\ x.owner = "session" /\ x.saved["session"] = "ep" /\ One(x, "session", "HEADER", "STOPPED")
       \/ NoSession(x) /\ One(x, "ep", "SESSION", "STOPPED")
\* The endpoint stops its session for good.
Quitting(x) ==
    /\ x.ep = "STOPPING_SESSION_FINAL" /\ Still(x) /\ x.pipe = "IDLE" /\ x.dns = "IDLE"
    /\ \/ /\ x.session = "STOPPING" /\ x.saved["session"] = "ep"
          /\ x.usock \in {"ACTIVE", "DONE", "REMOVING_FD"}
          /\ \/ x.header = "STOPPING" /\ x.owner = "header" /\ TimerStops(x)
             \/ /\ x.header = "IDLE" /\ One(x, "session", "HEADER", "STOPPED") /\ x.tasks = <<>>
                /\ x.timer["TIMER"] = "IDLE"
       \/ NoSession(x) /\ One(x, "ep", "SESSION", "STOPPED") /\ Open(x, x.tasks = <<>>)

\* An endpoint is in one of the phases.
Phase(x) ==
    \/ Resolving(x) \/ Connecting(x) \/ Pausing(x) \/ Disconnecting(x) \/ Finishing(x) \/ Over(x)
    \/ InSession(x) \/ Parting(x) \/ Quitting(x)
\* No assertion failed, and all is well.
Fit(x) == ConnectTyped(x) /\ Wired(x) /\ Timed(x)
Sound(x) == Fit(x) /\ Phase(x)

\* An assertion failed.
Lost(x) == DOMAIN x = ConnectFields /\ x.aborted = TRUE /\ x.ep # "FREED"

-----------------------------------------------------------------------------
(* Queues of tasks and events.                                              *)

\* The last of a queue is its head only when it is alone.
LEMMA EndsTaken ==
  ASSUME NEW S, NEW q \in Seq(S), q # <<>>, Distinct(q), NEW e, Ends(q, e)
  PROVE  \/ Head(q) = e /\ Tail(q) = <<>>
         \/ Head(q) # e /\ Ends(Tail(q), e)
<1>1. Len(q) \in Nat /\ Len(q) # 0 /\ DOMAIN q = 1..Len(q) /\ Head(q) = q[1] /\ q[Len(q)] = e
  BY DEF Ends
<1>2. /\ Tail(q) \in Seq(S) /\ Len(Tail(q)) = Len(q) - 1
      /\ \A i \in 1..Len(q) - 1 : Tail(q)[i] = q[i + 1]
  BY HeadTailProperties
<1> DEFINE t == Tail(q)
<1>3. CASE Len(q) = 1
  <2>1. Len(Tail(q)) = 0
    BY <1>1, <1>2, <1>3
  <2>2. Tail(q) = <<>>
    BY <1>2, <2>1, EmptySeq
  <2>3. QED
    BY <1>1, <1>3, <2>2
<1>4. CASE Len(q) # 1
  <2> HIDE DEF t
  <2>0. t \in Seq(S) /\ Len(t) = Len(q) - 1 /\ \A i \in 1..Len(q) - 1 : t[i] = q[i + 1]
    BY <1>2 DEF t
  <2>1. t[Len(q) - 1] = e /\ Len(t) # 0
    BY <1>1, <1>4, <2>0
  <2>4. Tail(q) # <<>> /\ Tail(q)[Len(Tail(q))] = e
    BY <2>0, <2>1, <1>1, EmptySeq DEF t
  <2>2. Head(q) # e
    BY <1>1, <1>4 DEF Distinct
  <2>3. QED
    BY <2>2, <2>4 DEF Ends
<1>5. QED
  BY <1>3, <1>4

\* The head of a queue to which something is added.
LEMMA EndsAdded ==
  ASSUME NEW S, NEW q \in Seq(S), NEW e \in S
  PROVE  /\ Ends(Append(q, e), e)
         /\ q = <<>> => Append(q, e) = <<e>>
         /\ q # <<>> => Head(Append(q, e)) = Head(q)
<1>1. /\ Append(q, e) # <<>> /\ Len(Append(q, e)) = Len(q) + 1
      /\ Append(q, e)[Len(q) + 1] = e
      /\ \A i \in 1..Len(q) : Append(q, e)[i] = q[i]
  BY AppendProperties
<1>2. Ends(Append(q, e), e)
  BY <1>1 DEF Ends
<1>3. q = <<>> => Append(q, e) = <<e>>
  OBVIOUS
<1>4. q # <<>> => Head(Append(q, e)) = Head(q)
  <2>1. q # <<>> => Len(q) \in Nat /\ Len(q) # 0
    BY EmptySeq, LenProperties
  <2>2. QED
    BY <1>1, <2>1
<1>5. QED
  BY <1>2, <1>3, <1>4

\* A queue of one.
LEMMA OneOnly ==
  ASSUME NEW e
  PROVE  /\ <<e>> # <<>> /\ Head(<<e>>) = e /\ Tail(<<e>>) = <<>>
         /\ Range(<<e>>) = {e} /\ Ends(<<e>>, e) /\ Distinct(<<e>>)
         /\ \A S : e \in S => <<e>> \in Seq(S)
BY DEF Range, Ends, Distinct

\* What tasks there are once one is taken.
LEMMA TaskTaken ==
  ASSUME NEW x, NEW y, ConnectTyped(x), x.tasks # <<>>, y.tasks = Tail(x.tasks)
  PROVE  /\ y.tasks \in Seq(ConnectTask) /\ Distinct(y.tasks)
         /\ Head(x.tasks) \in ConnectTask /\ Has(x, Head(x.tasks))
         /\ \A t : Has(y, t) <=> Has(x, t) /\ t # Head(x.tasks)
         /\ \A t : Ends(x.tasks, t) => \/ Head(x.tasks) = t /\ y.tasks = <<>>
                                       \/ Head(x.tasks) # t /\ Ends(y.tasks, t)
<1>1. x.tasks \in Seq(ConnectTask) /\ Distinct(x.tasks)
  BY DEF ConnectTyped
<1>2. /\ Tail(x.tasks) \in Seq(ConnectTask) /\ Head(x.tasks) \in ConnectTask
      /\ Head(x.tasks) \in Range(x.tasks) /\ Distinct(Tail(x.tasks))
      /\ Range(Tail(x.tasks)) = Range(x.tasks) \ {Head(x.tasks)}
  BY <1>1, TakeHead
<1>3. \A t : Ends(x.tasks, t) => \/ Head(x.tasks) = t /\ y.tasks = <<>>
                                 \/ Head(x.tasks) # t /\ Ends(y.tasks, t)
  BY <1>1, EndsTaken
<1>4. QED
  BY <1>2, <1>3 DEF Has

\* What tasks there are once one is added.
LEMMA TaskAdded ==
  ASSUME NEW x, NEW y, ConnectTyped(x), NEW t \in ConnectTask, ~Has(x, t),
         y.tasks = Append(x.tasks, t)
  PROVE  /\ y.tasks \in Seq(ConnectTask) /\ Distinct(y.tasks) /\ y.tasks # <<>>
         /\ \A u : Has(y, u) <=> Has(x, u) \/ u = t
         /\ Ends(y.tasks, t)
         /\ x.tasks = <<>> => y.tasks = <<t>>
         /\ x.tasks # <<>> => Head(y.tasks) = Head(x.tasks)
<1>1. x.tasks \in Seq(ConnectTask) /\ Distinct(x.tasks) /\ t \notin Range(x.tasks)
  BY DEF ConnectTyped, Has
<1>2. QED
  BY <1>1, AddLast, EndsAdded DEF Has

\* Nothing is queued.
LEMMA NoTasks ==
  ASSUME NEW x, x.tasks = <<>>
  PROVE  \A t : ~Has(x, t) /\ ~Ends(x.tasks, t)
BY DEF Has, Range, Ends

\* What ends a queue is in it.
LEMMA EndsHas ==
  ASSUME NEW x, ConnectTyped(x), NEW t, Ends(x.tasks, t)
  PROVE  Has(x, t)
BY DEF Ends, Has, Range, ConnectTyped
-----------------------------------------------------------------------------
(* What the operators of the model do, unless an assertion fails.            *)

Fresh(x, e) == \A i \in DOMAIN x.events : ~SameEvent(x.events[i], e)
Fails2(x, y) == DOMAIN y = ConnectFields /\ y.aborted = TRUE /\ y.ep = x.ep

\* Raising an event.
Raises(x, y, e) ==
    \/ Fails2(x, y)
    \/ y = [x EXCEPT !.events = Append(x.events, e)] /\ Fresh(x, e)
LEMMA RaiseIs ==
  ASSUME NEW x, DOMAIN x = ConnectFields, x.aborted = FALSE, NEW e
  PROVE  Raises(x, Raise(x, e), e)
<1> DEFINE b == x.aborted \/ \E i \in DOMAIN x.events : SameEvent(x.events[i], e)
<1>1. Raise(x, e) = [x EXCEPT !.events = Append(x.events, e), !.aborted = b]
  BY DEF Raise
<1>2. CASE b
  BY <1>1, <1>2 DEF ConnectFields, Raises, Fails2
<1>3. CASE ~b
  <2>1. b = FALSE
    BY <1>3
  <2> HIDE DEF b
  <2>2. Raise(x, e) = [x EXCEPT !.events = Append(x.events, e)]
    BY <1>1, <2>1 DEF ConnectFields
  <2>3. QED
    BY <1>3, <2>2 DEF b, Raises, Fresh
<1>4. QED
  BY <1>2, <1>3

\* Queueing a task.
Executes(x, y, t) ==
    \/ Fails2(x, y)
    \/ y = [x EXCEPT !.tasks = Append(x.tasks, t)] /\ ~Has(x, t)
LEMMA ExecuteIs ==
  ASSUME NEW x, DOMAIN x = ConnectFields, x.aborted = FALSE, NEW f, NEW w
  PROVE  Executes(x, Execute(x, f, w), <<f, w>>)
<1> DEFINE b == x.aborted \/ \E i \in DOMAIN x.tasks : x.tasks[i] = <<f, w>>
<1>1. Execute(x, f, w) = [x EXCEPT !.tasks = Append(x.tasks, <<f, w>>), !.aborted = b]
  BY DEF Execute
<1>2. CASE b
  BY <1>1, <1>2 DEF ConnectFields, Executes, Fails2
<1>3. CASE ~b
  <2>1. b = FALSE
    BY <1>3
  <2> HIDE DEF b
  <2>2. Execute(x, f, w) = [x EXCEPT !.tasks = Append(x.tasks, <<f, w>>)]
    BY <1>1, <2>1 DEF ConnectFields
  <2>3. QED
    BY <1>3, <2>2 DEF b, Has, Range, Executes
<1>4. QED
  BY <1>2, <1>3

\* An assertion that failed stays failed.
LEMMA StaysLost ==
  ASSUME NEW x, Lost(x), NEW e, NEW f, NEW w
  PROVE  /\ Lost(Raise(x, e)) /\ Lost(Execute(x, f, w)) /\ Lost(Abort(x))
<1>1. Lost(Raise(x, e))
  BY DEF Lost, Raise, ConnectFields
<1>2. Lost(Execute(x, f, w))
  BY DEF Lost, Execute, ConnectFields
<1>3. QED
  BY <1>1, <1>2 DEF Lost, Abort, ConnectFields

\* The worker is told to close the descriptor, and the owner that it will.
Down(x, y, u) ==
    /\ ~Has(x, U("STOP")) /\ Fresh(x, Ev(x.owner, "USOCK", "SHUTDOWN"))
    /\ y = [x EXCEPT !.usock = u, !.tasks = Append(x.tasks, U("STOP")),
                     !.events = Append(x.events, Ev(x.owner, "USOCK", "SHUTDOWN"))]

\* nn_usock_send and nn_usock_recv.
Uses(x, y, w, type) ==
    \/ Fails2(x, y)
    \/ x.usock \in {"REMOVING_FD", "DONE", "STOPPING"} /\ y = x
    \/ /\ x.usock = "ACTIVE" /\ Fresh(x, Ev(x.owner, "USOCK", type))
       /\ y = [x EXCEPT !.events = Append(x.events, Ev(x.owner, "USOCK", type))]
    \/ x.usock = "ACTIVE" /\ ~Has(x, U(w)) /\ y = [x EXCEPT !.tasks = Append(x.tasks, U(w))]
    \/ x.usock = "ACTIVE" /\ Down(x, y, "REMOVING_FD")

ShutsDown(x, y, u) == Fails2(x, y) \/ Down(x, y, u)
LEMMA AsyncStopIs ==
  ASSUME NEW x, DOMAIN x = ConnectFields, x.aborted = FALSE, x.ep # "FREED", NEW u
  PROVE  ShutsDown(x, AsyncStop([x EXCEPT !.usock = u]), u)
<1> DEFINE z == [x EXCEPT !.usock = u]
           e == Ev(x.owner, "USOCK", "SHUTDOWN")
           v == Execute(z, "usock", "STOP")
<1>1. /\ DOMAIN z = ConnectFields /\ z.aborted = FALSE /\ z.owner = x.owner /\ z.tasks = x.tasks
      /\ z.events = x.events /\ z.usock = u /\ z.ep = x.ep
  BY DEF ConnectFields
<1>2. Executes(z, v, U("STOP"))
  BY <1>1, ExecuteIs DEF U
<1>7. e = Ev(x.owner, "USOCK", "SHUTDOWN")
  OBVIOUS
<1>3. AsyncStop(z) = Raise(v, Ev(v.owner, "USOCK", "SHUTDOWN"))
  BY DEF AsyncStop, UsockEvent
<1> HIDE DEF z, v, e
<1>4. CASE Fails2(z, v)
  <2>1. Lost(v) /\ v.ep = x.ep
    BY <1>1, <1>4 DEF Fails2, Lost
  <2> DEFINE y == Raise(v, Ev(v.owner, "USOCK", "SHUTDOWN"))
  <2>2. Fails2(x, y)
    BY <2>1 DEF Fails2, Raise, Lost, ConnectFields
  <2>3. QED
    BY <1>3, <2>2 DEF z, ShutsDown
<1>5. CASE v = [z EXCEPT !.tasks = Append(z.tasks, U("STOP"))] /\ ~Has(z, U("STOP"))
  <2>1. /\ DOMAIN v = ConnectFields /\ v.aborted = FALSE /\ v.owner = x.owner
        /\ v.events = x.events /\ v.ep = x.ep
    BY <1>1, <1>5 DEF ConnectFields
  <2>2. Raises(v, Raise(v, e), e)
    BY <2>1, RaiseIs
  <2>3. \/ Fails2(x, Raise(v, e))
        \/ Raise(v, e) = [v EXCEPT !.events = Append(x.events, e)] /\ Fresh(x, e)
    <3>1. Fails2(v, Raise(v, e)) => Fails2(x, Raise(v, e))
      BY <2>1 DEF Fails2
    <3>2. Fresh(v, e) => Fresh(x, e)
      BY <2>1 DEF Fresh
    <3>3. QED
      BY <2>1, <2>2, <3>1, <3>2 DEF Raises
  <2>4. [v EXCEPT !.events = Append(x.events, e)]
          = [x EXCEPT !.usock = u, !.tasks = Append(x.tasks, U("STOP")), !.events = Append(x.events, e)]
    BY <1>1, <1>5 DEF z, ConnectFields
  <2>5. ~Has(x, U("STOP"))
    BY <1>1, <1>5 DEF Has
  <2>6. QED
    BY <1>3, <1>7, <2>1, <2>3, <2>4, <2>5 DEF z, ShutsDown, Down
<1>6. QED
  BY <1>2, <1>4, <1>5 DEF Executes

\* nn_usock_send and nn_usock_recv are one of five.
LEMMA UsesIs ==
  ASSUME NEW x, DOMAIN x = ConnectFields, x.aborted = FALSE, x.ep # "FREED", NEW r \in Result
  PROVE  /\ Uses(x, UsockSend(x, r), "SEND", "SENT")
         /\ Uses(x, UsockRecv(x, r), "RECV", "RECEIVED")
<1> DEFINE s == [x EXCEPT !.usock = "REMOVING_FD"]
<1>1. ShutsDown(x, AsyncStop(s), "REMOVING_FD")
  BY AsyncStopIs
<1> HIDE DEF s
<1>2. Fails2(x, Abort(x))
  BY DEF Abort, Fails2, ConnectFields
<1>3. \A w, type : Uses(x, UsockError(x), w, type)
  BY <1>1, <1>2 DEF UsockError, Uses, ShutsDown, s
<1>4. \A type : Raises(x, UsockEvent(x, type), Ev(x.owner, "USOCK", type))
  BY RaiseIs DEF UsockEvent
<1>5. \A w : Executes(x, Execute(x, "usock", w), U(w))
  BY ExecuteIs DEF U
<1>6. Uses(x, UsockSend(x, r), "SEND", "SENT")
  <2>1. CASE x.usock # "ACTIVE" \/ r = "reset"
    BY <1>3, <2>1 DEF UsockSend
  <2>2. CASE x.usock = "ACTIVE" /\ r = "done"
    BY <1>4, <2>2 DEF UsockSend, Uses, Raises
  <2>3. CASE x.usock = "ACTIVE" /\ r = "again"
    BY <1>5, <2>3 DEF UsockSend, Uses, Executes
  <2>4. QED
    BY <2>1, <2>2, <2>3 DEF Result
<1>7. Uses(x, UsockRecv(x, r), "RECV", "RECEIVED")
  <2>1. CASE x.usock # "ACTIVE" \/ r = "reset"
    BY <1>3, <2>1 DEF UsockRecv
  <2>2. CASE x.usock = "ACTIVE" /\ r = "done"
    BY <1>4, <2>2 DEF UsockRecv, Uses, Raises
  <2>3. CASE x.usock = "ACTIVE" /\ r = "again"
    BY <1>5, <2>3 DEF UsockRecv, Uses, Executes
  <2>4. QED
    BY <2>1, <2>2, <2>3 DEF Result
<1>8. QED
  BY <1>6, <1>7
\* nn_usock_stop.
Shuts(x, y) ==
    \/ Fails2(x, y)
    \/ x.usock \in {"IDLE", "STOPPING"} /\ y = x
    \/ /\ x.usock \in {"STARTING", "DONE"} /\ Fresh(x, Ev(x.owner, "USOCK", "STOPPED"))
       /\ y = [x EXCEPT !.usock = "IDLE",
                        !.events = Append(x.events, Ev(x.owner, "USOCK", "STOPPED"))]
    \/ x.usock = "REMOVING_FD" /\ y = [x EXCEPT !.usock = "STOPPING"]
    \/ x.usock \in {"CONNECTING", "ACTIVE"} /\ Down(x, y, "STOPPING")

\* nn_usock_stop is one of five.
LEMMA ShutsIs ==
  ASSUME NEW x, DOMAIN x = ConnectFields, x.aborted = FALSE, x.ep # "FREED",
         x.usock \in UsockState
  PROVE  Shuts(x, UsockStop(x))
<1> DEFINE s == [x EXCEPT !.usock = "STOPPING"]
           i == [x EXCEPT !.usock = "IDLE"]
<1>1. ShutsDown(x, AsyncStop(s), "STOPPING")
  BY AsyncStopIs
<1>2. /\ DOMAIN i = ConnectFields /\ i.aborted = FALSE /\ i.events = x.events /\ i.owner = x.owner
      /\ i.ep = x.ep
  BY DEF ConnectFields
<1> HIDE DEF i
<1>3. Raises(i, UsockEvent(i, "STOPPED"), Ev(x.owner, "USOCK", "STOPPED"))
  BY <1>2, RaiseIs DEF UsockEvent
<1>4. [i EXCEPT !.events = Append(i.events, Ev(x.owner, "USOCK", "STOPPED"))]
         = [x EXCEPT !.usock = "IDLE", !.events = Append(x.events, Ev(x.owner, "USOCK", "STOPPED"))]
  BY <1>2 DEF i, ConnectFields
<1>5. \/ Fails2(x, UsockEvent(i, "STOPPED"))
      \/ /\ Fresh(x, Ev(x.owner, "USOCK", "STOPPED"))
         /\ UsockEvent(i, "STOPPED") =
               [x EXCEPT !.usock = "IDLE", !.events = Append(x.events, Ev(x.owner, "USOCK", "STOPPED"))]
  <2>1. Fails2(i, UsockEvent(i, "STOPPED")) => Fails2(x, UsockEvent(i, "STOPPED"))
    BY <1>2 DEF Fails2
  <2>2. Fresh(i, Ev(x.owner, "USOCK", "STOPPED")) => Fresh(x, Ev(x.owner, "USOCK", "STOPPED"))
    BY <1>2 DEF Fresh
  <2>3. QED
    BY <1>3, <1>4, <2>1, <2>2 DEF Raises
<1> HIDE DEF s
<1>6. CASE x.usock \in {"STARTING", "DONE"}
  BY <1>5, <1>6 DEF UsockStop, Shuts, i
<1>7. CASE x.usock \in {"CONNECTING", "ACTIVE"}
  BY <1>1, <1>7 DEF UsockStop, Shuts, ShutsDown, s
<1>8. CASE x.usock \in {"IDLE", "STOPPING", "REMOVING_FD"}
  BY <1>8 DEF UsockStop, Shuts
<1>9. QED
  BY <1>6, <1>7, <1>8 DEF UsockState

\* A task and another state of the timer.
Turns(x, y, t, s, w) ==
    /\ ~Has(x, <<t, w>>)
    /\ y = [x EXCEPT !.timer = [x.timer EXCEPT ![t] = s],
                     !.tasks = Append(x.tasks, <<t, w>>)]

\* nn_timer_start and nn_timer_stop.
Starts(x, y, t) ==
    \/ Fails2(x, y)
    \/ x.timer[t] = "IDLE" /\ Turns(x, y, t, "ACTIVE", "START")
Halts(x, y, t) ==
    \/ Fails2(x, y)
    \/ x.timer[t] # "ACTIVE" /\ y = x
    \/ x.timer[t] = "ACTIVE" /\ Turns(x, y, t, "STOPPING", "STOP")

\* The task is queued unless it is there.
Retimes(x, y, t, s, w) == Fails2(x, y) \/ Turns(x, y, t, s, w)
LEMMA TimerTaskIs ==
  ASSUME NEW x, DOMAIN x = ConnectFields, x.aborted = FALSE, NEW t \in Timer, NEW s, NEW w
  PROVE  Retimes(x, Execute([x EXCEPT !.timer[t] = s], t, w), t, s, w)
<1> DEFINE z == [x EXCEPT !.timer = [x.timer EXCEPT ![t] = s]]
<1>1. [x EXCEPT !.timer[t] = s] = z
  BY DEF ConnectFields
<1>2. /\ DOMAIN z = ConnectFields /\ z.aborted = FALSE /\ z.tasks = x.tasks /\ z.ep = x.ep
  BY DEF ConnectFields
<1>3. [z EXCEPT !.tasks = Append(x.tasks, <<t, w>>)] =
         [x EXCEPT !.timer = [x.timer EXCEPT ![t] = s], !.tasks = Append(x.tasks, <<t, w>>)]
  BY DEF ConnectFields
<1> HIDE DEF z
<1>4. Executes(z, Execute(z, t, w), <<t, w>>)
  BY <1>2, ExecuteIs
<1>5. Fails2(z, Execute(z, t, w)) => Fails2(x, Execute(z, t, w))
  BY <1>2 DEF Fails2
<1>6. Has(z, <<t, w>>) <=> Has(x, <<t, w>>)
  BY <1>2 DEF Has
<1>7. QED
  BY <1>1, <1>2, <1>3, <1>4, <1>5, <1>6 DEF Executes, Retimes, Turns

\* nn_timer_start, nn_timer_stop.
LEMMA TimerIs ==
  ASSUME NEW x, DOMAIN x = ConnectFields, x.aborted = FALSE, NEW t \in Timer
  PROVE  /\ Starts(x, TimerStart(x, t), t)
         /\ Halts(x, TimerStop(x, t), t)
<1>1. Fails2(x, Abort(x))
  BY DEF Abort, Fails2, ConnectFields
<1>2. Starts(x, TimerStart(x, t), t)
  <2>1. Retimes(x, Execute([x EXCEPT !.timer[t] = "ACTIVE"], t, "START"), t, "ACTIVE", "START")
    BY TimerTaskIs
  <2>2. QED
    BY <1>1, <2>1 DEF TimerStart, TimerIdle, FsmIdle, Starts, Retimes
<1>3. Halts(x, TimerStop(x, t), t)
  <2>1. Retimes(x, Execute([x EXCEPT !.timer[t] = "STOPPING"], t, "STOP"), t, "STOPPING", "STOP")
    BY TimerTaskIs
  <2>2. QED
    BY <2>1 DEF TimerStop, Halts, Retimes
<1>4. QED
  BY <1>2, <1>3

\* An assertion that failed stays failed, whatever is called then.
LEMMA CallsStayLost ==
  ASSUME NEW x, Lost(x)
  PROVE  /\ \A r \in Result : Lost(UsockSend(x, r)) /\ Lost(UsockRecv(x, r))
         /\ x.usock \in UsockState => Lost(UsockStop(x))
         /\ \A t \in Timer : Lost(TimerStart(x, t)) /\ Lost(TimerStop(x, t))
<1>1. \A z : Lost(z) => /\ \A e : Lost(Raise(z, e))
                        /\ \A f, w : Lost(Execute(z, f, w))
                        /\ Lost(Abort(z))
  BY StaysLost
<1>2. \A u : Lost([x EXCEPT !.usock = u])
  BY DEF Lost, ConnectFields
<1>3. \A u : Lost(AsyncStop([x EXCEPT !.usock = u]))
  BY <1>1, <1>2 DEF AsyncStop, UsockEvent
<1>4. Lost(UsockError(x))
  BY <1>1, <1>3 DEF UsockError
<1>5. \A r \in Result : Lost(UsockSend(x, r)) /\ Lost(UsockRecv(x, r))
  <2> TAKE r \in Result
  <2>1. \A type : Lost(UsockEvent(x, type))
    BY <1>1 DEF UsockEvent
  <2>2. r \in {"done", "again", "reset"}
    BY DEF Result
  <2>3. Lost(UsockSend(x, r))
    BY <1>1, <1>4, <2>1, <2>2 DEF UsockSend
  <2>4. Lost(UsockRecv(x, r))
    BY <1>1, <1>4, <2>1, <2>2 DEF UsockRecv
  <2>5. QED
    BY <2>3, <2>4
<1>6. x.usock \in UsockState => Lost(UsockStop(x))
  <2>1. \A u, type : Lost(UsockEvent([x EXCEPT !.usock = u], type))
    BY <1>1, <1>2 DEF UsockEvent
  <2>2. QED
    BY <1>2, <1>3, <2>1 DEF UsockStop, UsockState
<1>7. \A t \in Timer : Lost(TimerStart(x, t)) /\ Lost(TimerStop(x, t))
  <2> TAKE t \in Timer
  <2>1. \A s : Lost([x EXCEPT !.timer[t] = s])
    BY DEF Lost, ConnectFields
  <2>2. QED
    BY <1>1, <2>1 DEF TimerStart, TimerStop
<1>8. QED
  BY <1>5, <1>6, <1>7
-----------------------------------------------------------------------------
(* The parts of the invariant that every call keeps.                         *)

\* What Fit depends on.
Core(x, y) ==
    /\ DOMAIN y = ConnectFields /\ y.aborted = x.aborted /\ y.kind = x.kind
    /\ y.usock = x.usock /\ y.poll = x.poll /\ y.tasks = x.tasks /\ y.events = x.events
    /\ y.timer = x.timer /\ y.armed = x.armed
    /\ y.owner \in {"ep", "session", "header"} /\ DOMAIN y.saved = {"session", "header"}
LEMMA FitKept ==
  ASSUME NEW x, NEW y, Fit(x), Core(x, y)
  PROVE  Fit(y)
BY DEF Fit, Core, ConnectTyped, Wired, Timed, Has

\* The event at the head is taken.
LEMMA FitRest ==
  ASSUME NEW x, Fit(x), x.events # <<>>
  PROVE  /\ Fit([x EXCEPT !.events = Tail(x.events)])
         /\ Head(x.events) \in ConnectEvent
<1> DEFINE y == [x EXCEPT !.events = Tail(x.events)]
<1>1. x.events \in Seq(ConnectEvent) /\ Distinct(x.events)
  BY DEF Fit, ConnectTyped
<1>2. Tail(x.events) \in Seq(ConnectEvent) /\ Distinct(Tail(x.events)) /\ Head(x.events) \in ConnectEvent
  BY <1>1, TakeHead
<1>3. /\ DOMAIN y = ConnectFields /\ y.aborted = x.aborted /\ y.kind = x.kind
      /\ y.usock = x.usock /\ y.poll = x.poll /\ y.tasks = x.tasks /\ y.events = Tail(x.events)
      /\ y.timer = x.timer /\ y.armed = x.armed /\ y.owner = x.owner /\ y.saved = x.saved
  BY DEF Fit, ConnectTyped, ConnectFields
<1> HIDE DEF y
<1>4. ConnectTyped(y)
  BY <1>2, <1>3 DEF Fit, ConnectTyped
<1>5. Wired(y) /\ Timed(y)
  BY <1>3 DEF Fit, Wired, Timed, Has
<1>6. QED
  BY <1>2, <1>4, <1>5 DEF Fit, y

\* An event that is not there yet comes.
LEMMA EventComes ==
  ASSUME NEW x, ConnectTyped(x), NEW e \in ConnectEvent, Fresh(x, e)
  PROVE  /\ e \notin Range(x.events)
         /\ Append(x.events, e) \in Seq(ConnectEvent) /\ Distinct(Append(x.events, e))
         /\ Range(Append(x.events, e)) = Range(x.events) \cup {e}
         /\ Ends(Append(x.events, e), e)
         /\ x.events = <<>> => Append(x.events, e) = <<e>>
<1>1. x.events \in Seq(ConnectEvent) /\ Distinct(x.events)
  BY DEF ConnectTyped
<1>2. e \notin Range(x.events)
  BY DEF Fresh, SameEvent, Range
<1>3. QED
  BY <1>1, <1>2, AddLast, EndsAdded

\* An event.
LEMMA FitRaises ==
  ASSUME NEW x, Fit(x), NEW e \in ConnectEvent, Fresh(x, e)
  PROVE  Fit([x EXCEPT !.events = Append(x.events, e)])
<1> DEFINE y == [x EXCEPT !.events = Append(x.events, e)]
<1>1. Append(x.events, e) \in Seq(ConnectEvent) /\ Distinct(Append(x.events, e))
  BY EventComes DEF Fit
<1>2. /\ DOMAIN y = ConnectFields /\ y.aborted = x.aborted /\ y.kind = x.kind
      /\ y.usock = x.usock /\ y.poll = x.poll /\ y.tasks = x.tasks /\ y.events = Append(x.events, e)
      /\ y.timer = x.timer /\ y.armed = x.armed /\ y.owner = x.owner /\ y.saved = x.saved
  BY DEF Fit, ConnectTyped, ConnectFields
<1> HIDE DEF y
<1>3. ConnectTyped(y)
  BY <1>1, <1>2 DEF Fit, ConnectTyped
<1>4. Wired(y) /\ Timed(y)
  BY <1>2 DEF Fit, Wired, Timed, Has
<1>5. QED
  BY <1>3, <1>4 DEF Fit, y

\* A task.
LEMMA FitExecutes ==
  ASSUME NEW x, Fit(x), NEW t \in ConnectTask, t \notin {U("CONNECTED"), U("CONNECTING")},
         ~Has(x, t)
  PROVE  Fit([x EXCEPT !.tasks = Append(x.tasks, t)])
<1> DEFINE y == [x EXCEPT !.tasks = Append(x.tasks, t)]
<1>2. /\ DOMAIN y = ConnectFields /\ y.aborted = x.aborted /\ y.kind = x.kind
      /\ y.usock = x.usock /\ y.poll = x.poll /\ y.tasks = Append(x.tasks, t) /\ y.events = x.events
      /\ y.timer = x.timer /\ y.armed = x.armed /\ y.owner = x.owner /\ y.saved = x.saved
  BY DEF Fit, ConnectTyped, ConnectFields
<1> HIDE DEF y
<1>1. /\ y.tasks \in Seq(ConnectTask) /\ Distinct(y.tasks)
      /\ \A u : Has(y, u) <=> Has(x, u) \/ u = t
      /\ x.tasks # <<>> => Head(y.tasks) = Head(x.tasks)
  <2>1. ConnectTyped(x) /\ y.tasks = Append(x.tasks, t)
    BY <1>2 DEF Fit
  <2>2. QED
    BY <2>1, TaskAdded
<1>3. ConnectTyped(y)
  BY <1>1, <1>2 DEF Fit, ConnectTyped
<1>4. x.tasks = <<>> => \A u : ~Has(x, u)
  BY NoTasks
<1>5. Wired(y) /\ Timed(y)
  BY <1>1, <1>2, <1>4 DEF Fit, Wired, Timed
<1>6. QED
  BY <1>3, <1>5 DEF Fit, y

\* A usock that is in use is closed.
LEMMA FitShutsDown ==
  ASSUME NEW x, Fit(x), NEW y, NEW u, Down(x, y, u),
         \/ x.usock = "ACTIVE" /\ u \in {"REMOVING_FD", "STOPPING"}
         \/ x.usock = "CONNECTING" /\ u = "STOPPING"
  PROVE  Fit(y)
<1>0. ~Has(x, U("STOP")) /\ Fresh(x, Ev(x.owner, "USOCK", "SHUTDOWN"))
  BY DEF Down
<1>1. /\ DOMAIN y = ConnectFields /\ y.aborted = x.aborted /\ y.kind = x.kind
      /\ y.usock = u /\ y.poll = x.poll /\ y.tasks = Append(x.tasks, U("STOP"))
      /\ y.events = Append(x.events, Ev(x.owner, "USOCK", "SHUTDOWN"))
      /\ y.timer = x.timer /\ y.armed = x.armed /\ y.owner = x.owner /\ y.saved = x.saved
  BY DEF Fit, ConnectTyped, ConnectFields, Down
<1>2. U("STOP") \in ConnectTask /\ Ev(x.owner, "USOCK", "SHUTDOWN") \in ConnectEvent
  BY DEF U, ConnectTask, Ev, ConnectEvent, Fit, ConnectTyped
<1>3. /\ y.tasks \in Seq(ConnectTask) /\ Distinct(y.tasks)
      /\ \A t : Has(y, t) <=> Has(x, t) \/ t = U("STOP")
      /\ x.tasks # <<>> => Head(y.tasks) = Head(x.tasks)
  <2>1. ConnectTyped(x) /\ y.tasks = Append(x.tasks, U("STOP"))
    BY <1>1 DEF Fit
  <2>2. QED
    BY <1>0, <1>2, <2>1, TaskAdded
<1>4. y.events \in Seq(ConnectEvent) /\ Distinct(y.events)
  BY <1>0, <1>1, <1>2, EventComes DEF Fit
<1>5. ConnectTyped(y)
  BY <1>1, <1>3, <1>4 DEF Fit, ConnectTyped, UsockState
<1>6. x.tasks = <<>> => \A t : ~Has(x, t)
  BY NoTasks
<1>7. U("STOP") # U("CONNECTED") /\ U("STOP") # U("CONNECTING")
  BY DEF U
<1>8. Wired(y) /\ Timed(y)
  BY <1>1, <1>3, <1>6, <1>7 DEF Fit, Wired, Timed
<1>9. QED
  BY <1>5, <1>8 DEF Fit
-----------------------------------------------------------------------------
(* What a call does to a record that fits.                                   *)

\* The fields that phases depend on and calls leave alone.
Frame(x, y) ==
    /\ y.ep = x.ep /\ y.dns = x.dns /\ y.peerGone = x.peerGone /\ y.owner = x.owner
    /\ y.header = x.header /\ y.saved = x.saved /\ y.session = x.session /\ y.pipe = x.pipe
    /\ y.odd = x.odd /\ y.poll = x.poll /\ y.kind = x.kind
Gains(x, y, t) ==
    /\ \A u : Has(y, u) <=> Has(x, u) \/ u = t
    /\ Ends(y.tasks, t)
    /\ x.tasks = <<>> => y.tasks = <<t>>
Hears(x, y, e) ==
    /\ e \notin Range(x.events) /\ Range(y.events) = Range(x.events) \cup {e}
    /\ Ends(y.events, e)
    /\ x.events = <<>> => y.events = <<e>>

\* An event was raised.
Raised(x, y, e) ==
    /\ Fit(y) /\ Frame(x, y) /\ y.timer = x.timer /\ y.armed = x.armed /\ y.usock = x.usock
    /\ y.tasks = x.tasks /\ Hears(x, y, e) /\ Fresh(x, e)
LEMMA RaisedBy ==
  ASSUME NEW x, Fit(x), NEW e \in ConnectEvent, x.ep # "FREED"
  PROVE  Lost(Raise(x, e)) \/ Raised(x, Raise(x, e), e)
<1> DEFINE y == [x EXCEPT !.events = Append(x.events, e)]
<1>0. ConnectTyped(x) /\ DOMAIN x = ConnectFields /\ x.aborted = FALSE
  BY DEF Fit, ConnectTyped
<1>1. Raises(x, Raise(x, e), e)
  BY <1>0, RaiseIs
<1>2. CASE Fails2(x, Raise(x, e))
  BY <1>2 DEF Fails2, Lost
<1>3. CASE Raise(x, e) = y /\ Fresh(x, e)
  <2>1. Fit(y)
    BY <1>3, FitRaises
  <2>2. Frame(x, y) /\ y.timer = x.timer /\ y.armed = x.armed /\ y.usock = x.usock
        /\ y.tasks = x.tasks /\ y.events = Append(x.events, e)
    BY <1>0 DEF Frame, ConnectFields
  <2> HIDE DEF y
  <2>3. Hears(x, y, e)
    BY <1>0, <1>3, <2>2, EventComes DEF Hears
  <2>4. QED
    BY <1>3, <2>1, <2>2, <2>3 DEF Raised
<1>4. QED
  BY <1>1, <1>2, <1>3 DEF Raises

\* The usock was used.
Used(x, y, w, type) ==
    /\ Fit(y) /\ Frame(x, y) /\ y.timer = x.timer /\ y.armed = x.armed
    /\ \/ /\ x.usock \in {"REMOVING_FD", "DONE", "STOPPING"} /\ y.usock = x.usock
          /\ y.tasks = x.tasks /\ y.events = x.events
       \/ /\ x.usock = "ACTIVE" /\ y.usock = "ACTIVE" /\ y.tasks = x.tasks
          /\ Hears(x, y, Ev(x.owner, "USOCK", type)) /\ Fresh(x, Ev(x.owner, "USOCK", type))
       \/ /\ x.usock = "ACTIVE" /\ y.usock = "ACTIVE" /\ y.events = x.events
          /\ Gains(x, y, U(w)) /\ ~Has(x, U(w))
       \/ /\ x.usock = "ACTIVE" /\ y.usock = "REMOVING_FD" /\ Gains(x, y, U("STOP"))
          /\ Hears(x, y, Ev(x.owner, "USOCK", "SHUTDOWN"))
          /\ Fresh(x, Ev(x.owner, "USOCK", "SHUTDOWN"))

\* Names of events and tasks.
LEMMA Names ==
  /\ \A o \in {"ep", "session", "header"}, t \in {"SENT", "RECEIVED", "SHUTDOWN", "ERROR", "STOPPED"} :
        Ev(o, "USOCK", t) \in ConnectEvent
  /\ \A w \in {"RECV", "SEND", "CONNECTED", "CONNECTING", "STOP"} : U(w) \in ConnectTask
  /\ \A w, v : U(w) = U(v) => w = v
  /\ \A t \in Timer, w \in {"START", "STOP"} : <<t, w>> \in ConnectTask /\ \A v : <<t, w>> # U(v)
BY DEF Ev, ConnectEvent, U, ConnectTask, Timer

\* A task comes with what it is.
LEMMA GainsIs ==
  ASSUME NEW x, ConnectTyped(x), NEW t \in ConnectTask, ~Has(x, t), NEW y,
         y.tasks = Append(x.tasks, t)
  PROVE  Gains(x, y, t)
BY TaskAdded DEF Gains

\* An event comes with what it is.
LEMMA HearsIs ==
  ASSUME NEW x, ConnectTyped(x), NEW e \in ConnectEvent, Fresh(x, e), NEW y,
         y.events = Append(x.events, e)
  PROVE  Hears(x, y, e)
BY EventComes DEF Hears

\* The usock is used to send or to receive.
LEMMA UsedBy ==
  ASSUME NEW x, Fit(x), NEW r \in Result, x.ep # "FREED"
  PROVE  /\ Lost(UsockSend(x, r)) \/ Used(x, UsockSend(x, r), "SEND", "SENT")
         /\ Lost(UsockRecv(x, r)) \/ Used(x, UsockRecv(x, r), "RECV", "RECEIVED")
<1>0. ConnectTyped(x) /\ DOMAIN x = ConnectFields /\ x.aborted = FALSE
      /\ x.owner \in {"ep", "session", "header"}
  BY DEF Fit, ConnectTyped
<1>1. ASSUME NEW y, NEW w \in {"SEND", "RECV"}, NEW type \in {"SENT", "RECEIVED"}, Uses(x, y, w, type)
      PROVE  Lost(y) \/ Used(x, y, w, type)
  <2> DEFINE e == Ev(x.owner, "USOCK", type)
             s == Ev(x.owner, "USOCK", "SHUTDOWN")
  <2>0. e \in ConnectEvent /\ s \in ConnectEvent /\ U(w) \in ConnectTask /\ U("STOP") \in ConnectTask
        /\ U(w) \notin {U("CONNECTED"), U("CONNECTING")}
    BY <1>0, Names
  <2>10. e = Ev(x.owner, "USOCK", type) /\ s = Ev(x.owner, "USOCK", "SHUTDOWN")
    OBVIOUS
  <2> HIDE DEF e, s
  <2>1. CASE Fails2(x, y)
    BY <2>1 DEF Fails2, Lost
  <2>2. CASE x.usock \in {"REMOVING_FD", "DONE", "STOPPING"} /\ y = x
    BY <2>2 DEF Used, Frame
  <2>3. CASE x.usock = "ACTIVE" /\ Fresh(x, e) /\ y = [x EXCEPT !.events = Append(x.events, e)]
    <3>1. Fit(y)
      BY <2>0, <2>3, FitRaises
    <3>2. Frame(x, y) /\ y.timer = x.timer /\ y.armed = x.armed /\ y.usock = x.usock
          /\ y.tasks = x.tasks /\ y.events = Append(x.events, e)
      BY <1>0, <2>3 DEF Frame, ConnectFields
    <3>3. Hears(x, y, e)
      BY <1>0, <2>0, <2>3, <3>2, HearsIs
    <3>4. QED
      BY <2>3, <2>10, <3>1, <3>2, <3>3 DEF Used
  <2>4. CASE x.usock = "ACTIVE" /\ ~Has(x, U(w)) /\ y = [x EXCEPT !.tasks = Append(x.tasks, U(w))]
    <3>1. Fit(y)
      BY <2>0, <2>4, FitExecutes
    <3>2. Frame(x, y) /\ y.timer = x.timer /\ y.armed = x.armed /\ y.usock = x.usock
          /\ y.tasks = Append(x.tasks, U(w)) /\ y.events = x.events
      BY <1>0, <2>4 DEF Frame, ConnectFields
    <3>3. Gains(x, y, U(w))
      BY <1>0, <2>0, <2>4, <3>2, GainsIs
    <3>4. QED
      BY <2>4, <3>1, <3>2, <3>3 DEF Used
  <2>5. CASE x.usock = "ACTIVE" /\ Down(x, y, "REMOVING_FD")
    <3>1. Fit(y)
      BY <2>5, FitShutsDown
    <3>2. Frame(x, y) /\ y.timer = x.timer /\ y.armed = x.armed /\ y.usock = "REMOVING_FD"
          /\ y.tasks = Append(x.tasks, U("STOP")) /\ y.events = Append(x.events, s)
          /\ ~Has(x, U("STOP")) /\ Fresh(x, s)
      BY <1>0, <2>5, <2>10 DEF Frame, ConnectFields, Down
    <3>3. Gains(x, y, U("STOP")) /\ Hears(x, y, s)
      BY <1>0, <2>0, <3>2, GainsIs, HearsIs
    <3>4. QED
      BY <2>5, <2>10, <3>1, <3>2, <3>3 DEF Used
  <2>6. QED
    BY <1>1, <2>1, <2>2, <2>3, <2>4, <2>5, <2>10 DEF Uses
<1>2. /\ Uses(x, UsockSend(x, r), "SEND", "SENT")
      /\ Uses(x, UsockRecv(x, r), "RECV", "RECEIVED")
  BY <1>0, UsesIs
<1>3. QED
  BY <1>1, <1>2
\* The usock was stopped.
Shut(x, y) ==
    /\ Fit(y) /\ Frame(x, y) /\ y.timer = x.timer /\ y.armed = x.armed
    /\ \/ x.usock \in {"IDLE", "STOPPING"} /\ y = x
       \/ /\ x.usock \in {"STARTING", "DONE"} /\ y.usock = "IDLE" /\ y.tasks = x.tasks
          /\ Hears(x, y, Ev(x.owner, "USOCK", "STOPPED"))
       \/ /\ x.usock = "REMOVING_FD" /\ y.usock = "STOPPING" /\ y.tasks = x.tasks
          /\ y.events = x.events
       \/ /\ x.usock \in {"CONNECTING", "ACTIVE"} /\ y.usock = "STOPPING"
          /\ Gains(x, y, U("STOP")) /\ Hears(x, y, Ev(x.owner, "USOCK", "SHUTDOWN"))
LEMMA ShutBy ==
  ASSUME NEW x, Fit(x), x.ep # "FREED"
  PROVE  Lost(UsockStop(x)) \/ Shut(x, UsockStop(x))
<1>0. /\ ConnectTyped(x) /\ DOMAIN x = ConnectFields /\ x.aborted = FALSE
      /\ x.owner \in {"ep", "session", "header"} /\ x.usock \in UsockState
  BY DEF Fit, ConnectTyped
<1> DEFINE y == UsockStop(x)
           e == Ev(x.owner, "USOCK", "STOPPED")
           s == Ev(x.owner, "USOCK", "SHUTDOWN")
<1>1. Shuts(x, y)
  BY <1>0, ShutsIs
<1>2. /\ e \in ConnectEvent /\ s \in ConnectEvent /\ U("STOP") \in ConnectTask
      /\ e = Ev(x.owner, "USOCK", "STOPPED") /\ s = Ev(x.owner, "USOCK", "SHUTDOWN")
  BY <1>0, Names
<1> HIDE DEF y, e, s
<1>3. CASE Fails2(x, y)
  BY <1>3 DEF Fails2, Lost, y
<1>4. CASE x.usock \in {"IDLE", "STOPPING"} /\ y = x
  BY <1>4 DEF Shut, Frame, y
<1>5. CASE /\ x.usock \in {"STARTING", "DONE"} /\ Fresh(x, e)
           /\ y = [x EXCEPT !.usock = "IDLE", !.events = Append(x.events, e)]
  <2>1. /\ DOMAIN y = ConnectFields /\ y.aborted = FALSE /\ y.usock = "IDLE"
        /\ y.tasks = x.tasks /\ y.events = Append(x.events, e)
        /\ Frame(x, y) /\ y.timer = x.timer /\ y.armed = x.armed
    BY <1>0, <1>5 DEF Frame, ConnectFields
  <2>2. y.events \in Seq(ConnectEvent) /\ Distinct(y.events) /\ Hears(x, y, e)
    <3>1. Append(x.events, e) \in Seq(ConnectEvent) /\ Distinct(Append(x.events, e))
      BY <1>0, <1>2, <1>5, EventComes
    <3>2. Hears(x, y, e)
      BY <1>0, <1>2, <1>5, <2>1, HearsIs
    <3>3. QED
      BY <2>1, <3>1, <3>2
  <2>3. ConnectTyped(y)
    BY <2>1, <2>2 DEF Fit, ConnectTyped, UsockState, Frame
  <2>4. Wired(y) /\ Timed(y)
    BY <1>5, <2>1 DEF Fit, Wired, Timed, Has, Frame
  <2>5. QED
    BY <1>2, <1>5, <2>1, <2>2, <2>3, <2>4 DEF Shut, Fit, y
<1>6. CASE x.usock = "REMOVING_FD" /\ y = [x EXCEPT !.usock = "STOPPING"]
  <2>1. /\ DOMAIN y = ConnectFields /\ y.aborted = FALSE /\ y.usock = "STOPPING"
        /\ y.tasks = x.tasks /\ y.events = x.events
        /\ Frame(x, y) /\ y.timer = x.timer /\ y.armed = x.armed
    BY <1>0, <1>6 DEF Frame, ConnectFields
  <2>3. ConnectTyped(y)
    BY <2>1 DEF Fit, ConnectTyped, UsockState, Frame
  <2>4. Wired(y) /\ Timed(y)
    BY <1>6, <2>1 DEF Fit, Wired, Timed, Has, Frame
  <2>5. QED
    BY <1>6, <2>1, <2>3, <2>4 DEF Shut, Fit, y
<1>7. CASE x.usock \in {"CONNECTING", "ACTIVE"} /\ Down(x, y, "STOPPING")
  <2>1. Fit(y)
    BY <1>7, FitShutsDown
  <2>2. Frame(x, y) /\ y.timer = x.timer /\ y.armed = x.armed /\ y.usock = "STOPPING"
        /\ y.tasks = Append(x.tasks, U("STOP")) /\ y.events = Append(x.events, s)
        /\ ~Has(x, U("STOP")) /\ Fresh(x, s)
    BY <1>0, <1>2, <1>7 DEF Frame, ConnectFields, Down
  <2>3. Gains(x, y, U("STOP")) /\ Hears(x, y, s)
    BY <1>0, <1>2, <2>2, GainsIs, HearsIs
  <2>4. QED
    BY <1>2, <1>7, <2>1, <2>2, <2>3 DEF Shut, y
<1>8. QED
  BY <1>1, <1>2, <1>3, <1>4, <1>5, <1>6, <1>7 DEF Shuts

\* A timer was started or stopped.
Retimed(x, y, t, s, w) ==
    /\ Fit(y) /\ Frame(x, y) /\ y.usock = x.usock /\ y.armed = x.armed /\ y.events = x.events
    /\ y.timer[t] = s /\ \A u \in Timer \ {t} : y.timer[u] = x.timer[u]
    /\ Gains(x, y, <<t, w>>)
Started(x, y, t) == x.timer[t] = "IDLE" /\ Retimed(x, y, t, "ACTIVE", "START")
Halted(x, y, t) ==
    \/ x.timer[t] # "ACTIVE" /\ y = x
    \/ x.timer[t] = "ACTIVE" /\ Retimed(x, y, t, "STOPPING", "STOP")

\* With the task of a timer it changes its state.
LEMMA RetimedBy ==
  ASSUME NEW x, Fit(x), NEW t \in Timer, NEW s \in {"ACTIVE", "STOPPING"},
         NEW w \in {"START", "STOP"}, NEW y, Turns(x, y, t, s, w)
  PROVE  Retimed(x, y, t, s, w)
<1>0. ConnectTyped(x) /\ DOMAIN x = ConnectFields /\ x.aborted = FALSE /\ DOMAIN x.timer = Timer
  BY DEF Fit, ConnectTyped
<1> DEFINE d == <<t, w>>
<1>1. /\ DOMAIN y = ConnectFields /\ y.aborted = FALSE /\ y.usock = x.usock
      /\ y.tasks = Append(x.tasks, d) /\ y.events = x.events /\ ~Has(x, d)
      /\ Frame(x, y) /\ y.timer = [x.timer EXCEPT ![t] = s] /\ y.armed = x.armed
  BY <1>0 DEF Frame, ConnectFields, Turns
<1>2. d \in ConnectTask /\ d # U("CONNECTED") /\ d # U("CONNECTING") /\ d = <<t, w>>
  BY Names
<1> HIDE DEF d
<1>3. /\ y.tasks \in Seq(ConnectTask) /\ Distinct(y.tasks)
      /\ x.tasks # <<>> => Head(y.tasks) = Head(x.tasks)
  BY <1>0, <1>1, <1>2, TaskAdded
<1>4. Gains(x, y, d)
  BY <1>0, <1>1, <1>2, GainsIs
<1>5. DOMAIN y.timer = Timer /\ y.timer[t] = s /\ \A u \in Timer \ {t} : y.timer[u] = x.timer[u]
  BY <1>0, <1>1
<1>6. ConnectTyped(y)
  BY <1>1, <1>3, <1>5 DEF Fit, ConnectTyped, Frame
<1>7. x.tasks = <<>> => \A u : ~Has(x, u)
  BY NoTasks
<1>8. Wired(y) /\ Timed(y)
  BY <1>1, <1>2, <1>3, <1>4, <1>5, <1>7 DEF Fit, Wired, Timed, Frame, Gains
<1>9. QED
  BY <1>1, <1>2, <1>4, <1>5, <1>6, <1>8 DEF Retimed, Fit

\* A timer is started or stopped.
LEMMA TimedBy ==
  ASSUME NEW x, Fit(x), x.ep # "FREED", NEW t \in Timer
  PROVE  /\ Lost(TimerStart(x, t)) \/ Started(x, TimerStart(x, t), t)
         /\ Lost(TimerStop(x, t)) \/ Halted(x, TimerStop(x, t), t)
<1>0. ConnectTyped(x) /\ DOMAIN x = ConnectFields /\ x.aborted = FALSE
  BY DEF Fit, ConnectTyped
<1>1. Starts(x, TimerStart(x, t), t) /\ Halts(x, TimerStop(x, t), t)
  BY <1>0, TimerIs
<1>2. Lost(TimerStart(x, t)) \/ Started(x, TimerStart(x, t), t)
  BY <1>1, RetimedBy DEF Starts, Started, Lost, Fails2
<1>3. Lost(TimerStop(x, t)) \/ Halted(x, TimerStop(x, t), t)
  BY <1>1, RetimedBy DEF Halts, Halted, Lost, Fails2
<1>4. QED
  BY <1>2, <1>3
-----------------------------------------------------------------------------
(* Events are handled.                                                       *)

Kept(y) == Lost(y) \/ Sound(y)
Off(x) == [x EXCEPT !.events = Tail(x.events)]

\* The event at the head was taken.
Taken(x, z) ==
    /\ Fit(z) /\ Frame(x, z) /\ z.timer = x.timer /\ z.armed = x.armed /\ z.usock = x.usock
    /\ z.tasks = x.tasks /\ Head(x.events) \in ConnectEvent
    /\ \A e : x.events = <<e>> => z.events = <<>> /\ Head(x.events) = e
    /\ Range(z.events) = Range(x.events) \ {Head(x.events)}
    /\ Head(x.events) \in Range(x.events)
    /\ \A e : Ends(x.events, e) => \/ Head(x.events) = e /\ z.events = <<>>
                                   \/ Head(x.events) # e /\ Ends(z.events, e)
LEMMA TakenBy ==
  ASSUME NEW x, Sound(x), x.events # <<>>
  PROVE  Taken(x, Off(x)) /\ x.ep # "FREED"
<1>0. Fit(x) /\ DOMAIN x = ConnectFields /\ x.events \in Seq(ConnectEvent) /\ Distinct(x.events)
  BY DEF Sound, Fit, ConnectTyped
<1>1. Fit(Off(x)) /\ Head(x.events) \in ConnectEvent
  BY <1>0, FitRest DEF Off
<1>2. /\ Frame(x, Off(x)) /\ Off(x).timer = x.timer /\ Off(x).armed = x.armed
      /\ Off(x).usock = x.usock /\ Off(x).tasks = x.tasks /\ Off(x).events = Tail(x.events)
  BY <1>0 DEF Frame, Off, ConnectFields
<1>3. /\ Head(x.events) \in Range(x.events)
      /\ Range(Tail(x.events)) = Range(x.events) \ {Head(x.events)}
  BY <1>0, TakeHead
<1>4. \A e : Ends(x.events, e) => \/ Head(x.events) = e /\ Tail(x.events) = <<>>
                                  \/ Head(x.events) # e /\ Ends(Tail(x.events), e)
  BY <1>0, EndsTaken
<1>5. \A e : x.events = <<e>> => Tail(x.events) = <<>> /\ Head(x.events) = e
  BY OneOnly
<1>6. x.ep # "FREED"
  BY DEF Sound, Phase, Resolving, Connecting, Pausing, Disconnecting, Finishing, Over, Settled,
         InSession, Parting, Quitting
<1>7. QED
  BY <1>1, <1>2, <1>3, <1>4, <1>5, <1>6 DEF Taken

\* Fields of an event.
LEMMA EvIs ==
  ASSUME NEW a, NEW b, NEW c
  PROVE  /\ Ev(a, b, c).to = a /\ Ev(a, b, c).src = b /\ Ev(a, b, c).type = c
         /\ \A p, q, s : Ev(p, q, s) = Ev(a, b, c) => p = a /\ q = b /\ s = c
BY DEF Ev

\* A queue of one event.
LEMMA OneIs ==
  ASSUME NEW x, NEW a, NEW b, NEW c, One(x, a, b, c)
  PROVE  /\ x.events # <<>> /\ x.events = <<Ev(a, b, c)>> /\ Head(x.events) = Ev(a, b, c)
BY DEF One

\* Which phase an event tells: the header exchange.
LEMMA HeaderPhase ==
  ASSUME NEW x, Sound(x), x.events # <<>>, Head(x.events).to = "header"
  PROVE  \/ InSession(x) /\ Greeting(x)
         \/ Quitting(x) /\ x.header = "STOPPING" /\ TimerStops(x) /\ x.owner = "header"
            /\ x.session = "STOPPING" /\ x.saved["session"] = "ep"
            /\ x.usock \in {"ACTIVE", "DONE", "REMOVING_FD"}
<1>1. ~Resolving(x) /\ ~Connecting(x) /\ ~Pausing(x) /\ ~Disconnecting(x) /\ ~Finishing(x) /\ ~Over(x)
      /\ ~Parting(x)
  BY OneIs, EvIs DEF Resolving, Connecting, Pausing, Disconnecting, Finishing, Over, Parting,
         UsockStops, Settled
<1>2. Running(x) => FALSE
  <2>1. Head(x.events) \in Range(x.events)
    BY TakenBy DEF Taken
  <2>2. QED
    BY <2>1, EvIs DEF Running, RunEvent, Usock
<1>3. SessionOver(x) => FALSE
  <2>1. Head(x.events) \in Range(x.events)
    BY TakenBy DEF Taken
  <2>2. QED
    BY <2>1, EvIs DEF SessionOver, RunEvent, Usock
<1>4. ~Greeted(x)
  BY OneIs, EvIs DEF Greeted
<1>5. QED
  BY <1>1, <1>2, <1>3, <1>4, OneIs, EvIs DEF Sound, Phase, InSession, Quitting
\* The header exchange is told something while it sends or receives.
LEMMA TalksTold ==
  ASSUME NEW x, Sound(x), x.events # <<>>, Head(x.events).to = "header",
         x.header \in {"SENDING", "RECEIVING"}
  PROVE  /\ InSession(x) /\ Greeting(x) /\ x.timer["TIMER"] = "ACTIVE"
         /\ \E e : x.events = <<e>>
         /\ Off(x).events = <<>> /\ Taken(x, Off(x))
         /\ \/ x.usock = "ACTIVE" \/ x.usock = "DONE"
            \/ x.usock = "REMOVING_FD" /\ Ends(x.tasks, U("STOP"))
         /\ Head(x.events).type \in {"SENT", "RECEIVED"} =>
               x.usock = "ACTIVE" /\ \A v \in {"RECV", "SEND"} : NoOp(x, v)
<1>1. Taken(x, Off(x))
  BY TakenBy
<1>2. InSession(x) /\ Greeting(x)
  BY HeaderPhase
<1>3. PICK w, type : Talks(x, w, type)
  BY <1>2 DEF Greeting
<1>4. \E e : x.events = <<e>>
  BY <1>3 DEF Talks, One, Settled
<1>5. QED
  BY <1>1, <1>2, <1>3, <1>4, OneIs, EvIs DEF Talks, Settled, Taken

\* Nothing goes on at the usock when nothing about it changes.
LEMMA OpsKept ==
  ASSUME NEW x, NEW y, y.tasks = x.tasks, y.poll = x.poll, NEW v
  PROVE  /\ NoOp(y, v) <=> NoOp(x, v)
         /\ OneOp(y, v) <=> OneOp(x, v)
         /\ \A t : Has(y, t) <=> Has(x, t)
BY DEF NoOp, OneOp, Polls, Has

\* One operation starts when none goes on.
LEMMA OpStarts ==
  ASSUME NEW x, NEW y, y.poll = x.poll, NEW w \in {"RECV", "SEND"}, Gains(x, y, U(w)),
         \A v \in {"RECV", "SEND"} : NoOp(x, v)
  PROVE  OneOp(y, w) /\ \A v \in {"RECV", "SEND"} \ {w} : NoOp(y, v)
BY Names DEF NoOp, OneOp, Polls, Gains

\* The usock is used in a header exchange in which nothing goes on.
LEMMA UsedTalks ==
  ASSUME NEW z, NEW y, NEW w \in {"SEND", "RECV"}, NEW type \in {"SENT", "RECEIVED"},
         z.events = <<>>, z.owner = "header", z.usock = "ACTIVE", z.timer["TIMER"] = "ACTIVE",
         \A v \in {"RECV", "SEND"} : NoOp(z, v), Used(z, y, w, type)
  PROVE  Talks(y, w, type)
<1>1. y.timer["TIMER"] = "ACTIVE" /\ y.poll = z.poll
  BY DEF Used, Frame
<1>2. CASE y.usock = "ACTIVE" /\ y.tasks = z.tasks /\ Hears(z, y, Ev("header", "USOCK", type))
  <2>1. \A v \in {"RECV", "SEND"} : NoOp(y, v)
    BY <1>1, <1>2, OpsKept
  <2>2. QED
    BY <1>1, <1>2, <2>1 DEF Talks, One, Hears
<1>3. CASE y.usock = "ACTIVE" /\ y.events = z.events /\ Gains(z, y, U(w))
  <2>1. OneOp(y, w) /\ \A v \in {"RECV", "SEND"} \ {w} : NoOp(y, v)
    BY <1>1, <1>3, OpStarts
  <2>2. QED
    BY <1>1, <1>3, <2>1 DEF Talks, Settled
<1>4. CASE /\ y.usock = "REMOVING_FD" /\ Gains(z, y, U("STOP"))
           /\ Hears(z, y, Ev("header", "USOCK", "SHUTDOWN"))
  BY <1>1, <1>4 DEF Talks, One, Gains, Hears
<1>5. QED
  BY <1>2, <1>3, <1>4 DEF Used

\* nn_streamhdr_handler: the header was sent, that of the peer is read.
LEMMA HeaderSentKept ==
  ASSUME NEW x, Sound(x), x.events # <<>>, Head(x.events) = Ev("header", "USOCK", "SENT"),
         x.header = "SENDING", NEW r \in Result
  PROVE  Kept(UsockRecv([Off(x) EXCEPT !.header = "RECEIVING"], r))
<1> DEFINE z == [Off(x) EXCEPT !.header = "RECEIVING"]
           y == UsockRecv(z, r)
<1>1. /\ InSession(x) /\ Greeting(x) /\ x.timer["TIMER"] = "ACTIVE" /\ x.usock = "ACTIVE"
      /\ \A v \in {"RECV", "SEND"} : NoOp(x, v)
      /\ Off(x).events = <<>> /\ Taken(x, Off(x)) /\ x.ep = "ACTIVE"
  BY TalksTold, EvIs DEF InSession
<1>2. /\ Core(Off(x), z) /\ z.events = <<>> /\ z.usock = "ACTIVE" /\ z.header = "RECEIVING"
      /\ z.tasks = x.tasks /\ z.poll = x.poll /\ z.timer = x.timer /\ z.owner = x.owner
      /\ z.ep = x.ep /\ z.dns = x.dns /\ z.peerGone = x.peerGone /\ z.saved = x.saved
      /\ z.session = x.session /\ z.pipe = x.pipe
  BY <1>1 DEF Taken, Fit, ConnectTyped, Frame, Core, ConnectFields
<1> HIDE DEF z, y
<1>3. Fit(z)
  BY <1>1, <1>2, FitKept DEF Taken
<1>4. Lost(y) \/ Used(z, y, "RECV", "RECEIVED")
  BY <1>1, <1>2, <1>3, UsedBy DEF y
<1>5. CASE Used(z, y, "RECV", "RECEIVED")
  <2>1. \A v \in {"RECV", "SEND"} : NoOp(z, v)
    BY <1>1, <1>2, OpsKept
  <2>2. Talks(y, "RECV", "RECEIVED")
    BY <1>1, <1>2, <1>5, <2>1, UsedTalks DEF Greeting
  <2>3. Greeting(y)
    BY <1>1, <1>2, <1>5, <2>2 DEF Greeting, Used, Frame
  <2>4. InSession(y)
    BY <1>1, <1>2, <1>5, <2>3 DEF InSession, Used, Frame, Still
  <2>5. QED
    BY <1>5, <2>4 DEF Kept, Sound, Phase, Used, y, z
<1>6. QED
  BY <1>4, <1>5 DEF Kept, y, z
\* ws_handshake: the response is read on.
LEMMA WsReadsOnKept ==
  ASSUME NEW x, Sound(x), x.events # <<>>, Head(x.events) = Ev("header", "USOCK", "RECEIVED"),
         x.header = "RECEIVING", NEW r \in Result, NEW n
  PROVE  Kept(UsockRecv([Off(x) EXCEPT !.reads = n], r))
<1> DEFINE z == [Off(x) EXCEPT !.reads = n]
           y == UsockRecv(z, r)
<1>1. /\ InSession(x) /\ Greeting(x) /\ x.timer["TIMER"] = "ACTIVE" /\ x.usock = "ACTIVE"
      /\ \A v \in {"RECV", "SEND"} : NoOp(x, v)
      /\ Off(x).events = <<>> /\ Taken(x, Off(x)) /\ x.ep = "ACTIVE"
  BY TalksTold, EvIs DEF InSession
<1>2. /\ Core(Off(x), z) /\ z.events = <<>> /\ z.usock = "ACTIVE" /\ z.header = "RECEIVING"
      /\ z.tasks = x.tasks /\ z.poll = x.poll /\ z.timer = x.timer /\ z.owner = x.owner
      /\ z.ep = x.ep /\ z.dns = x.dns /\ z.peerGone = x.peerGone /\ z.saved = x.saved
      /\ z.session = x.session /\ z.pipe = x.pipe
  BY <1>1 DEF Taken, Fit, ConnectTyped, Frame, Core, ConnectFields
<1> HIDE DEF z, y
<1>3. Fit(z)
  BY <1>1, <1>2, FitKept DEF Taken
<1>4. Lost(y) \/ Used(z, y, "RECV", "RECEIVED")
  BY <1>1, <1>2, <1>3, UsedBy DEF y
<1>5. CASE Used(z, y, "RECV", "RECEIVED")
  <2>1. \A v \in {"RECV", "SEND"} : NoOp(z, v)
    BY <1>1, <1>2, OpsKept
  <2>2. Talks(y, "RECV", "RECEIVED")
    BY <1>1, <1>2, <1>5, <2>1, UsedTalks DEF Greeting
  <2>3. Greeting(y)
    BY <1>1, <1>2, <1>5, <2>2 DEF Greeting, Used, Frame
  <2>4. InSession(y)
    BY <1>1, <1>2, <1>5, <2>3 DEF InSession, Used, Frame, Still
  <2>5. QED
    BY <1>5, <2>4 DEF Kept, Sound, Phase, Used, y, z
<1>6. QED
  BY <1>4, <1>5 DEF Kept, y, z

\* The header exchange ends, and its timer is stopped.
EndsHeader(x, h) == TimerStop([Off(x) EXCEPT !.header = h], "TIMER")
EndsReads(x, h, n) == TimerStop([Off(x) EXCEPT !.header = h, !.reads = n], "TIMER")

\* The header exchange has failed or succeeded, and its timer is stopped.
LEMMA HeaderEndsKept ==
  ASSUME NEW x, Sound(x), x.events # <<>>, Head(x.events).to = "header",
         x.header \in {"SENDING", "RECEIVING"}, NEW h, NEW n,
         \/ h = "STOPPING_TIMER_ERROR"
         \/ h = "STOPPING_TIMER_DONE" /\ Head(x.events).type = "RECEIVED"
  PROVE  Kept(EndsReads(x, h, n)) /\ Kept(EndsHeader(x, h))
<1>1. /\ InSession(x) /\ Greeting(x) /\ x.timer["TIMER"] = "ACTIVE"
      /\ x.usock \in {"ACTIVE", "DONE", "REMOVING_FD"}
      /\ Head(x.events).type = "RECEIVED" =>
            x.usock = "ACTIVE" /\ \A v \in {"RECV", "SEND"} : NoOp(x, v)
      /\ Off(x).events = <<>> /\ Taken(x, Off(x)) /\ x.ep = "ACTIVE"
  BY TalksTold DEF InSession
<1>2. ASSUME NEW z,
             /\ Core(Off(x), z) /\ z.events = <<>> /\ z.usock = x.usock /\ z.header = h
             /\ z.tasks = x.tasks /\ z.poll = x.poll /\ z.timer = x.timer /\ z.owner = x.owner
             /\ z.ep = x.ep /\ z.dns = x.dns /\ z.peerGone = x.peerGone /\ z.saved = x.saved
             /\ z.session = x.session /\ z.pipe = x.pipe
      PROVE  Kept(TimerStop(z, "TIMER"))
  <2> DEFINE y == TimerStop(z, "TIMER")
  <2>1. Fit(z)
    BY <1>1, <1>2, FitKept DEF Taken
  <2> HIDE DEF y
  <2>2. Lost(y) \/ Halted(z, y, "TIMER")
    BY <1>1, <1>2, <2>1, TimedBy DEF y, Timer
  <2>3. CASE Retimed(z, y, "TIMER", "STOPPING", "STOP")
    <3>1. TimerStops(y)
      BY <1>2, <2>3 DEF TimerStops, Retimed, Gains, T, Settled
    <3>2. h = "STOPPING_TIMER_DONE" => \A v \in {"RECV", "SEND"} : NoOp(y, v)
      <4>1. \A u : Has(y, u) <=> Has(z, u) \/ u = <<"TIMER", "STOP">>
        BY <2>3 DEF Retimed, Gains
      <4>2. \A v \in {"RECV", "SEND", "CONNECTED", "CONNECTING"} : Has(y, U(v)) <=> Has(x, U(v))
        <5>1. \A v : U(v) # <<"TIMER", "STOP">>
          BY DEF U
        <5>2. \A u : Has(z, u) <=> Has(x, u)
          BY <1>2 DEF Has
        <5>3. QED
          BY <4>1, <5>1, <5>2
      <4>3. y.poll = x.poll
        BY <1>2, <2>3 DEF Retimed, Frame
      <4>4. QED
        BY <1>1, <4>2, <4>3 DEF NoOp, Polls
    <3>3. Greeting(y)
      BY <1>1, <1>2, <2>3, <3>1, <3>2 DEF Greeting, Retimed, Frame, Up
    <3>4. y.timer["RECONNECT_TIMER"] = x.timer["RECONNECT_TIMER"]
      BY <1>2, <2>3 DEF Retimed, Timer
    <3>5. InSession(y)
      BY <1>1, <1>2, <2>3, <3>3, <3>4 DEF InSession, Retimed, Frame, Still
    <3>6. QED
      BY <2>3, <3>5 DEF Kept, Sound, Phase, Retimed, y
  <2>4. QED
    BY <1>1, <1>2, <2>2, <2>3 DEF Halted, Kept, y
<1> DEFINE z == [Off(x) EXCEPT !.header = h, !.reads = n]
           v == [Off(x) EXCEPT !.header = h]
<1>3. /\ Core(Off(x), z) /\ z.events = <<>> /\ z.usock = x.usock /\ z.header = h
      /\ z.tasks = x.tasks /\ z.poll = x.poll /\ z.timer = x.timer /\ z.owner = x.owner
      /\ z.ep = x.ep /\ z.dns = x.dns /\ z.peerGone = x.peerGone /\ z.saved = x.saved
      /\ z.session = x.session /\ z.pipe = x.pipe
  BY <1>1 DEF Taken, Fit, ConnectTyped, Frame, Core, ConnectFields
<1>4. /\ Core(Off(x), v) /\ v.events = <<>> /\ v.usock = x.usock /\ v.header = h
      /\ v.tasks = x.tasks /\ v.poll = x.poll /\ v.timer = x.timer /\ v.owner = x.owner
      /\ v.ep = x.ep /\ v.dns = x.dns /\ v.peerGone = x.peerGone /\ v.saved = x.saved
      /\ v.session = x.session /\ v.pipe = x.pipe
  BY <1>1 DEF Taken, Fit, ConnectTyped, Frame, Core, ConnectFields
<1> HIDE DEF z, v
<1>5. Kept(TimerStop(z, "TIMER")) /\ Kept(TimerStop(v, "TIMER"))
  BY <1>2, <1>3, <1>4
<1>6. QED
  BY <1>5 DEF EndsHeader, EndsReads, z, v

\* What the header exchange ignores.
LEMMA HeaderIgnoredKept ==
  ASSUME NEW x, Sound(x), x.events # <<>>,
         \/ x.header \in {"SENDING", "RECEIVING"} /\ Head(x.events) = Ev("header", "USOCK", "SHUTDOWN")
         \/ /\ x.header \in {"STOPPING_TIMER_ERROR", "STOPPING_TIMER_DONE"}
            /\ Head(x.events).to = "header" /\ Head(x.events).src = "USOCK"
  PROVE  Kept(Off(x))
<1> DEFINE y == Off(x)
<1>1. Taken(x, y) /\ x.ep # "FREED"
  BY TakenBy
<1>2. InSession(x) /\ Greeting(x)
  BY HeaderPhase, EvIs
<1> HIDE DEF y
<1>3. Greeting(y)
  <2>1. \A v : NoOp(y, v) <=> NoOp(x, v)
    BY <1>1, OpsKept DEF Taken, Frame
  <2>2. CASE x.header \in {"SENDING", "RECEIVING"} /\ Head(x.events) = Ev("header", "USOCK", "SHUTDOWN")
    <3>1. /\ x.usock = "REMOVING_FD" /\ Ends(x.tasks, U("STOP")) /\ x.timer["TIMER"] = "ACTIVE"
          /\ x.events = <<Ev("header", "USOCK", "SHUTDOWN")>>
      BY <1>2, <2>2, OneIs, EvIs DEF Greeting, Talks, Settled
    <3>2. \A w, type : Talks(y, w, type)
      BY <1>1, <3>1 DEF Talks, Taken, Settled
    <3>3. QED
      BY <1>1, <1>2, <2>2, <3>2 DEF Greeting, Taken, Frame
  <2>3. CASE /\ x.header \in {"STOPPING_TIMER_ERROR", "STOPPING_TIMER_DONE"}
             /\ Head(x.events).to = "header" /\ Head(x.events).src = "USOCK"
    <3>1. /\ x.timer["TIMER"] = "STOPPING" /\ Ends(x.tasks, T("STOP"))
          /\ \E e : x.events = <<e>>
      BY <1>2, <2>3, OneIs, EvIs DEF Greeting, TimerStops, Settled
    <3>2. TimerStops(y)
      BY <1>1, <3>1 DEF TimerStops, Taken, Settled
    <3>3. QED
      BY <1>1, <1>2, <2>1, <2>3, <3>2 DEF Greeting, Taken, Frame, Up
  <2>4. QED
    BY <2>2, <2>3
<1>4. InSession(y)
  BY <1>1, <1>2, <1>3 DEF InSession, Taken, Frame, Still
<1>5. QED
  BY <1>1, <1>4 DEF Kept, Sound, Phase, Taken, y
\* The timer of the header exchange has stopped: the session takes the usock back,
\* and is told how it ended.
LEMMA HeaderTimerStoppedKept ==
  ASSUME NEW x, Sound(x), x.events # <<>>, Head(x.events) = Ev("header", "TIMER", "STOPPED"),
         NEW type,
         \/ x.header = "STOPPING_TIMER_ERROR" /\ type = "ERROR"
         \/ x.header = "STOPPING_TIMER_DONE" /\ type = "OK"
  PROVE  Kept(Raise(GiveBack([Off(x) EXCEPT !.header = "DONE"], "header"),
                    Ev("session", "HEADER", type)))
<1> DEFINE z == GiveBack([Off(x) EXCEPT !.header = "DONE"], "header")
           e == Ev("session", "HEADER", type)
           y == Raise(z, e)
<1>1. Taken(x, Off(x)) /\ x.ep # "FREED"
  BY TakenBy
<1>2. InSession(x) /\ Greeting(x)
  BY HeaderPhase, EvIs
<1>3. /\ x.timer["TIMER"] = "IDLE" /\ x.tasks = <<>> /\ Off(x).events = <<>>
  BY <1>1, <1>2, OneIs, EvIs DEF Greeting, TimerStops, Settled, Taken
<1>4. /\ Core(Off(x), z) /\ z.events = <<>> /\ z.usock = x.usock /\ z.header = "DONE"
      /\ z.tasks = x.tasks /\ z.poll = x.poll /\ z.timer = x.timer /\ z.owner = "session"
      /\ z.ep = x.ep /\ z.dns = x.dns /\ z.peerGone = x.peerGone
      /\ z.saved["session"] = x.saved["session"]
      /\ z.session = x.session /\ z.pipe = x.pipe /\ z.odd = x.odd
  BY <1>1, <1>2, <1>3 DEF Taken, Fit, ConnectTyped, Frame, Core, ConnectFields, GiveBack, Greeting
<1>5. e \in ConnectEvent /\ e = Ev("session", "HEADER", type)
  BY DEF ConnectEvent, Ev
<1>6. ~Has(x, U("STOP"))
  BY <1>3, NoTasks
<1>7. x.usock # "REMOVING_FD"
  BY <1>6 DEF Sound, Fit, Wired
<1> HIDE DEF z, e, y
<1>8. Fit(z)
  BY <1>1, <1>4, FitKept DEF Taken
<1>9. Lost(y) \/ Raised(z, y, e)
  BY <1>1, <1>4, <1>5, <1>8, RaisedBy DEF y
<1>10. CASE Raised(z, y, e)
  <2>1. Greeted(y)
    BY <1>2, <1>3, <1>4, <1>5, <1>7, <1>10 DEF Greeted, Raised, Frame, Hears, Greeting, One, Up
  <2>2. InSession(y)
    BY <1>1, <1>2, <1>4, <1>10, <2>1 DEF InSession, Raised, Frame, Still
  <2>3. QED
    BY <1>10, <2>2 DEF Kept, Sound, Phase, Raised, y, z, e
<1>11. QED
  BY <1>9, <1>10 DEF Kept, y, z, e

\* The header exchange is being stopped.
LEMMA HeaderStoppingKept ==
  ASSUME NEW x, Sound(x), x.events # <<>>, Head(x.events).to = "header", x.header = "STOPPING"
  PROVE  Kept(HeaderFinish(Off(x)))
<1> DEFINE z == Off(x)
           e == Ev("session", "HEADER", "STOPPED")
           v == [z EXCEPT !.header = "IDLE"]
<1>1. Taken(x, z) /\ x.ep # "FREED"
  BY TakenBy
<1>2. /\ Quitting(x) /\ TimerStops(x) /\ x.owner = "header"
      /\ x.session = "STOPPING" /\ x.saved["session"] = "ep"
      /\ x.usock \in {"ACTIVE", "DONE", "REMOVING_FD"}
  BY HeaderPhase, EvIs DEF Greeting
<1> HIDE DEF z
<1>3. CASE x.timer["TIMER"] = "STOPPING" /\ Ends(x.tasks, T("STOP")) /\ \E d : x.events = <<d>>
  <2>1. HeaderFinish(z) = z
    BY <1>1, <1>3 DEF HeaderFinish, TimerIdle, FsmIdle, Taken
  <2>2. TimerStops(z)
    BY <1>1, <1>3 DEF TimerStops, Taken, Settled
  <2>3. Quitting(z)
    BY <1>1, <1>2, <2>2 DEF Quitting, Taken, Frame, Still
  <2>4. QED
    BY <1>1, <2>1, <2>3 DEF Kept, Sound, Phase, Taken, z
<1>4. CASE x.timer["TIMER"] = "IDLE" /\ x.tasks = <<>> /\ One(x, "header", "TIMER", "STOPPED")
  <2>1. z.events = <<>> /\ z.timer["TIMER"] = "IDLE"
    BY <1>1, <1>4 DEF Taken, One
  <2>2. HeaderFinish(z) = Raise(v, e)
    BY <2>1 DEF HeaderFinish, TimerIdle, FsmIdle
  <2>3. /\ Core(z, v) /\ v.events = <<>> /\ v.usock = x.usock /\ v.header = "IDLE"
        /\ v.tasks = x.tasks /\ v.poll = x.poll /\ v.timer = x.timer /\ v.owner = x.owner
        /\ v.ep = x.ep /\ v.dns = x.dns /\ v.peerGone = x.peerGone /\ v.saved = x.saved
        /\ v.session = x.session /\ v.pipe = x.pipe /\ v.odd = x.odd
    BY <1>1, <2>1 DEF Taken, Fit, ConnectTyped, Frame, Core, ConnectFields
  <2>4. e \in ConnectEvent /\ e = Ev("session", "HEADER", "STOPPED")
    BY DEF ConnectEvent, Ev
  <2> HIDE DEF e, v
  <2>5. Fit(v)
    BY <1>1, <2>3, FitKept DEF Taken
  <2>6. Lost(Raise(v, e)) \/ Raised(v, Raise(v, e), e)
    BY <1>1, <2>3, <2>4, <2>5, RaisedBy
  <2>7. CASE Raised(v, Raise(v, e), e)
    <3>1. Quitting(Raise(v, e))
      BY <1>2, <1>4, <2>3, <2>4, <2>7 DEF Quitting, Raised, Frame, Hears, One, Still
    <3>2. QED
      BY <2>2, <2>7, <3>1 DEF Kept, Sound, Phase, Raised, z
  <2>8. QED
    BY <2>2, <2>6, <2>7 DEF Kept, z
<1>5. QED
  BY <1>2, <1>3, <1>4, OneIs DEF TimerStops, Settled, One
-----------------------------------------------------------------------------
(* The session runs.                                                        *)

InActive(x) ==
    x.ep = "ACTIVE" /\ ~x.peerGone /\ Still(x) /\ x.saved["session"] = "ep" /\ x.dns = "IDLE"
RunsOn(x) == Fit(x) /\ InActive(x) /\ Running(x)

\* A running session is sound, also when something changes that no phase is about.
LEMMA RunsOnKept ==
  ASSUME NEW x, RunsOn(x)
  PROVE  /\ Kept(x) /\ x.ep = "ACTIVE" /\ Fit(x) /\ x.owner = "session"
         /\ \A z : Core(x, z) /\ Frame(x, z) => RunsOn(z)
<1>1. Kept(x) /\ x.ep = "ACTIVE" /\ Fit(x) /\ x.owner = "session"
  BY DEF RunsOn, InActive, Running, Kept, Sound, Phase, InSession
<1>2. ASSUME NEW z, Core(x, z), Frame(x, z)
      PROVE  RunsOn(z)
  <2>1. Fit(z)
    BY <1>1, <1>2, FitKept
  <2>2. InActive(z)
    BY <1>2 DEF RunsOn, InActive, Core, Frame, Still
  <2>3. Running(z)
    BY <1>2 DEF RunsOn, Running, Core, Frame, Breaks, Open, Gets
  <2>4. QED
    BY <2>1, <2>2, <2>3 DEF RunsOn
<1>3. QED
  BY <1>1, <1>2

\* The session uses its usock.
LEMMA UsedRuns ==
  ASSUME NEW z, RunsOn(z), NEW w \in {"SEND", "RECV"}, NEW type \in {"SENT", "RECEIVED"},
         NEW y, Used(z, y, w, type)
  PROVE  RunsOn(y)
<1>1. Fit(y) /\ Frame(z, y) /\ y.timer = z.timer
  BY DEF Used
<1>2. InActive(y)
  BY <1>1 DEF RunsOn, InActive, Frame, Still
<1>3. z.owner = "session"
  BY RunsOnKept
<1>4. CASE z.usock \in {"REMOVING_FD", "DONE", "STOPPING"} /\ y.usock = z.usock
           /\ y.tasks = z.tasks /\ y.events = z.events
  <2>1. Running(y)
    BY <1>1, <1>4 DEF RunsOn, Running, Frame, Breaks, Open, Gets
  <2>2. QED
    BY <1>1, <1>2, <2>1 DEF RunsOn
<1>5. CASE z.usock = "ACTIVE" /\ y.usock = "ACTIVE" /\ Hears(z, y, Usock(type))
  <2>1. Usock(type) \in RunEvent /\ Usock(type) # Usock("SHUTDOWN") /\ Usock(type) # Usock("ERROR")
    BY EvIs DEF Usock, RunEvent
  <2>2. Running(y)
    BY <1>1, <1>5, <2>1 DEF RunsOn, Running, Frame, Breaks, Open, Gets, Hears
  <2>3. QED
    BY <1>1, <1>2, <2>2 DEF RunsOn
<1>6. CASE z.usock = "ACTIVE" /\ y.usock = "ACTIVE" /\ y.events = z.events
  <2>1. Running(y)
    BY <1>1, <1>6 DEF RunsOn, Running, Frame, Breaks, Open, Gets
  <2>2. QED
    BY <1>1, <1>2, <2>1 DEF RunsOn
<1>7. CASE z.usock = "ACTIVE" /\ y.usock = "REMOVING_FD" /\ Gains(z, y, U("STOP"))
           /\ Hears(z, y, Usock("SHUTDOWN"))
  <2>1. Usock("SHUTDOWN") \in RunEvent /\ Usock("SHUTDOWN") # Usock("ERROR")
    BY EvIs DEF Usock, RunEvent
  <2>2. Running(y)
    BY <1>1, <1>7, <2>1 DEF RunsOn, Running, Frame, Breaks, Open, Gets, Hears, Gains
  <2>3. QED
    BY <1>1, <1>2, <2>2 DEF RunsOn
<1>8. QED
  BY <1>3, <1>4, <1>5, <1>6, <1>7 DEF Used, Usock

\* Sending and receiving in a running session.
LEMMA UsesKept ==
  ASSUME NEW z, RunsOn(z), NEW r \in Result
  PROVE  Kept(UsockSend(z, r)) /\ Kept(UsockRecv(z, r))
<1>1. Fit(z) /\ z.ep # "FREED"
  BY RunsOnKept
<1>2. /\ Lost(UsockSend(z, r)) \/ Used(z, UsockSend(z, r), "SEND", "SENT")
      /\ Lost(UsockRecv(z, r)) \/ Used(z, UsockRecv(z, r), "RECV", "RECEIVED")
  BY <1>1, UsedBy
<1>3. ASSUME NEW y, NEW w \in {"SEND", "RECV"}, NEW type \in {"SENT", "RECEIVED"},
             Used(z, y, w, type)
      PROVE  Kept(y)
  <2>1. RunsOn(y)
    BY <1>3, UsedRuns
  <2>2. QED
    BY <2>1, RunsOnKept
<1>4. QED
  BY <1>2, <1>3 DEF Kept

\* An assertion fails.
LEMMA AbortKept ==
  ASSUME NEW x, Fit(x) \/ Lost(x), x.ep # "FREED"
  PROVE  Lost(Abort(x)) /\ \A o : Lost(Abort(Odd(x, o)))
<1>1. DOMAIN x = ConnectFields
  BY DEF Fit, ConnectTyped, Lost
<1>2. QED
  BY <1>1 DEF Abort, Odd, Lost, ConnectFields

\* The next header is read.
LEMMA NextHeaderKept ==
  ASSUME NEW z, RunsOn(z) \/ Lost(z), NEW r \in Result
  PROVE  Kept(NextHeader(z, r))
<1> DEFINE v == [z EXCEPT !.in = "HDR"]
<1>1. Fit(z) \/ Lost(z)
  BY RunsOnKept
<1>2. z.ep # "FREED"
  BY RunsOnKept DEF Lost
<1>3. Lost(Abort(Odd(z, "left")))
  BY <1>1, <1>2, AbortKept
<1>4. CASE RunsOn(z)
  <2>1. Core(z, v) /\ Frame(z, v)
    BY <1>4 DEF RunsOn, Fit, ConnectTyped, Core, Frame, ConnectFields
  <2> HIDE DEF v
  <2>2. Kept(UsockRecv(v, r))
    BY <1>4, <2>1, RunsOnKept, UsesKept
  <2>3. QED
    BY <1>3, <2>2 DEF NextHeader, v, Kept
<1>5. CASE Lost(z)
  <2>1. Lost(v)
    BY <1>5 DEF Lost, ConnectFields
  <2> HIDE DEF v
  <2>2. Lost(UsockRecv(v, r))
    BY <2>1, CallsStayLost
  <2>3. QED
    BY <1>3, <2>2 DEF NextHeader, v, Kept
<1>6. QED
  BY <1>4, <1>5

\* The protocol uses its pipe: the session must run.
LEMMA PipeUsedKept ==
  ASSUME NEW z, Fit(z), z.ep # "FREED", z.session = "ACTIVE" => RunsOn(z), NEW r \in Result
  PROVE  Kept(PipeSend(z, r)) /\ Kept(PipeRecv(z, r))
<1>1. Kept(Abort(z))
  BY AbortKept DEF Kept
<1>2. ASSUME z.session = "ACTIVE"
      PROVE  Kept(UsockSend([z EXCEPT !.pipeOut = "ASYNC", !.out = "SENDING"], r))
  <2> DEFINE v == [z EXCEPT !.pipeOut = "ASYNC", !.out = "SENDING"]
  <2>1. Core(z, v) /\ Frame(z, v)
    BY <1>2 DEF Fit, ConnectTyped, Core, Frame, ConnectFields
  <2> HIDE DEF v
  <2>2. Kept(UsockSend(v, r))
    BY <1>2, <2>1, RunsOnKept, UsesKept
  <2>3. QED
    BY <2>2 DEF v
<1>3. ASSUME z.session = "ACTIVE"
      PROVE  Kept(NextHeader([z EXCEPT !.pipeIn = "ASYNC",
                                       !.chunks = z.chunks /\ z.in = "HASCONTROL"], r))
  <2> DEFINE b == z.chunks /\ z.in = "HASCONTROL"
  <2> HIDE DEF b
  <2> DEFINE v == [z EXCEPT !.pipeIn = "ASYNC", !.chunks = b]
  <2>1. Core(z, v) /\ Frame(z, v)
    BY <1>3 DEF Fit, ConnectTyped, Core, Frame, ConnectFields
  <2> HIDE DEF v
  <2>2. Kept(NextHeader(v, r))
    BY <1>3, <2>1, RunsOnKept, NextHeaderKept
  <2>3. QED
    BY <2>2 DEF v, b
<1>4. QED
  BY <1>1, <1>2, <1>3 DEF PipeSend, PipeRecv
\* The protocol is told about its pipe.
LEMMA PipeToldKept ==
  ASSUME NEW z, RunsOn(z), z.usock # "DONE"
  PROVE  Kept(PipeReceived(z)) /\ Kept(PipeSent(z))
<1>0. Fit(z) /\ z.ep # "FREED"
  BY RunsOnKept
<1>1. Kept(Abort(z))
  BY <1>0, AbortKept DEF Kept
<1>2. ASSUME NEW v, Core(z, v), Frame(z, v), NEW w \in {"IN", "OUT"}
      PROVE  Kept(Raise(v, Ev("sock", "PIPE", w)))
  <2> DEFINE e == Ev("sock", "PIPE", w)
             y == Raise(v, e)
  <2>1. RunsOn(v) /\ Fit(v) /\ v.ep # "FREED" /\ v.usock # "DONE"
    BY <1>2, RunsOnKept DEF Core
  <2>2. e \in ConnectEvent /\ e \in RunEvent /\ e # Usock("SHUTDOWN") /\ e # Usock("ERROR")
    BY DEF Ev, ConnectEvent, RunEvent, Usock
  <2> HIDE DEF e, y
  <2>3. Lost(y) \/ Raised(v, y, e)
    BY <2>1, <2>2, RaisedBy DEF y
  <2>4. CASE Raised(v, y, e)
    <3>1. Fit(y) /\ InActive(y)
      BY <2>1, <2>4 DEF RunsOn, InActive, Raised, Frame, Still
    <3>2. Running(y)
      BY <2>1, <2>2, <2>4 DEF RunsOn, Running, Raised, Frame, Breaks, Open, Gets, Hears
    <3>3. QED
      BY <3>1, <3>2, RunsOnKept DEF RunsOn, y, e
  <2>5. QED
    BY <2>3, <2>4 DEF Kept, y, e
<1>3. \A s : Core(z, [z EXCEPT !.pipeIn = s]) /\ Frame(z, [z EXCEPT !.pipeIn = s])
  BY <1>0 DEF Fit, ConnectTyped, Core, Frame, ConnectFields
<1>4. \A s : Core(z, [z EXCEPT !.pipeOut = s]) /\ Frame(z, [z EXCEPT !.pipeOut = s])
  BY <1>0 DEF Fit, ConnectTyped, Core, Frame, ConnectFields
<1>5. /\ Kept(Raise([z EXCEPT !.pipeIn = "IDLE"], Ev("sock", "PIPE", "IN")))
      /\ Kept(Raise([z EXCEPT !.pipeOut = "IDLE"], Ev("sock", "PIPE", "OUT")))
  BY <1>2, <1>3, <1>4
<1>6. QED
  BY <1>1, <1>5 DEF PipeReceived, PipeSent

\* A session that is about to end.
LastEvent(z, result) ==
    /\ Fit(z) /\ InActive(z) /\ z.owner = "session" /\ z.header \in {"IDLE", "DONE"}
    /\ z.timer["TIMER"] = "IDLE" /\ Range(z.events) \subseteq RunEvent
    /\ Open(z, result = "ERROR" \/ z.tasks = <<>>)

\* The session tells the endpoint how it ended.
LEMMA SessionDoneKept ==
  ASSUME NEW z, NEW result \in {"ERROR", "CLOSE_HANDSHAKE"}, LastEvent(z, result)
  PROVE  Kept(SessionDone(z, result))
<1> DEFINE v == [z EXCEPT !.session = "DONE"]
           e == Ev("ep", "SESSION", result)
           y == Raise(v, e)
<1>0. e \in ConnectEvent /\ e = Ev("ep", "SESSION", result)
  BY DEF Ev, ConnectEvent
<1>1. /\ Core(z, v) /\ v.session = "DONE"
      /\ v.ep = z.ep /\ v.peerGone = z.peerGone /\ v.saved = z.saved /\ v.dns = z.dns
      /\ v.owner = z.owner /\ v.header = z.header /\ v.odd = z.odd
  BY DEF LastEvent, Fit, ConnectTyped, Core, ConnectFields
<1> HIDE DEF v, e, y
<1>2. Fit(v)
  BY <1>1, FitKept DEF LastEvent
<1>3. Lost(y) \/ Raised(v, y, e)
  BY <1>0, <1>1, <1>2, RaisedBy DEF y, LastEvent, InActive
<1>4. CASE Raised(v, y, e)
  <2>1. /\ Range(y.events) \subseteq RunEvent \cup {e} /\ Ends(y.events, e)
        /\ Open(y, result = "ERROR" \/ y.tasks = <<>>)
    BY <1>1, <1>4 DEF Raised, Hears, LastEvent, Core, Open
  <2>2. SessionOver(y)
    BY <1>0, <1>1, <1>4, <2>1 DEF SessionOver, Raised, Frame, LastEvent, Core
  <2>3. InSession(y)
    BY <1>1, <1>4, <2>2 DEF InSession, LastEvent, InActive, Core, Raised, Frame, Still
  <2>4. QED
    BY <1>4, <2>3 DEF Kept, Sound, Phase, Raised, y, v, e, SessionDone
<1>5. QED
  BY <1>3, <1>4 DEF Kept, y, v, e, SessionDone

\* Which phase an event tells: the session.
LEMMA SessionPhase ==
  ASSUME NEW x, Sound(x), x.events # <<>>, Head(x.events).to = "session"
  PROVE  \/ InSession(x) /\ (Greeted(x) \/ Running(x) \/ (SessionOver(x) /\ x.session = "DONE"))
         \/ /\ Parting(x) /\ x.session = "STOPPING" /\ x.header = "IDLE" /\ x.timer["TIMER"] = "IDLE"
            /\ x.owner = "session" /\ x.saved["session"] = "ep"
            /\ One(x, "session", "HEADER", "STOPPED")
         \/ /\ Quitting(x) /\ x.session = "STOPPING" /\ x.saved["session"] = "ep"
            /\ x.usock \in {"ACTIVE", "DONE", "REMOVING_FD"} /\ x.header = "IDLE"
            /\ One(x, "session", "HEADER", "STOPPED") /\ x.tasks = <<>> /\ x.timer["TIMER"] = "IDLE"
<1>1. ~Resolving(x) /\ ~Connecting(x) /\ ~Pausing(x) /\ ~Disconnecting(x) /\ ~Finishing(x) /\ ~Over(x)
  BY OneIs, EvIs DEF Resolving, Connecting, Pausing, Disconnecting, Finishing, Over,
         UsockStops, Settled
<1>2. ~Greeting(x)
  BY OneIs, EvIs DEF Greeting, Talks, TimerStops, Settled
<1>3. SessionOver(x) => x.session = "DONE"
  BY DEF SessionOver
<1>4. CASE Parting(x)
  BY <1>4, OneIs, EvIs DEF Parting
<1>5. CASE Quitting(x)
  BY <1>5, OneIs, EvIs DEF Quitting, TimerStops, Settled
<1>6. CASE InSession(x)
  BY <1>2, <1>3, <1>6 DEF InSession
<1>7. QED
  BY <1>1, <1>4, <1>5, <1>6 DEF Sound, Phase

\* The session runs and is told something of its usock.
LEMMA SessionTold ==
  ASSUME NEW x, Sound(x), x.events # <<>>, Head(x.events).to = "session",
         Head(x.events).src = "USOCK", x.session # "DONE"
  PROVE  /\ InSession(x) /\ Running(x) /\ InActive(x)
         /\ Taken(x, Off(x)) /\ Range(Off(x).events) \subseteq RunEvent
<1>1. Taken(x, Off(x))
  BY TakenBy
<1>2. ~Greeted(x)
  BY OneIs, EvIs DEF Greeted
<1>3. InSession(x) /\ Running(x)
  BY <1>2, SessionPhase, OneIs, EvIs
<1>4. QED
  BY <1>1, <1>3 DEF InSession, InActive, Taken, Running
\* Which phase an event tells: the socket.
LEMMA SockPhase ==
  ASSUME NEW x, Sound(x), x.events # <<>>, Head(x.events).to = "sock"
  PROVE  \/ InSession(x) /\ (Running(x) \/ SessionOver(x)) /\ Head(x.events).src = "PIPE"
         \/ Over(x) /\ One(x, "sock", "EP", "STOPPED")
<1>1. /\ ~Resolving(x) /\ ~Connecting(x) /\ ~Pausing(x) /\ ~Disconnecting(x) /\ ~Finishing(x)
      /\ ~Parting(x)
  BY OneIs, EvIs DEF Resolving, Connecting, Pausing, Disconnecting, Finishing, Parting,
         UsockStops, Settled
<1>2. ~Greeting(x) /\ ~Greeted(x) /\ ~Quitting(x)
  BY OneIs, EvIs DEF Greeting, Greeted, Quitting, Talks, TimerStops, Settled
<1>3. Head(x.events) \in Range(x.events)
  BY TakenBy DEF Taken
<1>4. Running(x) \/ SessionOver(x) => Head(x.events).src = "PIPE"
  <2>1. Running(x) \/ SessionOver(x) =>
           Head(x.events) \in RunEvent \/ \E t : Head(x.events) = Ev("ep", "SESSION", t)
    BY <1>3 DEF Running, SessionOver
  <2>2. Head(x.events) \in RunEvent => Head(x.events).src = "PIPE"
    BY EvIs DEF RunEvent, Usock
  <2>3. QED
    BY <2>1, <2>2, EvIs
<1>5. CASE Over(x)
  BY <1>5, EvIs DEF Over, Settled
<1>6. QED
  BY <1>1, <1>2, <1>4, <1>5 DEF Sound, Phase, InSession

\* The protocol hears of its pipe, and leaves it at that or uses it.
LEMMA SockPipeKept ==
  ASSUME NEW x, Sound(x), x.events # <<>>, NEW type \in {"IN", "OUT"},
         Head(x.events) = Ev("sock", "PIPE", type), NEW r \in Result
  PROVE  /\ Kept(Off(x)) /\ Kept(Abort(Off(x))) /\ Kept(PipeRecv(Off(x), r))
         /\ Kept(PipeSend(Off(x), r)) /\ Kept(PipeSend(Odd(Off(x), "early"), r))
<1> DEFINE z == Off(x)
           v == Odd(z, "early")
           e == Ev("sock", "PIPE", type)
<1>0. e # Usock("ERROR") /\ e # Usock("SHUTDOWN") /\ Head(x.events) = e
      /\ \A result : e # Ev("ep", "SESSION", result)
  BY EvIs DEF Usock
<1>1. Taken(x, z) /\ x.ep # "FREED"
  BY TakenBy
<1>2. InSession(x) /\ (Running(x) \/ SessionOver(x))
  BY SockPhase, OneIs, EvIs
<1> HIDE DEF z, e
<1>3. Fit(z) /\ InActive(z)
  BY <1>1, <1>2 DEF Taken, InActive, InSession, Frame, Still
<1>4. CASE Running(x)
  <2>1. Running(z)
    <3>1. ~Breaks(x)
      BY <1>0, OneOnly DEF Breaks
    <3>2. /\ Range(z.events) \subseteq RunEvent
          /\ \A d : Gets(z, d) <=> Gets(x, d) /\ d # e
      BY <1>0, <1>1, <1>4 DEF Running, Taken, Gets
    <3>3. QED
      BY <1>0, <1>1, <1>4, <3>1, <3>2 DEF Running, Taken, Frame, Open
  <2>2. RunsOn(z)
    BY <1>3, <2>1 DEF RunsOn
  <2>3. Core(z, v) /\ z.ep = v.ep
    BY <1>3 DEF Fit, ConnectTyped, Core, ConnectFields, Odd
  <2> DEFINE w == [z EXCEPT !.odd = @ \cup {"early"}]
  <2>4. RunsOn(v)
    <3>1. /\ v.ep = z.ep /\ v.dns = z.dns /\ v.peerGone = z.peerGone /\ v.owner = z.owner
          /\ v.header = z.header /\ v.saved = z.saved /\ v.session = z.session /\ v.pipe = z.pipe
          /\ v.poll = z.poll /\ v.kind = z.kind /\ v.odd = z.odd \cup {"early"}
          /\ v.timer = z.timer
      BY <1>3 DEF Fit, ConnectTyped, ConnectFields, Odd
    <3>2. Fit(v)
      BY <1>3, <2>3, FitKept
    <3> HIDE DEF v
    <3>3. InActive(v)
      BY <1>3, <3>1 DEF InActive, Still
    <3>4. Running(v)
      BY <2>1, <2>3, <3>1 DEF Running, Core, Breaks, Open, Gets
    <3>5. QED
      BY <3>2, <3>3, <3>4 DEF RunsOn
  <2> HIDE DEF v
  <2>5. Kept(z) /\ Fit(z) /\ Fit(v) /\ z.ep # "FREED" /\ v.ep # "FREED"
    BY <2>2, <2>4, RunsOnKept
  <2>6. Kept(Abort(z))
    BY <2>5, AbortKept DEF Kept
  <2>7. Kept(PipeRecv(z, r)) /\ Kept(PipeSend(z, r)) /\ Kept(PipeSend(v, r))
    BY <2>2, <2>4, <2>5, PipeUsedKept
  <2>8. QED
    BY <2>5, <2>6, <2>7 DEF z, v
<1>5. CASE SessionOver(x)
  <2>1. SessionOver(z)
    BY <1>0, <1>1, <1>5 DEF SessionOver, Taken, Frame, Open
  <2>2. Sound(z)
    BY <1>1, <1>3, <2>1 DEF Sound, Phase, InSession, InActive, Taken
  <2>3. v.session = "DONE" /\ z.session = "DONE" /\ Core(z, v) /\ z.ep = v.ep
    BY <1>3, <2>1 DEF SessionOver, Odd, Fit, ConnectTyped, ConnectFields, Core
  <2> HIDE DEF v
  <2>4. Fit(v) /\ z.ep = "ACTIVE"
    BY <1>3, <2>3, FitKept DEF InActive
  <2>5. Kept(PipeRecv(z, r)) /\ Kept(PipeSend(z, r)) /\ Kept(PipeSend(v, r))
    BY <1>3, <2>3, <2>4, PipeUsedKept
  <2>6. Kept(Abort(z))
    BY <1>3, <2>4, AbortKept DEF Kept
  <2>7. QED
    BY <2>2, <2>5, <2>6 DEF Kept, z, v
<1>6. QED
  BY <1>2, <1>4, <1>5

\* What the session gets while it is active.
LEMMA ActiveTold ==
  ASSUME NEW x, Sound(x), x.events # <<>>, NEW type \in {"SENT", "RECEIVED"},
         Head(x.events) = Ev("session", "USOCK", type), x.session # "DONE"
  PROVE  /\ RunsOn(Off(x)) /\ Off(x).usock # "DONE" /\ Off(x).session = x.session
         /\ LastEvent(Off(x), "CLOSE_HANDSHAKE") /\ LastEvent(Off(x), "ERROR")
         /\ Off(x).ep = x.ep
<1> DEFINE z == Off(x)
           e == Usock(type)
<1>0. e # Usock("ERROR") /\ e # Usock("SHUTDOWN") /\ Head(x.events) = e
      /\ \A t : e # Ev("sock", "PIPE", t)
  BY EvIs DEF Usock
<1>1. /\ InSession(x) /\ Running(x) /\ InActive(x) /\ Taken(x, z)
      /\ Range(z.events) \subseteq RunEvent
  BY SessionTold, EvIs
<1> HIDE DEF z, e
<1>2. Fit(z) /\ InActive(z)
  BY <1>1 DEF Taken, InActive, Frame, Still
<1>3. ~Breaks(x)
  BY <1>0, OneOnly DEF Breaks
<1>4. \A d : Gets(z, d) <=> Gets(x, d) /\ d # e
  BY <1>0, <1>1 DEF Taken, Gets
<1>5. Gets(x, e)
  BY <1>0, <1>1 DEF Taken, Gets
<1>6. Running(z) /\ z.usock # "DONE" /\ Open(z, FALSE)
  BY <1>0, <1>1, <1>3, <1>4, <1>5 DEF Running, Taken, Frame, Open, Gets
<1>7. LastEvent(z, "CLOSE_HANDSHAKE") /\ LastEvent(z, "ERROR")
  BY <1>1, <1>2, <1>6 DEF LastEvent, Open, Running
<1>8. QED
  BY <1>1, <1>2, <1>6, <1>7 DEF RunsOn, z, Taken, Frame
\* What may come of a header or of a part of a message.
LEMMA ReadKept ==
  ASSUME NEW z, RunsOn(z), z.usock # "DONE", NEW v, Core(z, v), Frame(z, v), NEW r \in Result
  PROVE  /\ Kept(UsockRecv(v, r)) /\ Kept(NextHeader(v, r)) /\ Kept(PipeReceived(v))
         /\ Kept(PipeSent(v)) /\ Kept(Abort(v))
<1>1. RunsOn(v) /\ v.usock # "DONE"
  BY RunsOnKept DEF Core
<1>2. Fit(v) /\ v.ep # "FREED"
  BY <1>1, RunsOnKept
<1>3. Kept(UsockRecv(v, r)) /\ Kept(NextHeader(v, r))
  BY <1>1, UsesKept, NextHeaderKept
<1>4. Kept(PipeReceived(v)) /\ Kept(PipeSent(v))
  BY <1>1, PipeToldKept
<1>5. Kept(Abort(v))
  BY <1>2, AbortKept DEF Kept
<1>6. QED
  BY <1>3, <1>4, <1>5

\* nn_stcp_handler, NN_USOCK_SENT.
LEMMA SessionSentKept ==
  ASSUME NEW x, Sound(x), x.events # <<>>, Head(x.events) = Ev("session", "USOCK", "SENT"),
         x.session = "ACTIVE"
  PROVE  Kept(IF x.out = "SENDING" THEN PipeSent([Off(x) EXCEPT !.out = "IDLE"])
                                   ELSE Abort(Off(x)))
<1>1. RunsOn(Off(x)) /\ Off(x).usock # "DONE"
  BY ActiveTold
<1>2. Fit(Off(x))
  BY <1>1, RunsOnKept
<1>3. "done" \in Result
  BY DEF Result
<1>4. Core(Off(x), Off(x)) /\ Frame(Off(x), Off(x))
      /\ Core(Off(x), [Off(x) EXCEPT !.out = "IDLE"]) /\ Frame(Off(x), [Off(x) EXCEPT !.out = "IDLE"])
  BY <1>2 DEF Fit, ConnectTyped, Core, Frame, ConnectFields
<1>5. Kept(PipeSent([Off(x) EXCEPT !.out = "IDLE"])) /\ Kept(Abort(Off(x)))
  BY <1>1, <1>3, <1>4, ReadKept
<1>6. QED
  BY <1>5

\* nn_stcp_handler, NN_USOCK_RECEIVED.
LEMMA SessionReceivedKept ==
  ASSUME NEW x, Sound(x), x.events # <<>>, Head(x.events) = Ev("session", "USOCK", "RECEIVED"),
         x.session = "ACTIVE", NEW r \in Result
  PROVE  /\ Kept(SessionDone(Off(x), "ERROR")) /\ Kept(Abort(Off(x)))
         /\ \A i : /\ Kept(UsockRecv([Off(x) EXCEPT !.in = i], r))
                   /\ Kept(PipeReceived([Off(x) EXCEPT !.in = i]))
<1>1. RunsOn(Off(x)) /\ Off(x).usock # "DONE" /\ LastEvent(Off(x), "ERROR")
  BY ActiveTold
<1>2. Fit(Off(x))
  BY <1>1, RunsOnKept
<1>3. Kept(SessionDone(Off(x), "ERROR"))
  BY <1>1, SessionDoneKept
<1>4. Kept(Abort(Off(x)))
  <2>1. Core(Off(x), Off(x)) /\ Frame(Off(x), Off(x))
    BY <1>2 DEF Fit, ConnectTyped, Core, Frame, ConnectFields
  <2>2. QED
    BY <1>1, <2>1, ReadKept
<1>5. ASSUME NEW i
      PROVE  /\ Kept(UsockRecv([Off(x) EXCEPT !.in = i], r))
             /\ Kept(PipeReceived([Off(x) EXCEPT !.in = i]))
  <2>1. Core(Off(x), [Off(x) EXCEPT !.in = i]) /\ Frame(Off(x), [Off(x) EXCEPT !.in = i])
    BY <1>2 DEF Fit, ConnectTyped, Core, Frame, ConnectFields
  <2>2. QED
    BY <1>1, <2>1, ReadKept
<1>6. QED
  BY <1>3, <1>4, <1>5

\* nn_sws_fail_conn.
LEMMA FailConnKept ==
  ASSUME NEW x, Sound(x), x.events # <<>>, Head(x.events) = Ev("session", "USOCK", "RECEIVED"),
         x.session = "ACTIVE", NEW r \in Result
  PROVE  Kept(FailConn(Off(x), r))
<1> DEFINE z == Off(x)
           y == PipeStop([z EXCEPT !.in = "CLOSED", !.chunks = FALSE])
           v == [y EXCEPT !.out = "SENDING", !.session = "CLOSING_CONNECTION"]
<1>1. /\ RunsOn(z) /\ z.usock # "DONE" /\ LastEvent(z, "CLOSE_HANDSHAKE") /\ z.session = "ACTIVE"
      /\ z.ep # "FREED"
  BY ActiveTold, RunsOnKept
<1> HIDE DEF z
<1>2. /\ Core(z, y) /\ y.ep = z.ep /\ y.dns = z.dns /\ y.peerGone = z.peerGone
      /\ y.owner = z.owner /\ y.header = z.header /\ y.saved = z.saved /\ y.session = z.session
      /\ y.odd = z.odd /\ y.pipe = "IDLE" /\ y.out = z.out
  BY <1>1 DEF LastEvent, Fit, ConnectTyped, Core, ConnectFields, PipeStop
<1> HIDE DEF y
<1>3. /\ Core(y, v) /\ v.ep = z.ep /\ v.dns = z.dns /\ v.peerGone = z.peerGone
      /\ v.owner = z.owner /\ v.header = z.header /\ v.saved = z.saved
      /\ v.session = "CLOSING_CONNECTION" /\ v.odd = z.odd /\ v.pipe = "IDLE"
  BY <1>1, <1>2 DEF LastEvent, Fit, ConnectTyped, Core, ConnectFields
<1> HIDE DEF v
<1>4. Fit(y) /\ Fit(v)
  BY <1>1, <1>2, <1>3, FitKept DEF LastEvent
<1>5. RunsOn(v)
  <2>1. InActive(v)
    BY <1>1, <1>2, <1>3 DEF RunsOn, InActive, Core, Still
  <2>2. Running(v)
    BY <1>1, <1>2, <1>3 DEF RunsOn, Running, Core, Open, Breaks, Gets
  <2>3. QED
    BY <1>4, <2>1, <2>2 DEF RunsOn
<1>6. Kept(UsockSend(v, r))
  BY <1>5, UsesKept
<1>7. LastEvent(y, "CLOSE_HANDSHAKE")
  BY <1>1, <1>2, <1>4 DEF LastEvent, InActive, Still, Core, Open
<1>8. Kept(SessionDone(y, "CLOSE_HANDSHAKE"))
  BY <1>7, SessionDoneKept
<1>9. FailConn(z, r) = IF z.out = "IDLE" THEN UsockSend(v, r) ELSE SessionDone(y, "CLOSE_HANDSHAKE")
  BY DEF FailConn, y, v
<1>10. QED
  BY <1>6, <1>8, <1>9 DEF z
\* The usock of a running session says that its descriptor is being closed.
LEMMA SessionShutdownKept ==
  ASSUME NEW x, Sound(x), x.events # <<>>, Head(x.events) = Ev("session", "USOCK", "SHUTDOWN"),
         x.session \in {"ACTIVE", "CLOSING_CONNECTION"}
  PROVE  /\ x.session = "ACTIVE" => Kept(PipeStop([Off(x) EXCEPT !.session = "SHUTTING_DOWN"]))
         /\ x.session = "CLOSING_CONNECTION" => Kept(Off(x))
<1> DEFINE z == Off(x)
           y == PipeStop([z EXCEPT !.session = "SHUTTING_DOWN"])
           e == Usock("SHUTDOWN")
<1>0. e = Usock("SHUTDOWN") /\ e # Usock("ERROR") /\ Head(x.events) = e /\ \A t : e # Ev("sock", "PIPE", t)
  BY EvIs DEF Usock
<1>1. /\ InSession(x) /\ Running(x) /\ InActive(x) /\ Taken(x, z)
      /\ Range(z.events) \subseteq RunEvent
  BY SessionTold, EvIs
<1> HIDE DEF z, e
<1>2. Fit(z) /\ InActive(z)
  BY <1>1 DEF Taken, InActive, Frame, Still
<1>3. ~Breaks(x)
  BY <1>0, OneOnly DEF Breaks
<1>4. (\A d : Gets(z, d) <=> Gets(x, d) /\ d # e) /\ Gets(x, e)
  BY <1>0, <1>1 DEF Taken, Gets
<1>5. CASE x.session = "ACTIVE"
  <2>1. x.usock = "REMOVING_FD" /\ Ends(x.tasks, U("STOP")) /\ ~Gets(x, Usock("ERROR"))
    BY <1>0, <1>1, <1>3, <1>4, <1>5 DEF Running, Gets
  <2>2. /\ Core(z, y) /\ y.ep = z.ep /\ y.dns = z.dns /\ y.peerGone = z.peerGone
        /\ y.owner = z.owner /\ y.header = z.header /\ y.saved = z.saved
        /\ y.session = "SHUTTING_DOWN" /\ y.odd = z.odd /\ y.pipe = "IDLE"
    BY <1>2 DEF Fit, ConnectTyped, Core, ConnectFields, PipeStop
  <2> HIDE DEF y
  <2>3. Fit(y)
    BY <1>2, <2>2, FitKept
  <2>4. InActive(y)
    BY <1>2, <2>2 DEF InActive, Still, Core
  <2>5. Running(y)
    BY <1>1, <1>4, <2>1, <2>2 DEF Running, Taken, Frame, Gets, Core
  <2>6. QED
    BY <1>5, <2>3, <2>4, <2>5, RunsOnKept DEF RunsOn, y, z
<1>6. CASE x.session = "CLOSING_CONNECTION"
  <2>1. Running(z)
    BY <1>1, <1>3, <1>4, <1>6 DEF Running, Taken, Frame, Open
  <2>2. QED
    BY <1>2, <1>6, <2>1, RunsOnKept DEF RunsOn, z
<1>7. QED
  BY <1>5, <1>6

\* The usock of a running session has failed.
LEMMA SessionErrorKept ==
  ASSUME NEW x, Sound(x), x.events # <<>>, Head(x.events) = Ev("session", "USOCK", "ERROR"),
         x.session \in {"ACTIVE", "SHUTTING_DOWN", "CLOSING_CONNECTION"}
  PROVE  Kept(SessionDone(PipeStop(Off(x)), "ERROR")) /\ Kept(SessionDone(Off(x), "ERROR"))
<1> DEFINE z == Off(x)
           y == PipeStop(z)
           e == Usock("ERROR")
<1>0. Head(x.events) = e /\ e = Usock("ERROR") /\ \A t : e # Ev("sock", "PIPE", t)
  BY EvIs DEF Usock
<1>1. /\ InSession(x) /\ Running(x) /\ InActive(x) /\ Taken(x, z)
      /\ Range(z.events) \subseteq RunEvent
  BY SessionTold, EvIs
<1> HIDE DEF z, e
<1>2. Fit(z) /\ InActive(z)
  BY <1>1 DEF Taken, InActive, Frame, Still
<1>3. Gets(x, e)
  BY <1>0, <1>1 DEF Taken, Gets
<1>4. x.usock = "DONE"
  BY <1>0, <1>1, <1>3 DEF Running, Breaks, Gets
<1>5. LastEvent(z, "ERROR")
  BY <1>1, <1>2, <1>4 DEF LastEvent, Open, Taken, Frame, Running
<1>6. /\ Core(z, y) /\ y.ep = z.ep /\ y.dns = z.dns /\ y.peerGone = z.peerGone
      /\ y.owner = z.owner /\ y.header = z.header /\ y.saved = z.saved
      /\ y.session = z.session /\ y.odd = z.odd /\ y.pipe = "IDLE"
  BY <1>2 DEF Fit, ConnectTyped, Core, ConnectFields, PipeStop
<1> HIDE DEF y
<1>7. Fit(y)
  BY <1>2, <1>6, FitKept
<1>8. LastEvent(y, "ERROR")
  BY <1>5, <1>6, <1>7 DEF LastEvent, InActive, Still, Core, Open
<1>9. QED
  BY <1>5, <1>8, SessionDoneKept DEF y, z

\* nn_sws_handler while it closes the connection: the close frame is sent.
LEMMA SwsClosedKept ==
  ASSUME NEW x, Sound(x), x.events # <<>>, Head(x.events) = Ev("session", "USOCK", "SENT"),
         x.session = "CLOSING_CONNECTION"
  PROVE  Kept(SessionDone([Off(x) EXCEPT !.out = "IDLE"], "CLOSE_HANDSHAKE"))
<1> DEFINE z == Off(x)
           y == [z EXCEPT !.out = "IDLE"]
<1>1. LastEvent(z, "CLOSE_HANDSHAKE")
  BY ActiveTold
<1> HIDE DEF z
<1>2. Fit(z)
  BY <1>1 DEF LastEvent
<1>3. Core(z, y) /\ Frame(z, y)
  BY <1>2 DEF Fit, ConnectTyped, Core, Frame, ConnectFields
<1> HIDE DEF y
<1>4. Fit(y)
  BY <1>2, <1>3, FitKept
<1>5. LastEvent(y, "CLOSE_HANDSHAKE")
  BY <1>1, <1>3, <1>4 DEF LastEvent, InActive, Still, Core, Frame, Open
<1>6. QED
  BY <1>5, SessionDoneKept DEF y, z

\* What the session is told of the header exchange.
LEMMA HeaderTold ==
  ASSUME NEW x, Sound(x), x.events # <<>>, Head(x.events).to = "session",
         Head(x.events).src = "HEADER", x.session \in {"PROTOHDR", "STOPPING_HEADER"}
  PROVE  /\ InSession(x) /\ Greeted(x) /\ Off(x).events = <<>> /\ Taken(x, Off(x))
         /\ Fit(Off(x)) /\ InActive(Off(x))
         /\ x.owner = "session" /\ x.timer["TIMER"] = "IDLE" /\ x.tasks = <<>> /\ x.pipe = "IDLE"
<1>1. Taken(x, Off(x))
  BY TakenBy
<1>2. ~Running(x)
  BY DEF Running
<1>3. InSession(x) /\ Greeted(x)
  BY <1>2, SessionPhase
<1>4. Off(x).events = <<>>
  BY <1>1, <1>3, OneIs DEF Greeted, Taken
<1>5. QED
  BY <1>1, <1>3, <1>4 DEF Greeted, InSession, InActive, Taken, Frame, Still
\* The exchange went well: the session stops it.
LEMMA SessionHeaderOkKept ==
  ASSUME NEW x, Sound(x), x.events # <<>>, Head(x.events) = Ev("session", "HEADER", "OK"),
         x.session = "PROTOHDR"
  PROVE  Kept(HeaderStop([Off(x) EXCEPT !.session = "STOPPING_HEADER"]))
<1> DEFINE z == [Off(x) EXCEPT !.session = "STOPPING_HEADER"]
           v == [z EXCEPT !.header = "STOPPING"]
           w == [v EXCEPT !.header = "IDLE"]
           e == Ev("session", "HEADER", "STOPPED")
           y == Raise(w, e)
<1>0. e = Ev("session", "HEADER", "STOPPED") /\ e \in ConnectEvent
  BY DEF Ev, ConnectEvent
<1>1. /\ InSession(x) /\ Greeted(x) /\ Off(x).events = <<>> /\ Taken(x, Off(x))
      /\ Fit(Off(x)) /\ InActive(Off(x))
      /\ x.owner = "session" /\ x.timer["TIMER"] = "IDLE" /\ x.tasks = <<>> /\ x.pipe = "IDLE"
  BY HeaderTold, EvIs
<1>2. x.header = "DONE" /\ Up(x)
  BY <1>1, OneIs, EvIs DEF Greeted
<1>3. /\ Core(Off(x), z) /\ z.events = <<>> /\ z.header = "DONE" /\ z.timer["TIMER"] = "IDLE"
      /\ Core(Off(x), v) /\ v.events = <<>> /\ v.timer["TIMER"] = "IDLE"
      /\ Core(Off(x), w) /\ w.events = <<>> /\ w.header = "IDLE" /\ w.session = "STOPPING_HEADER"
      /\ w.ep = Off(x).ep /\ w.dns = Off(x).dns /\ w.peerGone = Off(x).peerGone
      /\ w.owner = "session" /\ w.saved = Off(x).saved /\ w.odd = x.odd /\ w.pipe = "IDLE"
      /\ w.usock = x.usock /\ w.tasks = <<>> /\ w.timer = x.timer
  BY <1>1, <1>2 DEF Taken, Fit, ConnectTyped, Frame, Core, ConnectFields
<1>4. HeaderStop(z) = HeaderFinish(TimerStop(v, "TIMER"))
  BY <1>3 DEF HeaderStop
<1> HIDE DEF z, v, w, e, y
<1>5. TimerStop(v, "TIMER") = v
  BY <1>3 DEF TimerStop
<1>6. HeaderFinish(v) = y
  BY <1>3 DEF HeaderFinish, TimerIdle, FsmIdle, y, w, e
<1>7. Fit(w)
  BY <1>1, <1>3, FitKept
<1>8. Lost(y) \/ Raised(w, y, e)
  BY <1>0, <1>1, <1>3, <1>7, RaisedBy DEF y, InActive
<1>9. CASE Raised(w, y, e)
  <2>1. Greeted(y)
    BY <1>0, <1>1, <1>2, <1>3, <1>9 DEF Greeted, Raised, Frame, Hears, One, Up
  <2>2. InSession(y)
    BY <1>1, <1>3, <1>9, <2>1 DEF InSession, InActive, Core, Raised, Frame, Still
  <2>3. Sound(y)
    BY <1>9, <2>2 DEF Sound, Phase, Raised
  <2>4. QED
    BY <1>4, <1>5, <1>6, <2>3 DEF Kept, z
<1>10. QED
  BY <1>4, <1>5, <1>6, <1>8, <1>9 DEF Kept, z

\* The exchange failed: the session ends.
LEMMA SessionHeaderErrorKept ==
  ASSUME NEW x, Sound(x), x.events # <<>>, Head(x.events) = Ev("session", "HEADER", "ERROR"),
         x.session = "PROTOHDR", NEW result \in {"ERROR", "CLOSE_HANDSHAKE"}
  PROVE  Kept(SessionDone(Off(x), result))
<1>1. /\ InSession(x) /\ Greeted(x) /\ Off(x).events = <<>> /\ Taken(x, Off(x))
      /\ Fit(Off(x)) /\ InActive(Off(x))
      /\ x.owner = "session" /\ x.timer["TIMER"] = "IDLE" /\ x.tasks = <<>>
  BY HeaderTold, EvIs
<1>2. x.header = "DONE" /\ x.usock \in {"ACTIVE", "DONE"}
  BY <1>1, OneIs, EvIs DEF Greeted
<1>3. Range(Off(x).events) = {}
  BY <1>1 DEF Range
<1>4. LastEvent(Off(x), result)
  BY <1>1, <1>2, <1>3 DEF LastEvent, Taken, Frame, Open
<1>5. QED
  BY <1>4, SessionDoneKept

\* The session starts its pipe, or the protocol refuses it.
Begins(x, r) == NextHeader([PipeStart(x) EXCEPT !.out = "IDLE", !.session = "ACTIVE"], r)
Refused(x) ==
    SessionDone([x EXCEPT !.pipe = "FAILED", !.pipeIn = "ASYNC", !.pipeOut = "IDLE"], "ERROR")

\* Either way the invariant is kept.
LEMMA SessionStartPipeKept ==
  ASSUME NEW x, Sound(x), x.events # <<>>, Head(x.events) = Ev("session", "HEADER", "STOPPED"),
         x.session = "STOPPING_HEADER", NEW r \in Result
  PROVE  Kept(Begins(Off(x), r)) /\ Kept(Refused(Off(x)))
<1>1. /\ InSession(x) /\ Greeted(x) /\ Off(x).events = <<>> /\ Taken(x, Off(x))
      /\ Fit(Off(x)) /\ InActive(Off(x))
      /\ x.owner = "session" /\ x.timer["TIMER"] = "IDLE" /\ x.tasks = <<>> /\ x.pipe = "IDLE"
  BY HeaderTold, EvIs
<1>2. x.header = "IDLE" /\ Up(x)
  BY <1>1, OneIs, EvIs DEF Greeted
<1>3. Kept(SessionDone([Off(x) EXCEPT !.pipe = "FAILED", !.pipeIn = "ASYNC", !.pipeOut = "IDLE"], "ERROR"))
  <2> DEFINE z == [Off(x) EXCEPT !.pipe = "FAILED", !.pipeIn = "ASYNC", !.pipeOut = "IDLE"]
  <2>1. /\ Core(Off(x), z) /\ z.events = <<>> /\ z.header = "IDLE" /\ z.timer = x.timer
        /\ z.ep = Off(x).ep /\ z.dns = Off(x).dns /\ z.peerGone = Off(x).peerGone
        /\ z.owner = "session" /\ z.saved = Off(x).saved /\ z.usock = x.usock
    BY <1>1, <1>2 DEF Taken, Fit, ConnectTyped, Frame, Core, ConnectFields
  <2> HIDE DEF z
  <2>2. Fit(z)
    BY <1>1, <2>1, FitKept
  <2>3. Range(z.events) = {}
    BY <2>1 DEF Range
  <2>4. LastEvent(z, "ERROR")
    BY <1>1, <1>2, <2>1, <2>2, <2>3 DEF LastEvent, InActive, Still, Core, Open, Up
  <2>5. QED
    BY <2>4, SessionDoneKept DEF z
<1>4. Kept(NextHeader([PipeStart(Off(x)) EXCEPT !.out = "IDLE", !.session = "ACTIVE"], r))
  <2> DEFINE z == [Off(x) EXCEPT !.pipe = "ACTIVE", !.pipeIn = "ASYNC", !.pipeOut = "IDLE"]
             e == Ev("sock", "PIPE", "OUT")
             v == Raise(z, e)
             y == [v EXCEPT !.out = "IDLE", !.session = "ACTIVE"]
  <2>0. e = Ev("sock", "PIPE", "OUT") /\ e \in ConnectEvent /\ e \in RunEvent
        /\ e # Usock("SHUTDOWN") /\ e # Usock("ERROR")
    BY DEF Ev, ConnectEvent, RunEvent, Usock
  <2>1. PipeStart(Off(x)) = v
    BY <1>1 DEF PipeStart, Taken, Frame
  <2>2. /\ Core(Off(x), z) /\ z.events = <<>> /\ z.header = "IDLE" /\ z.timer = x.timer
        /\ z.ep = Off(x).ep /\ z.dns = Off(x).dns /\ z.peerGone = Off(x).peerGone
        /\ z.owner = "session" /\ z.saved = Off(x).saved /\ z.usock = x.usock
        /\ z.pipe = "ACTIVE" /\ z.odd = x.odd /\ z.tasks = <<>>
    BY <1>1, <1>2 DEF Taken, Fit, ConnectTyped, Frame, Core, ConnectFields
  <2> HIDE DEF z, e, v
  <2>3. Fit(z)
    BY <1>1, <2>2, FitKept
  <2>4. Lost(v) \/ Raised(z, v, e)
    BY <1>1, <2>0, <2>2, <2>3, RaisedBy DEF v, InActive
  <2>5. CASE Lost(v)
    <3>1. Lost(y)
      BY <2>5 DEF Lost, ConnectFields
    <3>2. QED
      BY <2>1, <3>1, NextHeaderKept
  <2>6. CASE Raised(z, v, e)
    <3>1. /\ Core(v, y) /\ y.header = v.header /\ y.ep = v.ep /\ y.dns = v.dns
          /\ y.peerGone = v.peerGone /\ y.owner = v.owner /\ y.saved = v.saved /\ y.odd = v.odd
          /\ y.session = "ACTIVE" /\ y.pipe = v.pipe
      BY <2>6 DEF Raised, Fit, ConnectTyped, Core, ConnectFields
    <3> HIDE DEF y
    <3>2. Fit(y)
      BY <2>6, <3>1, FitKept DEF Raised
    <3>3. InActive(y)
      BY <1>1, <2>2, <2>6, <3>1 DEF InActive, Still, Core, Raised, Frame
    <3>4. Range(y.events) = {e}
      <4>1. Range(z.events) = {}
        BY <2>2 DEF Range
      <4>2. QED
        BY <2>6, <3>1, <4>1 DEF Raised, Hears, Core
    <3>5. Running(y)
      BY <1>1, <1>2, <2>0, <2>2, <2>6, <3>1, <3>4 DEF Running, Raised, Frame, Core, Gets, Up
    <3>6. QED
      BY <2>1, <3>2, <3>3, <3>5, NextHeaderKept DEF RunsOn, y
  <2>7. QED
    BY <2>4, <2>5, <2>6
<1>5. QED
  BY <1>3, <1>4 DEF Begins, Refused
-----------------------------------------------------------------------------
(* The session is stopped.                                                   *)

\* The session has given the usock back, and says that it has stopped.
GaveBack(z, y) ==
    /\ Fit(y) /\ One(y, "ep", "SESSION", "STOPPED") /\ y.owner = "ep" /\ y.session = "IDLE"
    /\ y.header = z.header /\ y.usock = z.usock /\ y.tasks = z.tasks /\ y.timer = z.timer
    /\ y.poll = z.poll /\ y.ep = z.ep /\ y.dns = z.dns /\ y.pipe = z.pipe
    /\ y.peerGone = z.peerGone /\ y.kind = z.kind

\* The first event of a context that was entered.
LEMMA RaisedFirst ==
  ASSUME NEW x, Fit(x), NEW e \in ConnectEvent, x.events = <<>>
  PROVE  Raised(x, Raise(x, e), e) /\ Raise(x, e).events = <<e>>
<1>0. DOMAIN x = ConnectFields /\ x.aborted = FALSE
  BY DEF Fit, ConnectTyped
<1>1. Fresh(x, e) /\ ~\E i \in DOMAIN x.events : SameEvent(x.events[i], e)
  BY DEF Fresh
<1>2. Raise(x, e) = [x EXCEPT !.events = Append(x.events, e)]
  <2> DEFINE b == x.aborted \/ \E i \in DOMAIN x.events : SameEvent(x.events[i], e)
  <2>1. b = FALSE
    BY <1>0, <1>1
  <2>2. Raise(x, e) = [x EXCEPT !.events = Append(x.events, e), !.aborted = b]
    BY DEF Raise
  <2> HIDE DEF b
  <2>3. QED
    BY <1>0, <2>1, <2>2 DEF ConnectFields
<1> DEFINE y == [x EXCEPT !.events = Append(x.events, e)]
<1>3. Fit(y)
  BY <1>1, FitRaises
<1>4. Frame(x, y) /\ y.timer = x.timer /\ y.armed = x.armed /\ y.usock = x.usock
      /\ y.tasks = x.tasks /\ y.events = Append(x.events, e)
  BY <1>0 DEF Frame, ConnectFields
<1> HIDE DEF y
<1>5. Hears(x, y, e)
  BY <1>1, <1>4, EventComes DEF Hears, Fit
<1>6. QED
  BY <1>1, <1>2, <1>3, <1>4, <1>5 DEF Raised, Hears, y

\* The session that waits for nothing gives the usock back.
LEMMA FinishBy ==
  ASSUME NEW z, Fit(z), z.events = <<>>, z.header = "IDLE", z.saved["session"] = "ep"
  PROVE  GaveBack(z, SessionFinish(z))
<1> DEFINE v == GiveBack([Forget(z) EXCEPT !.session = "IDLE"], "session")
           e == Ev("ep", "SESSION", "STOPPED")
           y == Raise(v, e)
<1>1. SessionFinish(z) = y
  BY DEF SessionFinish, HeaderIdle, FsmIdle
<1>2. e \in ConnectEvent /\ e = Ev("ep", "SESSION", "STOPPED")
  BY DEF ConnectEvent, Ev
<1>3. /\ Core(z, v) /\ v.events = <<>> /\ v.owner = "ep" /\ v.session = "IDLE"
      /\ v.header = z.header /\ v.ep = z.ep /\ v.dns = z.dns /\ v.pipe = z.pipe
      /\ v.peerGone = z.peerGone
  BY DEF Fit, ConnectTyped, Core, ConnectFields, GiveBack, Forget
<1> HIDE DEF v, e, y
<1>4. Fit(v)
  BY <1>3, FitKept
<1>5. Raised(v, y, e) /\ y.events = <<e>>
  BY <1>2, <1>3, <1>4, RaisedFirst DEF y
<1>6. QED
  BY <1>1, <1>2, <1>3, <1>5 DEF GaveBack, Raised, Frame, One, Core

\* The last thing a session that is being stopped waits for.
LEMMA SessionStoppingKept ==
  ASSUME NEW x, Sound(x), x.events # <<>>, Head(x.events).to = "session",
         x.session = "STOPPING"
  PROVE  Kept(SessionFinish(Off(x)))
<1> DEFINE z == Off(x)
           y == SessionFinish(z)
<1>1. Taken(x, z)
  BY TakenBy
<1>2. /\ One(x, "session", "HEADER", "STOPPED") /\ x.saved["session"] = "ep"
      /\ x.header = "IDLE" /\ x.timer["TIMER"] = "IDLE"
      /\ Parting(x) \/ (Quitting(x) /\ x.tasks = <<>> /\ x.usock \in {"ACTIVE", "DONE", "REMOVING_FD"})
  <2>1. ~Greeted(x) /\ ~Running(x) /\ ~(SessionOver(x) /\ x.session = "DONE")
    BY DEF Greeted, Running
  <2>2. QED
    BY <2>1, SessionPhase
<1> HIDE DEF z
<1>3. Fit(z) /\ z.events = <<>> /\ z.header = "IDLE" /\ z.saved["session"] = "ep"
  BY <1>1, <1>2 DEF Taken, Frame, One
<1> HIDE DEF y
<1>4. GaveBack(z, y)
  BY <1>3, FinishBy DEF y
<1>5. CASE Parting(x)
  <2>1. Parting(y)
    BY <1>1, <1>2, <1>3, <1>4, <1>5 DEF Parting, GaveBack, Taken, Frame, NoSession, Still, Open
  <2>2. QED
    BY <1>4, <2>1 DEF Kept, Sound, Phase, GaveBack, y, z
<1>6. CASE Quitting(x) /\ x.tasks = <<>> /\ x.usock \in {"ACTIVE", "DONE", "REMOVING_FD"}
  <2>1. x.usock # "REMOVING_FD"
    BY <1>6, NoTasks DEF Sound, Fit, Wired
  <2>2. Open(y, y.tasks = <<>>)
    BY <1>1, <1>4, <1>6, <2>1 DEF Open, GaveBack, Taken
  <2>3. Quitting(y)
    BY <1>1, <1>2, <1>3, <1>4, <1>6, <2>2 DEF Quitting, GaveBack, Taken, Frame, NoSession, Still
  <2>4. QED
    BY <1>4, <2>3 DEF Kept, Sound, Phase, GaveBack, y, z
<1>7. QED
  BY <1>2, <1>5, <1>6

\* Whatever a timer that is stopped does with the queue, it is all it does.
LEMMA TimerStopLeaves ==
  ASSUME NEW x, DOMAIN x = ConnectFields, DOMAIN x.timer = Timer, NEW t \in Timer
  PROVE  /\ TimerStop(x, t).header = x.header /\ TimerStop(x, t).session = x.session
         /\ TimerStop(x, t).ep = x.ep /\ TimerStop(x, t).usock = x.usock
         /\ TimerStop(x, t).kind = x.kind /\ TimerStop(x, t).events = x.events
         /\ TimerStop(x, t).timer[t] = "IDLE" <=> x.timer[t] = "IDLE"
         /\ DOMAIN TimerStop(x, t) = ConnectFields
BY DEF TimerStop, Execute, ConnectFields
\* Which phase an event tells: the endpoint.
LEMMA EpPhase ==
  ASSUME NEW x, Sound(x), x.events # <<>>, Head(x.events).to = "ep"
  PROVE  \/ Resolving(x) \/ Connecting(x) \/ Pausing(x) \/ Disconnecting(x) \/ Finishing(x)
         \/ InSession(x) /\ SessionOver(x) /\ Head(x.events).src = "SESSION"
         \/ Parting(x) /\ NoSession(x) /\ One(x, "ep", "SESSION", "STOPPED")
         \/ /\ Quitting(x) /\ NoSession(x) /\ One(x, "ep", "SESSION", "STOPPED")
            /\ Open(x, x.tasks = <<>>)
<1>1. ~Over(x)
  BY OneIs, EvIs DEF Over, Settled
<1>2. ~Greeting(x) /\ ~Greeted(x)
  BY OneIs, EvIs DEF Greeting, Greeted, Talks, TimerStops, Settled
<1>3. Head(x.events) \in Range(x.events)
  BY TakenBy DEF Taken
<1>4. Head(x.events) \notin RunEvent
  BY EvIs DEF RunEvent, Usock
<1>5. ~Running(x)
  BY <1>3, <1>4 DEF Running
<1>6. SessionOver(x) => Head(x.events).src = "SESSION"
  BY <1>3, <1>4, EvIs DEF SessionOver
<1>7. CASE Parting(x)
  BY <1>7, OneIs, EvIs DEF Parting
<1>8. CASE Quitting(x)
  BY <1>8, OneIs, EvIs DEF Quitting, TimerStops, Settled
<1>9. QED
  BY <1>1, <1>2, <1>5, <1>6, <1>7, <1>8 DEF Sound, Phase, InSession

\* nn_ctcp_handler: the session has ended, and is stopped.
LEMMA SessionEndedKept ==
  ASSUME NEW x, Sound(x), x.events # <<>>, NEW g,
         \/ Head(x.events) = Ev("ep", "SESSION", "ERROR") /\ ~g
         \/ Head(x.events) = Ev("ep", "SESSION", "CLOSE_HANDSHAKE") /\ g,
         x.ep = "ACTIVE",
         NEW z, DOMAIN z = ConnectFields, Core(Off(x), z), z.ep = "STOPPING_SESSION",
         z.peerGone = g, z.dns = x.dns, z.owner = x.owner, z.header = x.header, z.saved = x.saved,
         z.session = x.session
  PROVE  Kept(SessionStop(z))
<1>1. Taken(x, Off(x))
  BY TakenBy
<1>2. InSession(x) /\ SessionOver(x)
  BY EpPhase, EvIs DEF Resolving, Connecting, Pausing, Disconnecting, Finishing, Parting, Quitting
<1>3. PICK type \in {"ERROR", "CLOSE_HANDSHAKE"} :
          /\ Range(x.events) \subseteq RunEvent \cup {Ev("ep", "SESSION", type)}
          /\ Ends(x.events, Ev("ep", "SESSION", type))
          /\ Open(x, type = "ERROR" \/ x.tasks = <<>>)
  BY <1>2 DEF SessionOver
<1>4. Head(x.events) = Ev("ep", "SESSION", type)
  <2>1. Head(x.events) \in Range(x.events)
    BY <1>1 DEF Taken
  <2>2. Head(x.events) \notin RunEvent
    BY EvIs DEF RunEvent, Usock
  <2>3. QED
    BY <1>3, <2>1, <2>2
<1>5. Off(x).events = <<>> /\ (g => x.tasks = <<>> \/ x.usock # "DONE")
  BY <1>1, <1>3, <1>4, EvIs DEF Taken, Open
<1> DEFINE p == PipeStop([z EXCEPT !.session = "STOPPING"])
           h == HeaderStop(p)
           y == SessionFinish(h)
<1>6. SessionStop(z) = y
  BY <1>2 DEF SessionOver, SessionStop
<1>7. Fit(z) /\ z.events = <<>> /\ z.timer = x.timer /\ z.tasks = x.tasks /\ z.usock = x.usock
  BY <1>1, <1>5, FitKept DEF Taken, Core
<1>8. /\ Core(z, p) /\ p.ep = z.ep /\ p.peerGone = g /\ p.dns = z.dns /\ p.owner = z.owner
      /\ p.header = z.header /\ p.saved = z.saved /\ p.session = "STOPPING" /\ p.pipe = "IDLE"
  BY <1>7 DEF Fit, ConnectTyped, Core, ConnectFields, PipeStop
<1> HIDE DEF p, h, y
<1>9. /\ p.events = <<>> /\ p.timer["TIMER"] = "IDLE" /\ p.timer = x.timer /\ p.tasks = x.tasks
      /\ p.usock = x.usock /\ Fit(p) /\ p.saved["session"] = "ep" /\ p.owner = "session"
      /\ p.ep = "STOPPING_SESSION" /\ Still(p) /\ p.dns = "IDLE"
  BY <1>2, <1>7, <1>8, FitKept DEF Core, SessionOver, InSession, Still
<1>10. Open(x, g => x.tasks = <<>>)
  BY <1>3, <1>5 DEF Open
<1>11. CASE x.header = "IDLE"
  <2>1. h = p
    BY <1>8, <1>11 DEF HeaderStop, h
  <2>2. GaveBack(p, y)
    BY <1>8, <1>9, <1>11, <2>1, FinishBy DEF y
  <2>3. Open(y, y.peerGone => y.tasks = <<>>)
    BY <1>8, <1>9, <1>10, <2>2 DEF Open, GaveBack
  <2>4. Parting(y)
    BY <1>8, <1>9, <1>11, <2>2, <2>3 DEF Parting, GaveBack, NoSession, Still
  <2>5. QED
    BY <1>6, <2>2, <2>4 DEF Kept, Sound, Phase, GaveBack
<1>12. CASE x.header = "DONE"
  <2> DEFINE v == [p EXCEPT !.header = "STOPPING"]
             w == [v EXCEPT !.header = "IDLE"]
             e == Ev("session", "HEADER", "STOPPED")
             s == Raise(w, e)
  <2>1. v.events = <<>> /\ v.timer = p.timer
    BY <1>9 DEF Fit, ConnectTyped, ConnectFields
  <2>2. h = HeaderFinish(TimerStop(v, "TIMER"))
    BY <1>8, <1>12 DEF HeaderStop, h
  <2>3. Core(p, w) /\ w.header = "IDLE" /\ w.ep = p.ep /\ w.peerGone = g /\ w.dns = p.dns
        /\ w.owner = p.owner /\ w.saved = p.saved /\ w.session = "STOPPING" /\ w.pipe = "IDLE"
    BY <1>8, <1>9 DEF Fit, ConnectTyped, Core, ConnectFields
  <2>4. e \in ConnectEvent /\ e = Ev("session", "HEADER", "STOPPED")
    BY DEF ConnectEvent, Ev
  <2> HIDE DEF v, w, e, s
  <2>5. TimerStop(v, "TIMER") = v
    BY <1>9, <2>1 DEF TimerStop
  <2>6. h = s
    BY <1>9, <2>1, <2>2, <2>5 DEF HeaderFinish, TimerIdle, FsmIdle, s, w, e
  <2>7. Fit(w) /\ w.events = <<>>
    BY <1>9, <2>3, FitKept DEF Core
  <2>8. Raised(w, s, e) /\ s.events = <<e>>
    BY <2>4, <2>7, RaisedFirst DEF s
  <2>9. y = s
    <3>1. ~HeaderIdle(s)
      BY <2>4, <2>8, EvIs DEF HeaderIdle, FsmIdle
    <3>2. QED
      BY <2>6, <3>1 DEF SessionFinish, y
  <2>10. Open(s, s.peerGone => s.tasks = <<>>)
    BY <1>9, <1>10, <2>3, <2>8 DEF Open, Raised, Core, Frame
  <2>11. Parting(s)
    BY <1>9, <2>3, <2>4, <2>8, <2>10 DEF Parting, Raised, Frame, Still, Core, One
  <2>12. QED
    BY <1>6, <2>8, <2>9, <2>11 DEF Kept, Sound, Phase, Raised
<1>13. QED
  BY <1>2, <1>11, <1>12 DEF SessionOver
-----------------------------------------------------------------------------
(* The endpoint connects and waits.                                          *)

\* An endpoint that has nothing but perhaps a socket that is not connected.
Rests(z) ==
    /\ Fit(z) /\ NoSession(z) /\ Still(z) /\ ~z.peerGone /\ z.events = <<>>
    /\ z.usock \in {"IDLE", "STARTING"} /\ z.ep # "FREED"

\* nn_ctcp_start_waiting... the endpoint waits before it tries again.
LEMMA StartWaitingKept ==
  ASSUME NEW z, Rests(z) \/ Lost(z)
  PROVE  Kept(StartWaiting(z))
<1> DEFINE v == [z EXCEPT !.ep = "WAITING"]
           y == TimerStart(v, "RECONNECT_TIMER")
<1>0. StartWaiting(z) = y /\ "RECONNECT_TIMER" \in Timer
  BY DEF StartWaiting, Timer
<1>1. CASE Lost(z)
  <2>1. Lost(v)
    BY <1>1 DEF Lost, ConnectFields
  <2> HIDE DEF v
  <2>2. QED
    BY <1>0, <2>1, CallsStayLost DEF Kept
<1>2. CASE Rests(z)
  <2>1. /\ Core(z, v) /\ v.ep = "WAITING" /\ v.dns = z.dns /\ v.peerGone = z.peerGone
        /\ v.owner = z.owner /\ v.header = z.header /\ v.session = z.session /\ v.pipe = z.pipe
    BY <1>2 DEF Rests, Fit, ConnectTyped, Core, ConnectFields
  <2> HIDE DEF v
  <2>2. Fit(v)
    BY <1>2, <2>1, FitKept DEF Rests
  <2> HIDE DEF y
  <2>3. Lost(y) \/ Started(v, y, "RECONNECT_TIMER")
    BY <1>0, <2>1, <2>2, TimedBy DEF y
  <2>4. CASE Started(v, y, "RECONNECT_TIMER")
    <3>1. "RECONNECT_TIMER" \notin v.armed /\ y.armed = v.armed
      BY <1>0, <2>2, <2>4 DEF Fit, Timed, Started, Retimed
    <3>2. y.timer["TIMER"] = "IDLE"
      BY <1>2, <2>1, <2>4 DEF Started, Retimed, Timer, Rests, NoSession, Core
    <3>3. NoSession(y)
      BY <1>2, <2>1, <2>4, <3>2 DEF Started, Retimed, Frame, Rests, NoSession
    <3>4. Pausing(y)
      BY <1>2, <2>1, <2>4, <3>1, <3>3
      DEF Pausing, Started, Retimed, Frame, Gains, Rests, R, Settled, Core
    <3>5. QED
      BY <1>0, <2>4, <3>4 DEF Kept, Sound, Phase, Started, Retimed
  <2>5. QED
    BY <1>0, <2>3, <2>4 DEF Kept
<1>3. QED
  BY <1>1, <1>2

\* nn_usock_connect, once there is a socket.
Opened(z) ==
    /\ Fit(z) /\ NoSession(z) /\ Still(z) /\ ~z.peerGone /\ z.events = <<>>
    /\ z.tasks = <<>> /\ z.usock = "STARTING" /\ z.ep = "CONNECTING"
LEMMA UsockConnectKept ==
  ASSUME NEW z, Opened(z) \/ Lost(z), NEW r \in Result
  PROVE  Kept(UsockConnect(z, r))
<1>1. CASE Lost(z)
  <2>1. \A u : Lost([z EXCEPT !.usock = u])
    BY <1>1 DEF Lost, ConnectFields
  <2>2. \A x : Lost(x) => /\ \A e : Lost(Raise(x, e))
                          /\ \A f, w : Lost(Execute(x, f, w))
    BY StaysLost
  <2>3. \A u, type : Lost(UsockEvent([z EXCEPT !.usock = u], type))
    BY <2>1, <2>2 DEF UsockEvent
  <2>4. \A u, f, w : Lost(Execute([z EXCEPT !.usock = u], f, w))
    BY <2>1, <2>2
  <2>5. \A u, f, w, type : Lost(UsockEvent(Execute([z EXCEPT !.usock = u], f, w), type))
    BY <2>2, <2>4 DEF UsockEvent
  <2>6. QED
    BY <2>3, <2>4, <2>5 DEF UsockConnect, Result, Kept
<1>2. CASE Opened(z)
  <2>0. /\ DOMAIN z = ConnectFields /\ z.aborted = FALSE /\ "FD" \notin z.poll /\ z.owner = "ep"
        /\ z.ep # "FREED" /\ z.tasks = <<>> /\ z.events = <<>> /\ ~\E i \in DOMAIN z.tasks : TRUE
    BY <1>2 DEF Opened, Fit, ConnectTyped, Wired, NoSession
  <2>1. ASSUME NEW u \in {"ACTIVE", "CONNECTING"}, NEW w,
               \/ u = "ACTIVE" /\ w = "CONNECTED"
               \/ u = "CONNECTING" /\ w = "CONNECTING"
        PROVE  LET v == Execute([z EXCEPT !.usock = u], "usock", w)
               IN /\ Fit(v) /\ v.tasks = <<U(w)>> /\ v.events = <<>> /\ v.owner = "ep"
                  /\ v.usock = u /\ v.timer = z.timer /\ Frame(z, v)
                  /\ \A t : Has(v, t) <=> t = U(w)
    <3> DEFINE v == Execute([z EXCEPT !.usock = u], "usock", w)
               k == U(w)
    <3>0. k = U(w) /\ k = <<"usock", w>> /\ k \in ConnectTask
      BY <2>1, Names DEF U
    <3>1. /\ DOMAIN v = ConnectFields /\ v.aborted = FALSE /\ v.usock = u /\ v.events = <<>>
          /\ v.tasks = Append(<<>>, k) /\ Frame(z, v) /\ v.timer = z.timer /\ v.armed = z.armed
      BY <2>0, <3>0 DEF Execute, Frame, ConnectFields
    <3> HIDE DEF v, k
    <3>2. v.tasks = <<k>>
      BY <3>1
    <3>3. v.tasks \in Seq(ConnectTask) /\ Distinct(v.tasks) /\ Head(v.tasks) = k
          /\ \A t : Has(v, t) <=> t = k
      BY <3>0, <3>2, OneOnly DEF Has
    <3>4. ConnectTyped(v)
      BY <1>2, <2>0, <3>1, <3>3 DEF Opened, Fit, ConnectTyped, Frame, UsockState
    <3>5. Wired(v) /\ Timed(v)
      <4>1. \A a : U(a) = k => a = w
        BY <3>0, Names
      <4>2. v.poll = z.poll /\ Timed(z)
        BY <1>2, <3>1 DEF Frame, Opened, Fit
      <4>3. Wired(v)
        BY <2>0, <2>1, <3>1, <3>3, <4>1, <4>2 DEF Wired
      <4>4. QED
        BY <3>1, <4>2, <4>3 DEF Timed
    <3>6. Fit(v)
      BY <3>4, <3>5 DEF Fit
    <3>7. QED
      BY <2>0, <3>0, <3>1, <3>2, <3>3, <3>6 DEF v, Frame
  <2>2. CASE r = "done"
    <3> DEFINE v == Execute([z EXCEPT !.usock = "ACTIVE"], "usock", "CONNECTED")
               e == Ev("ep", "USOCK", "CONNECTED")
               y == Raise(v, e)
    <3>1. /\ Fit(v) /\ v.tasks = <<U("CONNECTED")>> /\ v.events = <<>> /\ v.owner = "ep"
          /\ v.usock = "ACTIVE" /\ v.timer = z.timer /\ Frame(z, v)
          /\ \A t : Has(v, t) <=> t = U("CONNECTED")
      BY <2>1
    <3>2. e \in ConnectEvent /\ e = Ev("ep", "USOCK", "CONNECTED")
      BY DEF ConnectEvent, Ev
    <3>3. UsockConnect(z, r) = y
      BY <2>2, <3>1 DEF UsockConnect, UsockEvent
    <3> HIDE DEF v, e, y
    <3>4. Raised(v, y, e) /\ y.events = <<e>>
      BY <3>1, <3>2, RaisedFirst DEF y
    <3>5. \A w \in {"RECV", "SEND"} : NoOp(y, w)
      BY <3>1, <3>4, Names DEF NoOp, Polls, Has, Raised
    <3>6. Connecting(y)
      BY <1>2, <3>1, <3>2, <3>4, <3>5
      DEF Connecting, NoSession, Still, Opened, Raised, Frame, One
    <3>7. QED
      BY <3>3, <3>4, <3>6 DEF Kept, Sound, Phase, Raised
  <2>3. CASE r = "again"
    <3> DEFINE y == Execute([z EXCEPT !.usock = "CONNECTING"], "usock", "CONNECTING")
    <3>1. /\ Fit(y) /\ y.tasks = <<U("CONNECTING")>> /\ y.events = <<>> /\ y.owner = "ep"
          /\ y.usock = "CONNECTING" /\ y.timer = z.timer /\ Frame(z, y)
          /\ \A t : Has(y, t) <=> t = U("CONNECTING")
      BY <2>1
    <3>2. UsockConnect(z, r) = y
      BY <2>3 DEF UsockConnect
    <3> HIDE DEF y
    <3>3. NoOp(y, "RECV") /\ ~Has(y, U("SEND")) /\ ~Has(y, U("CONNECTED"))
      BY <3>1, Names DEF NoOp, Polls
    <3>4. Connecting(y)
      BY <1>2, <3>1, <3>3 DEF Connecting, NoSession, Still, Opened, Frame, Settled
    <3>5. QED
      BY <3>1, <3>2, <3>4 DEF Kept, Sound, Phase
  <2>4. CASE r = "reset"
    <3> DEFINE v == [z EXCEPT !.usock = "DONE"]
               e == Ev("ep", "USOCK", "ERROR")
               y == Raise(v, e)
    <3>1. /\ DOMAIN v = ConnectFields /\ v.aborted = FALSE /\ v.usock = "DONE" /\ v.events = <<>>
          /\ v.tasks = z.tasks /\ Frame(z, v) /\ v.timer = z.timer /\ v.armed = z.armed
      BY <2>0 DEF Frame, ConnectFields
    <3>2. e \in ConnectEvent /\ e = Ev("ep", "USOCK", "ERROR")
      BY DEF ConnectEvent, Ev
    <3>3. UsockConnect(z, r) = y
      <4>1. v.owner = "ep"
        BY <2>0, <3>1 DEF Frame
      <4>2. QED
        BY <2>4, <4>1 DEF UsockConnect, UsockEvent
    <3> HIDE DEF v, e, y
    <3>4. ConnectTyped(v)
      BY <1>2, <2>0, <3>1 DEF Opened, Fit, ConnectTyped, Frame, UsockState
    <3>5. \A t : ~Has(v, t)
      BY <2>0, <3>1, NoTasks
    <3>6. Wired(v) /\ Timed(v)
      BY <1>2, <2>0, <3>1, <3>5 DEF Opened, Fit, Wired, Timed, Frame
    <3>7. Raised(v, y, e) /\ y.events = <<e>>
      BY <3>1, <3>2, <3>4, <3>6, RaisedFirst DEF y, Fit
    <3>8. Connecting(y)
      BY <1>2, <3>1, <3>2, <3>7 DEF Connecting, NoSession, Still, Opened, Raised, Frame, One
    <3>9. QED
      BY <3>3, <3>7, <3>8 DEF Kept, Sound, Phase, Raised
  <2>5. QED
    BY <2>2, <2>3, <2>4 DEF Result
<1>3. QED
  BY <1>1, <1>2
\* An endpoint that is to connect again, or for the first time.
Idles(z) == Rests(z) /\ z.tasks = <<>>

\* nn_dns_start.
LEMMA StartResolvingKept ==
  ASSUME NEW z, Idles(z), NEW found
  PROVE  Kept(StartResolving(z, found))
<1> DEFINE v == [z EXCEPT !.dns = "DONE", !.found = found, !.ep = "RESOLVING"]
           e == Ev("ep", "DNS", "DONE")
           y == Raise(v, e)
<1>1. StartResolving(z, found) = y
  BY DEF Idles, Rests, NoSession, StartResolving
<1>2. /\ Core(z, v) /\ v.ep = "RESOLVING" /\ v.dns = "DONE" /\ v.peerGone = z.peerGone
      /\ v.owner = z.owner /\ v.header = z.header /\ v.session = z.session /\ v.pipe = z.pipe
  BY DEF Idles, Rests, Fit, ConnectTyped, Core, NoSession, ConnectFields
<1>3. e \in ConnectEvent /\ e = Ev("ep", "DNS", "DONE")
  BY DEF ConnectEvent, Ev
<1> HIDE DEF v, e, y
<1>4. Fit(v) /\ v.events = <<>>
  BY <1>2, FitKept DEF Idles, Rests, Core
<1>5. Raised(v, y, e) /\ y.events = <<e>>
  BY <1>3, <1>4, RaisedFirst DEF y
<1>6. Resolving(y)
  BY <1>2, <1>3, <1>5
  DEF Resolving, Raised, Frame, Idles, Rests, NoSession, Still, Core, One
<1>7. QED
  BY <1>1, <1>5, <1>6 DEF Kept, Sound, Phase, Raised

\* A record in which only what no invariant is about differs, or a state.
LEMMA RestsKept ==
  ASSUME NEW z, Rests(z), NEW v, Core(z, v), v.owner = z.owner, v.header = z.header,
         v.session = z.session, v.pipe = z.pipe, v.dns = z.dns, v.peerGone = z.peerGone,
         v.ep # "FREED"
  PROVE  Rests(v) /\ (Idles(z) => Idles(v))
<1>1. Fit(v)
  BY FitKept DEF Rests
<1>2. Rests(v)
  BY <1>1 DEF Rests, NoSession, Still, Core
<1>3. QED
  BY <1>2 DEF Idles, Core

\* nn_usock_start.
LEMMA UsockStartIs ==
  ASSUME NEW z, Idles(z)
  PROVE  \/ Lost(UsockStart(z))
         \/ /\ Idles(UsockStart(z)) /\ UsockStart(z).usock = "STARTING"
            /\ DOMAIN UsockStart(z) = ConnectFields
<1> DEFINE v == [z EXCEPT !.usock = "STARTING"]
<1>1. CASE z.usock = "IDLE"
  <2>1. /\ DOMAIN v = ConnectFields /\ v.aborted = FALSE /\ v.usock = "STARTING"
        /\ v.events = z.events /\ v.tasks = z.tasks /\ Frame(z, v) /\ v.timer = z.timer
        /\ v.armed = z.armed
    BY DEF Idles, Rests, Fit, ConnectTyped, Frame, ConnectFields
  <2>2. UsockStart(z) = v
    BY <1>1 DEF UsockStart
  <2> HIDE DEF v
  <2>3. ConnectTyped(v)
    BY <2>1 DEF Idles, Rests, Fit, ConnectTyped, Frame, UsockState
  <2>4. \A t : ~Has(v, t)
    BY <2>1, NoTasks DEF Idles
  <2>5. Wired(v) /\ Timed(v)
    BY <1>1, <2>1, <2>4 DEF Idles, Rests, Fit, Wired, Timed, Frame
  <2>6. Idles(v)
    BY <2>1, <2>3, <2>5 DEF Idles, Rests, Fit, NoSession, Still, Frame
  <2>7. QED
    BY <2>1, <2>2, <2>6
<1>2. CASE z.usock # "IDLE"
  BY <1>2, AbortKept DEF UsockStart, Idles, Rests
<1>3. QED
  BY <1>1, <1>2

\* nn_cipc_start_connecting and nn_ctcp_start_connecting.
LEMMA StartConnectingKept ==
  ASSUME NEW z, Idles(z), NEW y \in CtcpStartConnecting(z)
  PROVE  Kept(y)
<1>1. Kept(StartWaiting(z))
  BY StartWaitingKept DEF Idles
<1>2. Kept(StartWaiting(UsockStart(Odd(z, "bind"))))
  <2> DEFINE v == Odd(z, "bind")
  <2>1. /\ Core(z, v) /\ v.ep = z.ep /\ v.dns = z.dns /\ v.peerGone = z.peerGone
        /\ v.owner = z.owner /\ v.header = z.header /\ v.session = z.session /\ v.pipe = z.pipe
    BY DEF Idles, Rests, Fit, ConnectTyped, Core, NoSession, ConnectFields, Odd
  <2> HIDE DEF v
  <2>2. Idles(v)
    BY <2>1, RestsKept DEF Idles, Rests
  <2>3. Lost(UsockStart(v)) \/ Idles(UsockStart(v))
    BY <2>2, UsockStartIs
  <2>4. QED
    BY <2>3, StartWaitingKept DEF v, Idles
<1>3. ASSUME NEW r \in Result
      PROVE  Kept(UsockConnect([UsockStart(z) EXCEPT !.ep = "CONNECTING"], r))
  <2> DEFINE u == UsockStart(z)
             v == [u EXCEPT !.ep = "CONNECTING"]
  <2>1. \/ Lost(u)
        \/ Idles(u) /\ u.usock = "STARTING" /\ DOMAIN u = ConnectFields
    BY UsockStartIs
  <2> HIDE DEF u
  <2>2. CASE Lost(u)
    <3>1. Lost(v)
      BY <2>2 DEF Lost, ConnectFields
    <3>2. QED
      BY <3>1, UsockConnectKept DEF u
  <2>3. CASE Idles(u) /\ u.usock = "STARTING" /\ DOMAIN u = ConnectFields
    <3>1. /\ Core(u, v) /\ v.ep = "CONNECTING" /\ v.dns = u.dns /\ v.peerGone = u.peerGone
          /\ v.owner = u.owner /\ v.header = u.header /\ v.session = u.session /\ v.pipe = u.pipe
      BY <2>3 DEF Idles, Rests, Fit, ConnectTyped, Core, NoSession, ConnectFields
    <3> HIDE DEF v
    <3>2. Idles(v)
      BY <2>3, <3>1, RestsKept DEF Idles
    <3>3. Opened(v)
      BY <2>3, <3>1, <3>2 DEF Opened, Idles, Rests, Core
    <3>4. QED
      BY <3>3, UsockConnectKept DEF u, v
  <2>4. QED
    BY <2>1, <2>2, <2>3
<1>4. QED
  BY <1>1, <1>2, <1>3 DEF CtcpStartConnecting, CipcStartConnecting

\* The name was looked up.
LEMMA ResolvedKept ==
  ASSUME NEW x, Sound(x), x.events # <<>>, Head(x.events) = Ev("ep", "DNS", "DONE"),
         x.ep = "RESOLVING"
  PROVE  Kept(DnsStop([Off(x) EXCEPT !.ep = "STOPPING_DNS"]))
<1> DEFINE z == [Off(x) EXCEPT !.ep = "STOPPING_DNS"]
           v == [z EXCEPT !.dns = "IDLE"]
           e == Ev("ep", "DNS", "STOPPED")
           y == Raise(v, e)
<1>0. e \in ConnectEvent /\ e = Ev("ep", "DNS", "STOPPED")
  BY DEF ConnectEvent, Ev
<1>1. Taken(x, Off(x))
  BY TakenBy
<1>2. Resolving(x) /\ x.dns = "DONE"
  <2>1. Resolving(x)
    BY EpPhase, EvIs DEF Connecting, Pausing, Disconnecting, Finishing, InSession, Parting, Quitting
  <2>2. QED
    BY <2>1 DEF Resolving
<1>3. Off(x).events = <<>>
  BY <1>1, <1>2 DEF Resolving, One, Taken
<1>4. /\ Core(Off(x), v) /\ v.ep = "STOPPING_DNS" /\ v.dns = "IDLE" /\ v.peerGone = x.peerGone
      /\ v.owner = x.owner /\ v.header = x.header /\ v.session = x.session /\ v.pipe = x.pipe
      /\ z.dns = "DONE" /\ v.tasks = x.tasks /\ v.timer = x.timer /\ v.usock = x.usock
  BY <1>1, <1>2 DEF Taken, Frame, Fit, ConnectTyped, Core, ConnectFields
<1>5. DnsStop(z) = y
  BY <1>4 DEF DnsStop
<1> HIDE DEF z, v, e, y
<1>6. Fit(v) /\ v.events = <<>>
  BY <1>1, <1>3, <1>4, FitKept DEF Taken, Core
<1>7. Raised(v, y, e) /\ y.events = <<e>>
  BY <1>0, <1>6, RaisedFirst DEF y
<1>8. Resolving(y)
  BY <1>0, <1>2, <1>4, <1>7 DEF Resolving, Raised, Frame, Still, One
<1>9. QED
  BY <1>5, <1>7, <1>8 DEF Kept, Sound, Phase, Raised, z
\* The resolver has stopped: the endpoint connects, or waits when nothing was found.
LEMMA DnsStoppedIdles ==
  ASSUME NEW x, Sound(x), x.events # <<>>, Head(x.events) = Ev("ep", "DNS", "STOPPED"),
         x.ep = "STOPPING_DNS"
  PROVE  Idles(Off(x))
<1>1. Taken(x, Off(x))
  BY TakenBy
<1>2. Resolving(x)
  BY EpPhase, EvIs DEF Connecting, Pausing, Disconnecting, Finishing, InSession, Parting, Quitting
<1>3. QED
  BY <1>1, <1>2 DEF Resolving, One, Taken, Frame, Idles, Rests, NoSession, Still

\* The timer has stopped: the endpoint tries again.
LEMMA RetryIdles ==
  ASSUME NEW x, Sound(x), x.events # <<>>, Head(x.events) = Ev("ep", "RECONNECT_TIMER", "STOPPED"),
         x.ep = "STOPPING_BACKOFF"
  PROVE  Idles(Off(x))
<1>1. Taken(x, Off(x))
  BY TakenBy
<1>2. Pausing(x)
  BY EpPhase, EvIs DEF Resolving, Connecting, Disconnecting, Finishing, InSession, Parting, Quitting
<1>3. QED
  BY <1>1, <1>2 DEF Pausing, Settled, One, Taken, Frame, Idles, Rests, NoSession, Still

\* The endpoint has waited long enough.
LEMMA WaitedKept ==
  ASSUME NEW x, Sound(x), x.events # <<>>, Head(x.events) = Ev("ep", "RECONNECT_TIMER", "TIMEOUT"),
         x.ep = "WAITING"
  PROVE  Kept(TimerStop([Off(x) EXCEPT !.ep = "STOPPING_BACKOFF"], "RECONNECT_TIMER"))
<1> DEFINE z == [Off(x) EXCEPT !.ep = "STOPPING_BACKOFF"]
           y == TimerStop(z, "RECONNECT_TIMER")
<1>0. "RECONNECT_TIMER" \in Timer /\ "TIMER" \in Timer \ {"RECONNECT_TIMER"}
  BY DEF Timer
<1>1. Taken(x, Off(x))
  BY TakenBy
<1>2. Pausing(x)
  BY EpPhase, EvIs DEF Resolving, Connecting, Disconnecting, Finishing, InSession, Parting, Quitting
<1>3. x.tasks = <<>> /\ Off(x).events = <<>> /\ x.timer["RECONNECT_TIMER"] = "ACTIVE"
  BY <1>1, <1>2 DEF Pausing, One, Taken, Settled
<1>4. /\ Core(Off(x), z) /\ z.ep = "STOPPING_BACKOFF" /\ z.dns = x.dns /\ z.peerGone = x.peerGone
      /\ z.owner = x.owner /\ z.header = x.header /\ z.session = x.session /\ z.pipe = x.pipe
      /\ z.tasks = <<>> /\ z.timer = x.timer /\ z.usock = x.usock /\ z.events = <<>>
  BY <1>1, <1>2, <1>3 DEF Taken, Frame, Fit, ConnectTyped, Core, ConnectFields
<1> HIDE DEF z, y
<1>5. Fit(z)
  BY <1>1, <1>4, FitKept DEF Taken
<1>6. Lost(y) \/ Halted(z, y, "RECONNECT_TIMER")
  BY <1>0, <1>4, <1>5, TimedBy DEF y
<1>7. CASE Halted(z, y, "RECONNECT_TIMER")
  <2>1. Retimed(z, y, "RECONNECT_TIMER", "STOPPING", "STOP")
    BY <1>3, <1>4, <1>7 DEF Halted
  <2>2. y.timer["TIMER"] = x.timer["TIMER"]
    BY <1>0, <1>4, <2>1 DEF Retimed
  <2>3. Pausing(y)
    BY <1>2, <1>4, <2>1, <2>2 DEF Pausing, NoSession, Retimed, Frame, Gains, R, Settled
  <2>4. QED
    BY <2>1, <2>3 DEF Kept, Sound, Phase, Retimed, y, z
<1>8. QED
  BY <1>6, <1>7 DEF Kept, y, z

\* The connection that failed, or whose session has ended, is closed.
LEMMA UsockStoppingKept ==
  ASSUME NEW z, Fit(z), NoSession(z), Still(z), z.ep = "STOPPING_USOCK", z.events = <<>>,
         \/ z.usock = "ACTIVE"
         \/ z.usock = "REMOVING_FD" /\ Ends(z.tasks, U("STOP"))
         \/ z.usock = "DONE" /\ (z.peerGone => z.tasks = <<>>)
  PROVE  Kept(UsockStop(z))
<1> DEFINE y == UsockStop(z)
<1> HIDE DEF y
<1>1. Lost(y) \/ Shut(z, y)
  BY ShutBy DEF y
<1>2. CASE Shut(z, y)
  <2>1. NoSession(y) /\ Still(y) /\ y.ep = "STOPPING_USOCK" /\ Fit(y) /\ z.owner = "ep"
    BY <1>2 DEF Shut, Frame, NoSession, Still
  <2>2. Disconnecting(y)
    BY <1>2, <2>1 DEF Disconnecting, Shut, Frame, Gains, Hears, UsockStops, Settled, One
  <2>3. QED
    BY <2>1, <2>2 DEF Kept, Sound, Phase, y
<1>3. QED
  BY <1>1, <1>2 DEF Kept, y

\* nn_ctcp_handler: the connect() failed.
LEMMA ConnectErrorKept ==
  ASSUME NEW x, Sound(x), x.events # <<>>, Head(x.events) = Ev("ep", "USOCK", "ERROR"),
         x.ep = "CONNECTING"
  PROVE  Kept(UsockStop([Off(x) EXCEPT !.ep = "STOPPING_USOCK"]))
<1> DEFINE z == [Off(x) EXCEPT !.ep = "STOPPING_USOCK"]
<1>1. Taken(x, Off(x))
  BY TakenBy
<1>2. Connecting(x)
  BY EpPhase, EvIs DEF Resolving, Pausing, Disconnecting, Finishing, InSession, Parting, Quitting
<1>3. x.usock = "DONE" /\ Off(x).events = <<>> /\ ~x.peerGone
  BY <1>1, <1>2, OneIs, EvIs DEF Connecting, Settled, Taken
<1>4. /\ Core(Off(x), z) /\ z.ep = "STOPPING_USOCK" /\ z.dns = x.dns /\ z.peerGone = x.peerGone
      /\ z.owner = x.owner /\ z.header = x.header /\ z.session = x.session /\ z.pipe = x.pipe
      /\ z.timer = x.timer /\ z.usock = x.usock /\ z.events = <<>>
  BY <1>1, <1>2, <1>3 DEF Taken, Frame, Fit, ConnectTyped, Core, ConnectFields
<1> HIDE DEF z
<1>5. Fit(z)
  BY <1>1, <1>4, FitKept DEF Taken
<1>6. NoSession(z) /\ Still(z)
  BY <1>2, <1>4 DEF Connecting, NoSession, Still
<1>7. QED
  BY <1>3, <1>4, <1>5, <1>6, UsockStoppingKept DEF z

\* nn_ctcp_handler: the session has stopped.
LEMMA SessionStoppedKept ==
  ASSUME NEW x, Sound(x), x.events # <<>>, Head(x.events) = Ev("ep", "SESSION", "STOPPED"),
         x.ep = "STOPPING_SESSION"
  PROVE  Kept(UsockStop([Off(x) EXCEPT !.ep = "STOPPING_USOCK"]))
<1> DEFINE z == [Off(x) EXCEPT !.ep = "STOPPING_USOCK"]
<1>1. Taken(x, Off(x))
  BY TakenBy
<1>2. Parting(x) /\ NoSession(x) /\ One(x, "ep", "SESSION", "STOPPED")
  BY EpPhase, EvIs DEF Resolving, Connecting, Pausing, Disconnecting, Finishing, InSession, Quitting
<1>3. Off(x).events = <<>> /\ Open(x, x.peerGone => x.tasks = <<>>) /\ Still(x)
  BY <1>1, <1>2 DEF Parting, One, Taken
<1>4. /\ Core(Off(x), z) /\ z.ep = "STOPPING_USOCK" /\ z.dns = x.dns /\ z.peerGone = x.peerGone
      /\ z.owner = x.owner /\ z.header = x.header /\ z.session = x.session /\ z.pipe = x.pipe
      /\ z.timer = x.timer /\ z.usock = x.usock /\ z.events = <<>> /\ z.tasks = x.tasks
  BY <1>1, <1>2, <1>3 DEF Taken, Frame, Fit, ConnectTyped, Core, ConnectFields
<1> HIDE DEF z
<1>5. Fit(z)
  BY <1>1, <1>4, FitKept DEF Taken
<1>6. NoSession(z) /\ Still(z)
  BY <1>2, <1>3, <1>4 DEF NoSession, Still
<1>7. QED
  BY <1>3, <1>4, <1>5, <1>6, UsockStoppingKept DEF z, Open

\* nn_ctcp_handler: the usock is being closed, and is closed.
LEMMA UsockStoppedKept ==
  ASSUME NEW x, Sound(x), x.events # <<>>, x.ep = "STOPPING_USOCK"
  PROVE  /\ Head(x.events) = Ev("ep", "USOCK", "SHUTDOWN") => Kept(Off(x))
         /\ Head(x.events) = Ev("ep", "USOCK", "STOPPED") =>
               Kept(IF x.peerGone THEN Off(x) ELSE StartWaiting(Off(x)))
<1> DEFINE z == Off(x)
<1>1. Taken(x, z)
  BY TakenBy
<1> HIDE DEF z
<1>2. CASE Head(x.events) = Ev("ep", "USOCK", "SHUTDOWN")
  <2>1. Disconnecting(x)
    BY <1>2, EpPhase, EvIs
    DEF Resolving, Connecting, Pausing, Finishing, InSession, Parting, Quitting
  <2>2. x.usock = "STOPPING" /\ Ends(x.tasks, U("STOP")) /\ z.events = <<>>
    BY <1>1, <1>2, <2>1, OneIs, EvIs DEF Disconnecting, UsockStops, Settled, Taken, One
  <2>3. Disconnecting(z)
    BY <1>1, <2>1, <2>2 DEF Disconnecting, UsockStops, Settled, Taken, Frame, NoSession, Still
  <2>4. QED
    BY <1>1, <1>2, <2>3, EvIs DEF Kept, Sound, Phase, Taken, z
<1>3. CASE Head(x.events) = Ev("ep", "USOCK", "STOPPED")
  <2>1. Disconnecting(x)
    BY <1>3, EpPhase, EvIs
    DEF Resolving, Connecting, Pausing, Finishing, InSession, Parting, Quitting
  <2>2. x.usock = "IDLE" /\ (x.peerGone => x.tasks = <<>>) /\ z.events = <<>>
    BY <1>1, <1>3, <2>1, OneIs, EvIs DEF Disconnecting, UsockStops, Settled, Taken, One
  <2>3. CASE x.peerGone
    <3>1. Disconnecting(z)
      BY <1>1, <2>1, <2>2, <2>3 DEF Disconnecting, Settled, Taken, Frame, NoSession, Still
    <3>2. QED
      BY <1>1, <1>3, <2>3, <3>1, EvIs DEF Kept, Sound, Phase, Taken, z
  <2>4. CASE ~x.peerGone
    <3>1. Rests(z)
      BY <1>1, <2>1, <2>2, <2>4 DEF Disconnecting, Rests, Taken, Frame, NoSession, Still
    <3>2. QED
      BY <1>3, <2>4, <3>1, StartWaitingKept, EvIs DEF z
  <2>5. QED
    BY <2>3, <2>4
<1>4. QED
  BY <1>2, <1>3
\* nn_usock_swap_owner, and an assertion that has failed before.
LEMMA TakeLost ==
  ASSUME NEW x, Lost(x), NEW s, NEW r \in Result
  PROVE  /\ Lost(Take(x, s))
         /\ Lost(HeaderStart(x, r))
<1>1. \A z, o : Lost(z) => Lost(Take(z, o))
  BY DEF Lost, Take, Abort, ConnectFields
<1> DEFINE v == [x EXCEPT !.header = "SENDING", !.reads = 0]
<1>2. Lost(v)
  BY DEF Lost, ConnectFields
<1> HIDE DEF v
<1>3. Lost(Take(v, "header"))
  BY <1>1, <1>2
<1>4. "TIMER" \in Timer
  BY DEF Timer
<1>5. Lost(TimerStart(Take(v, "header"), "TIMER"))
  BY <1>3, <1>4, CallsStayLost
<1>6. Lost(UsockSend(TimerStart(Take(v, "header"), "TIMER"), r))
  BY <1>5, CallsStayLost
<1>7. QED
  BY <1>1, <1>6 DEF HeaderStart, v

\* nn_streamhdr_start of a session that has just started.
LEMMA HeaderStartKept ==
  ASSUME NEW z, Fit(z), InActive(z), z.session = "PROTOHDR", z.owner = "session",
         z.pipe = "IDLE", z.events = <<>>, z.usock = "ACTIVE",
         \A v \in {"RECV", "SEND"} : NoOp(z, v), NEW r \in Result
  PROVE  Kept(HeaderStart(z, r))
<1> DEFINE w == [z EXCEPT !.header = "SENDING", !.reads = 0]
           k == Take(w, "header")
           t == TimerStart(k, "TIMER")
           y == UsockSend(t, r)
<1>0. HeaderStart(z, r) = y /\ "TIMER" \in Timer /\ "RECONNECT_TIMER" \in Timer \ {"TIMER"}
  BY DEF HeaderStart, Timer
<1>1. /\ Core(z, w) /\ w.header = "SENDING" /\ w.ep = z.ep /\ w.dns = z.dns
      /\ w.peerGone = z.peerGone /\ w.owner = z.owner /\ w.session = z.session
      /\ w.pipe = z.pipe /\ w.saved = z.saved
  BY DEF Fit, ConnectTyped, Core, ConnectFields
<1> HIDE DEF w, k, t, y
<1>2. Fit(w) /\ w.ep = "ACTIVE"
  BY <1>1, FitKept DEF InActive
<1>3. \/ Lost(k)
      \/ /\ Core(w, k) /\ k.owner = "header" /\ k.saved["header"] = "session"
         /\ k.saved["session"] = "ep" /\ k.header = "SENDING" /\ k.ep = w.ep /\ k.dns = w.dns
         /\ k.peerGone = w.peerGone /\ k.session = w.session /\ k.pipe = w.pipe
  <2>1. CASE w.saved["header"] = NULL
    BY <1>1, <1>2, <2>1 DEF Take, k, Fit, ConnectTyped, Core, ConnectFields, InActive
  <2>2. CASE w.saved["header"] # NULL
    BY <1>2, <2>2, AbortKept DEF Take, k
  <2>3. QED
    BY <2>1, <2>2
<1>4. CASE Lost(k)
  <2>1. Lost(t)
    BY <1>0, <1>4, CallsStayLost DEF t
  <2>2. Lost(y)
    BY <2>1, CallsStayLost DEF y
  <2>3. QED
    BY <1>0, <2>2 DEF Kept
<1>5. CASE /\ Core(w, k) /\ k.owner = "header" /\ k.saved["header"] = "session"
           /\ k.saved["session"] = "ep" /\ k.header = "SENDING" /\ k.ep = w.ep /\ k.dns = w.dns
           /\ k.peerGone = w.peerGone /\ k.session = w.session /\ k.pipe = w.pipe
  <2>1. Fit(k) /\ k.ep # "FREED"
    BY <1>2, <1>5, FitKept
  <2>2. Lost(t) \/ Started(k, t, "TIMER")
    BY <1>0, <2>1, TimedBy DEF t
  <2>3. CASE Lost(t)
    BY <1>0, <2>3, CallsStayLost DEF Kept, y
  <2>4. CASE Started(k, t, "TIMER")
    <3>1. /\ Fit(t) /\ Frame(k, t) /\ t.timer["TIMER"] = "ACTIVE"
          /\ t.timer["RECONNECT_TIMER"] = z.timer["RECONNECT_TIMER"]
          /\ t.usock = "ACTIVE" /\ t.events = <<>> /\ Gains(k, t, <<"TIMER", "START">>)
      BY <1>0, <1>1, <1>5, <2>4 DEF Started, Retimed, Core
    <3>2. \A v \in {"RECV", "SEND"} : NoOp(t, v)
      <4>1. \A v : U(v) # <<"TIMER", "START">>
        BY DEF U
      <4>2. k.tasks = z.tasks /\ k.poll = z.poll
        BY <1>1, <1>5 DEF Core
      <4>3. \A v \in {"RECV", "SEND"} : NoOp(k, v)
        BY <4>2, OpsKept
      <4>4. \A u : Has(t, U(u)) <=> Has(k, U(u))
        BY <3>1, <4>1 DEF Gains
      <4>5. QED
        BY <3>1, <4>3, <4>4 DEF NoOp, Polls, Frame
    <3>3. Lost(y) \/ Used(t, y, "SEND", "SENT")
      BY <1>1, <1>2, <1>5, <3>1, UsedBy DEF y, Frame
    <3>4. CASE Used(t, y, "SEND", "SENT")
      <4>1. Talks(y, "SEND", "SENT")
        BY <1>5, <3>1, <3>2, <3>4, UsedTalks DEF Frame
      <4>2. Greeting(y)
        BY <1>1, <1>5, <3>1, <3>4, <4>1 DEF Greeting, Used, Frame
      <4>3. InSession(y)
        BY <1>1, <1>5, <3>1, <3>4, <4>2 DEF InSession, InActive, Still, Used, Frame
      <4>4. QED
        BY <1>0, <3>4, <4>3 DEF Kept, Sound, Phase, Used
    <3>5. QED
      BY <1>0, <3>3, <3>4 DEF Kept
  <2>5. QED
    BY <2>2, <2>3, <2>4
<1>6. QED
  BY <1>3, <1>4, <1>5

\* The endpoint lets the session start.
Admits(x, r) == SessionStart([x EXCEPT !.ep = "ACTIVE", !.peerGone = FALSE], r)

\* nn_ctcp_handler: the connection is up, and the session starts.
LEMMA ConnectedKept ==
  ASSUME NEW x, Sound(x), x.events # <<>>, Head(x.events) = Ev("ep", "USOCK", "CONNECTED"),
         x.ep = "CONNECTING", NEW r \in Result
  PROVE  Kept(Admits(Off(x), r))
<1> DEFINE z == [Off(x) EXCEPT !.ep = "ACTIVE", !.peerGone = FALSE]
           w == [z EXCEPT !.session = "PROTOHDR"]
           k == Take(w, "session")
<1>1. Taken(x, Off(x))
  BY TakenBy
<1>2. Connecting(x)
  BY EpPhase, EvIs DEF Resolving, Pausing, Disconnecting, Finishing, InSession, Parting, Quitting
<1>3. /\ x.usock = "ACTIVE" /\ Off(x).events = <<>> /\ \A v \in {"RECV", "SEND"} : NoOp(x, v)
      /\ NoSession(x) /\ Still(x)
  BY <1>1, <1>2, OneIs, EvIs DEF Connecting, Settled, Taken
<1>4. /\ Core(Off(x), w) /\ w.ep = "ACTIVE" /\ w.dns = x.dns /\ w.peerGone = FALSE
      /\ w.owner = x.owner /\ w.header = x.header /\ w.session = "PROTOHDR" /\ w.pipe = x.pipe
      /\ w.timer = x.timer /\ w.usock = x.usock /\ w.events = <<>> /\ w.tasks = x.tasks
      /\ w.poll = x.poll
  BY <1>1, <1>2, <1>3 DEF Taken, Frame, Fit, ConnectTyped, Core, ConnectFields
<1>5. SessionStart(z, r) = HeaderStart(k, r)
  BY DEF SessionStart
<1> HIDE DEF z, w, k
<1>6. Fit(w)
  BY <1>1, <1>4, FitKept DEF Taken
<1>7. CASE w.saved["session"] # NULL
  <2>1. Lost(k)
    BY <1>4, <1>6, <1>7, AbortKept DEF Take, k
  <2>2. QED
    BY <1>5, <2>1, TakeLost DEF Kept, Admits, z
<1>8. CASE w.saved["session"] = NULL
  <2>1. /\ Core(w, k) /\ k.owner = "session" /\ k.saved["session"] = "ep" /\ k.ep = w.ep
        /\ k.dns = w.dns /\ k.peerGone = w.peerGone /\ k.session = w.session /\ k.pipe = w.pipe
        /\ k.header = w.header
    BY <1>3, <1>4, <1>6, <1>8 DEF Take, k, Fit, ConnectTyped, Core, ConnectFields, NoSession
  <2>2. Fit(k)
    BY <1>6, <2>1, FitKept
  <2>3. \A v \in {"RECV", "SEND"} : NoOp(k, v)
    <3>1. k.tasks = x.tasks /\ k.poll = x.poll
      BY <1>4, <2>1 DEF Core
    <3>2. QED
      BY <1>3, <3>1, OpsKept
  <2>4. InActive(k)
    BY <1>3, <1>4, <2>1 DEF InActive, Still, NoSession, Core
  <2>5. Kept(HeaderStart(k, r))
    BY <1>3, <1>4, <2>1, <2>2, <2>3, <2>4, HeaderStartKept DEF NoSession, Core
  <2>6. QED
    BY <1>5, <2>5 DEF Admits, z
<1>9. QED
  BY <1>7, <1>8
-----------------------------------------------------------------------------
(* The endpoint is stopped.                                                  *)

\* An endpoint of which nothing is left but itself.
Bare(z) ==
    /\ Fit(z) /\ NoSession(z) /\ Still(z) /\ z.usock = "IDLE" /\ z.tasks = <<>>
    /\ z.events = <<>>

\* nn_ctcp_shutdown, the last part: everything has stopped, or not yet.
LEMMA PartsKept ==
  ASSUME NEW z, z.ep = "STOPPING", Bare(z) \/ (Fit(z) /\ Finishing(z))
  PROVE  Kept(FinishParts(z, TRUE))
<1>1. CASE Fit(z) /\ Finishing(z)
  <2>1. ~(TimerIdle(z, "RECONNECT_TIMER") /\ UsockIdle(z))
    <3>1. CASE z.usock = "STOPPING"
      BY <3>1 DEF UsockIdle, FsmIdle
    <3>2. CASE z.timer["RECONNECT_TIMER"] = "STOPPING"
      BY <3>2 DEF TimerIdle, FsmIdle
    <3>3. CASE One(z, "ep", "USOCK", "STOPPED")
      BY <3>3, EvIs DEF UsockIdle, FsmIdle, One
    <3>4. CASE One(z, "ep", "RECONNECT_TIMER", "STOPPED")
      BY <3>4, EvIs DEF TimerIdle, FsmIdle, One
    <3>5. QED
      BY <1>1, <3>1, <3>2, <3>3, <3>4 DEF Finishing, UsockStops
  <2>2. FinishParts(z, TRUE) = z
    BY <2>1 DEF FinishParts
  <2>3. QED
    BY <1>1, <2>2 DEF Kept, Sound, Phase
<1>2. CASE Bare(z)
  <2> DEFINE v == [z EXCEPT !.ep = "IDLE"]
             e == Ev("sock", "EP", "STOPPED")
             y == Raise(v, e)
  <2>1. FinishParts(z, TRUE) = y
    BY <1>2 DEF Bare, Still, FinishParts, TimerIdle, UsockIdle, FsmIdle
  <2>2. e \in ConnectEvent /\ e = Ev("sock", "EP", "STOPPED")
    BY DEF ConnectEvent, Ev
  <2>3. /\ Core(z, v) /\ v.ep = "IDLE" /\ v.dns = z.dns /\ v.peerGone = z.peerGone
        /\ v.owner = z.owner /\ v.header = z.header /\ v.session = z.session /\ v.pipe = z.pipe
    BY <1>2 DEF Bare, Fit, ConnectTyped, Core, ConnectFields
  <2> HIDE DEF v, e, y
  <2>4. Fit(v) /\ v.events = <<>>
    BY <1>2, <2>3, FitKept DEF Bare, Core
  <2>5. Raised(v, y, e) /\ y.events = <<e>>
    BY <2>2, <2>4, RaisedFirst DEF y
  <2>6. Over(y)
    BY <1>2, <2>2, <2>3, <2>5 DEF Over, Bare, NoSession, Still, Raised, Frame, Core, One
  <2>7. QED
    BY <2>1, <2>5, <2>6 DEF Kept, Sound, Phase, Raised
<1>3. QED
  BY <1>1, <1>2

\* An endpoint without session that is to stop its usock and its timer.
Stoppable(z) ==
    \/ Still(z) /\ z.usock \in {"CONNECTING", "ACTIVE"}
    \/ Still(z) /\ z.usock \in {"REMOVING_FD", "STOPPING"} /\ Ends(z.tasks, U("STOP"))
    \/ /\ z.usock \in {"IDLE", "STARTING"}
       /\ \/ z.timer["RECONNECT_TIMER"] = "ACTIVE"
          \/ z.timer["RECONNECT_TIMER"] = "STOPPING" /\ Ends(z.tasks, R("STOP"))
    \/ Still(z) /\ z.usock \in {"IDLE", "STARTING", "DONE"} /\ z.tasks = <<>>

\* Its usock and its timer are stopped.
LEMMA PartsStop ==
  ASSUME NEW z, Fit(z), NoSession(z), z.ep = "STOPPING", z.events = <<>>, Stoppable(z)
  PROVE  LET y == UsockStop(TimerStop(z, "RECONNECT_TIMER"))
         IN Lost(y) \/ (y.ep = "STOPPING" /\ (Bare(y) \/ (Fit(y) /\ Finishing(y))))
<1> DEFINE t == TimerStop(z, "RECONNECT_TIMER")
           y == UsockStop(t)
<1>0. "RECONNECT_TIMER" \in Timer /\ "TIMER" \in Timer \ {"RECONNECT_TIMER"}
      /\ DOMAIN z = ConnectFields /\ DOMAIN z.timer = Timer /\ z.usock \in UsockState
  BY DEF Timer, Fit, ConnectTyped
<1>1. t.usock = z.usock
  BY <1>0, TimerStopLeaves
<1> HIDE DEF t, y
<1>2. Lost(t) \/ Halted(z, t, "RECONNECT_TIMER")
  BY <1>0, TimedBy DEF t
<1>3. CASE Lost(t)
  BY <1>0, <1>1, <1>3, CallsStayLost DEF y, t
<1>4. CASE Retimed(z, t, "RECONNECT_TIMER", "STOPPING", "STOP")
           /\ z.timer["RECONNECT_TIMER"] = "ACTIVE"
  <2>1. /\ Fit(t) /\ NoSession(t) /\ t.ep = "STOPPING" /\ t.events = <<>>
        /\ Ends(t.tasks, R("STOP")) /\ t.timer["RECONNECT_TIMER"] = "STOPPING"
        /\ t.usock \in {"IDLE", "STARTING"}
    BY <1>0, <1>1, <1>4 DEF Retimed, Gains, Frame, NoSession, Stoppable, Still, R
  <2>2. Lost(y) \/ Shut(t, y)
    BY <2>1, ShutBy DEF y
  <2>3. CASE Shut(t, y)
    <3>1. NoSession(y) /\ y.ep = "STOPPING" /\ t.owner = "ep"
      BY <2>1, <2>3 DEF Shut, Frame, NoSession
    <3>2. Finishing(y)
      BY <2>1, <2>3, <3>1 DEF Shut, Finishing, Hears, One, Settled
    <3>3. QED
      BY <2>3, <3>1, <3>2 DEF Shut, y, t
  <2>4. QED
    BY <2>2, <2>3 DEF y, t
<1>5. CASE t = z /\ z.timer["RECONNECT_TIMER"] # "ACTIVE"
  <2>1. Lost(y) \/ Shut(z, y)
    BY <1>5, ShutBy DEF y
  <2>2. CASE Shut(z, y)
    <3>1. NoSession(y) /\ y.ep = "STOPPING" /\ z.owner = "ep" /\ Fit(y)
          /\ y.timer = z.timer
      BY <2>2 DEF Shut, Frame, NoSession
    <3>2. Bare(y) \/ Finishing(y)
      BY <1>5, <2>2, <3>1
      DEF Shut, Stoppable, Bare, Finishing, Hears, Gains, One, Settled, Still, UsockStops
    <3>3. QED
      BY <3>1, <3>2 DEF y, t
  <2>3. QED
    BY <2>1, <2>2 DEF y, t
<1>6. QED
  BY <1>2, <1>3, <1>4, <1>5 DEF Halted

\* An assertion that has failed before, while the endpoint stops.
LEMMA FinishLost ==
  ASSUME NEW z, Lost(z), NEW b
  PROVE  Lost(FinishParts(z, b)) /\ Lost(DnsStop(z))
<1>1. Lost([z EXCEPT !.ep = "IDLE"]) /\ Lost([z EXCEPT !.dns = "IDLE"])
  BY DEF Lost, ConnectFields
<1>2. \A x, e : Lost(x) => Lost(Raise(x, e))
  BY StaysLost
<1>3. QED
  BY <1>1, <1>2 DEF FinishParts, DnsStop

\* nn_ctcp_shutdown, when there is no session.
LEMMA EpFinishKept ==
  ASSUME NEW z, Fit(z), NoSession(z), z.events = <<>>, Stoppable(z),
         z.ep = "STOPPING_SESSION_FINAL"
  PROVE  Kept(EpFinish(z))
<1> DEFINE v == [z EXCEPT !.ep = "STOPPING"]
           y == UsockStop(TimerStop(v, "RECONNECT_TIMER"))
<1>1. /\ Core(z, v) /\ v.ep = "STOPPING" /\ v.dns = z.dns /\ v.peerGone = z.peerGone
      /\ v.owner = z.owner /\ v.header = z.header /\ v.session = z.session /\ v.pipe = z.pipe
  BY DEF Fit, ConnectTyped, Core, ConnectFields
<1>2. FinishSession(z) = y
  BY DEF FinishSession, SessionIdle, FsmIdle, NoSession
<1>3. SessionIdle(z)
  BY DEF SessionIdle, FsmIdle, NoSession
<1> HIDE DEF v
<1>4. Fit(v) /\ NoSession(v) /\ v.events = <<>> /\ Stoppable(v)
  BY <1>1, FitKept DEF Core, NoSession, Stoppable, Still
<1>5. Lost(y) \/ (y.ep = "STOPPING" /\ (Bare(y) \/ (Fit(y) /\ Finishing(y))))
  BY <1>1, <1>4, PartsStop
<1> HIDE DEF y
<1>6. EpFinish(z) = FinishParts(DnsStop(y), DnsIdle(DnsStop(y))) \/ EpFinish(z) = FinishParts(y, TRUE)
  BY <1>2, <1>3 DEF EpFinish, CtcpFinish, CwsFinish, CipcFinish, Fit, ConnectTyped
<1>7. CASE Lost(y)
  BY <1>6, <1>7, FinishLost DEF Kept
<1>8. CASE y.ep = "STOPPING" /\ (Bare(y) \/ (Fit(y) /\ Finishing(y)))
  <2>1. y.dns = "IDLE"
    BY <1>8 DEF Bare, Finishing, NoSession
  <2>2. DnsStop(y) = y
    BY <2>1 DEF DnsStop
  <2>3. DnsIdle(y) = TRUE
    <3>1. \A i \in DOMAIN y.events : y.events[i].src # "DNS"
      BY <1>8, EvIs DEF Bare, Finishing, UsockStops, Settled, One
    <3>2. QED
      BY <2>1, <3>1 DEF DnsIdle, FsmIdle
  <2>4. Kept(FinishParts(y, TRUE))
    BY <1>8, PartsKept
  <2>5. QED
    BY <1>6, <2>2, <2>3, <2>4
<1>9. QED
  BY <1>5, <1>7, <1>8
\* nn_ctcp_shutdown: something has stopped.
LEMMA EpStoppingKept ==
  ASSUME NEW x, Sound(x), x.events # <<>>, Head(x.events).to = "ep",
         x.ep \in {"STOPPING_SESSION_FINAL", "STOPPING"}
  PROVE  Kept(EpFinish(Off(x)))
<1> DEFINE z == Off(x)
<1>1. Taken(x, z)
  BY TakenBy
<1> HIDE DEF z
<1>2. CASE x.ep = "STOPPING_SESSION_FINAL"
  <2>1. /\ Quitting(x) /\ NoSession(x) /\ One(x, "ep", "SESSION", "STOPPED")
        /\ Open(x, x.tasks = <<>>)
    BY <1>2, EpPhase
    DEF Resolving, Connecting, Pausing, Disconnecting, Finishing, InSession, Parting
  <2>2. z.events = <<>> /\ Still(x)
    BY <1>1, <2>1 DEF One, Taken, Quitting
  <2>3. NoSession(z) /\ Stoppable(z) /\ z.ep = "STOPPING_SESSION_FINAL" /\ Fit(z)
    BY <1>1, <1>2, <2>1, <2>2 DEF NoSession, Stoppable, Taken, Frame, Open, Still
  <2>4. QED
    BY <2>2, <2>3, EpFinishKept DEF z
<1>3. CASE x.ep = "STOPPING"
  <2>1. Finishing(x)
    BY <1>3, EpPhase
    DEF Resolving, Connecting, Pausing, Disconnecting, InSession, Parting, Quitting
  <2>2. z.events = <<>> /\ z.ep = "STOPPING" /\ NoSession(z) /\ Fit(z)
    BY <1>1, <1>3, <2>1, OneIs DEF Finishing, UsockStops, Settled, One, Taken, Frame, NoSession
  <2>3. Bare(z) \/ Finishing(z)
    <3>1. CASE Still(x) /\ UsockStops(x)
      BY <1>1, <2>2, <3>1 DEF Finishing, UsockStops, Settled, Taken, Still
    <3>2. CASE x.usock = "IDLE" /\ x.timer["RECONNECT_TIMER"] = "STOPPING" /\ Ends(x.tasks, R("STOP"))
      BY <1>1, <2>2, <3>2 DEF Finishing, Settled, Taken
    <3>3. CASE x.usock = "IDLE" /\ Still(x) /\ x.tasks = <<>>
      BY <1>1, <2>2, <3>3 DEF Bare, Taken, Still
    <3>4. QED
      BY <2>1, <3>1, <3>2, <3>3 DEF Finishing
  <2>4. FinishSession(z) = z /\ DnsIdle(z) = TRUE
    BY <2>2 DEF FinishSession, DnsIdle, FsmIdle, NoSession
  <2>5. EpFinish(z) = FinishParts(z, TRUE)
    BY <2>2, <2>4 DEF EpFinish, CtcpFinish, CwsFinish, CipcFinish, Fit, ConnectTyped
  <2>6. QED
    BY <2>2, <2>3, <2>5, PartsKept DEF z
<1>4. QED
  BY <1>2, <1>3

\* The socket destroys the endpoint.
LEMMA DestroyKept ==
  ASSUME NEW x, Sound(x), x.events # <<>>, Head(x.events) = Ev("sock", "EP", "STOPPED")
  PROVE  Kept(IF Quiet(x) THEN [Off(x) EXCEPT !.ep = "FREED"] ELSE Abort(Off(x)))
<1> DEFINE z == [Off(x) EXCEPT !.ep = "FREED"]
<1>1. Taken(x, Off(x)) /\ x.ep # "FREED"
  BY TakenBy
<1>2. Over(x) /\ One(x, "sock", "EP", "STOPPED")
  BY SockPhase, EvIs
<1>3. Off(x).events = <<>> /\ Off(x).ep # "FREED" /\ Fit(Off(x))
  BY <1>1, <1>2 DEF One, Taken, Frame
<1>4. Kept(Abort(Off(x)))
  BY <1>3, AbortKept DEF Kept
<1>5. /\ Core(Off(x), z) /\ z.ep = "FREED" /\ z.dns = x.dns /\ z.peerGone = x.peerGone
      /\ z.owner = x.owner /\ z.header = x.header /\ z.session = x.session /\ z.pipe = x.pipe
      /\ z.tasks = x.tasks /\ z.timer = x.timer /\ z.usock = x.usock /\ z.events = <<>>
  BY <1>1, <1>2, <1>3 DEF Taken, Frame, Fit, ConnectTyped, Core, ConnectFields
<1> HIDE DEF z
<1>6. Fit(z)
  BY <1>3, <1>5, FitKept
<1>7. Over(z)
  BY <1>2, <1>5 DEF Over, NoSession, Still, Settled
<1>8. Kept(z)
  BY <1>6, <1>7 DEF Kept, Sound, Phase
<1>9. QED
  BY <1>4, <1>8 DEF z

\* A session that has not stopped yet is waited for.
LEMMA FinishWaits ==
  ASSUME NEW z, z.ep = "STOPPING_SESSION_FINAL", ~SessionIdle(z), z.kind \in {"tcp", "ipc", "ws"}
  PROVE  EpFinish(z) = z
BY DEF EpFinish, CtcpFinish, CwsFinish, CipcFinish, FinishSession, FinishParts

\* nn_ctcp_shutdown, at any moment: there is no session.
LEMMA StopsWithoutSession ==
  ASSUME NEW x, Sound(x), x.events = <<>>,
         Connecting(x) \/ Pausing(x) \/ Disconnecting(x)
  PROVE  Kept(EpFinish([SessionStop(x) EXCEPT !.ep = "STOPPING_SESSION_FINAL"]))
<1> DEFINE z == [x EXCEPT !.ep = "STOPPING_SESSION_FINAL"]
<1>1. NoSession(x) /\ Fit(x)
  BY DEF Connecting, Pausing, Disconnecting, Sound
<1>2. SessionStop(x) = x
  BY <1>1 DEF SessionStop, NoSession
<1>3. /\ Core(x, z) /\ z.ep = "STOPPING_SESSION_FINAL" /\ z.dns = x.dns /\ z.peerGone = x.peerGone
      /\ z.owner = x.owner /\ z.header = x.header /\ z.session = x.session /\ z.pipe = x.pipe
      /\ z.tasks = x.tasks /\ z.timer = x.timer /\ z.usock = x.usock /\ z.events = <<>>
  BY <1>1 DEF Fit, ConnectTyped, Core, ConnectFields
<1> HIDE DEF z
<1>4. Fit(z) /\ NoSession(z)
  BY <1>1, <1>3, FitKept DEF NoSession
<1>5. Stoppable(x)
  BY OneIs, OneOnly DEF Stoppable, Connecting, Pausing, Disconnecting, UsockStops, Settled
<1>6. Stoppable(z)
  BY <1>3, <1>5 DEF Stoppable, Still
<1>7. QED
  BY <1>2, <1>3, <1>4, <1>6, EpFinishKept DEF z
\* nn_ctcp_shutdown, at any moment: the session runs.
LEMMA StopsRunning ==
  ASSUME NEW x, RunsOn(x), x.events = <<>>
  PROVE  Kept(EpFinish([SessionStop(x) EXCEPT !.ep = "STOPPING_SESSION_FINAL"]))
<1> DEFINE p == PipeStop([x EXCEPT !.session = "STOPPING"])
           h == SessionFinish(p)
           z == [h EXCEPT !.ep = "STOPPING_SESSION_FINAL"]
<1>1. Fit(x) /\ x.header = "IDLE" /\ x.session \notin {"IDLE", "STOPPING"} /\ x.timer["TIMER"] = "IDLE"
      /\ Still(x) /\ x.saved["session"] = "ep" /\ x.dns = "IDLE"
  BY DEF RunsOn, Running, InActive
<1>2. Open(x, x.tasks = <<>>)
  <2>1. ~Breaks(x) /\ \A e : ~Gets(x, e)
    BY OneOnly DEF Breaks, Gets, Range
  <2>2. QED
    BY <2>1 DEF RunsOn, Running, Open
<1>3. /\ Core(x, p) /\ p.header = "IDLE" /\ p.saved = x.saved /\ p.dns = x.dns /\ p.pipe = "IDLE"
  BY <1>1 DEF Fit, ConnectTyped, Core, ConnectFields, PipeStop
<1>4. SessionStop(x) = h
  <2>1. HeaderStop(p) = p
    BY <1>3 DEF HeaderStop
  <2> HIDE DEF p
  <2>2. QED
    BY <1>1, <2>1 DEF SessionStop, p
<1> HIDE DEF p
<1>5. Fit(p) /\ p.events = <<>> /\ p.saved["session"] = "ep"
  BY <1>1, <1>3, FitKept DEF Core
<1>6. GaveBack(p, h)
  BY <1>3, <1>5, FinishBy
<1> HIDE DEF h
<1>7. /\ Core(h, z) /\ z.ep = "STOPPING_SESSION_FINAL" /\ z.dns = h.dns
      /\ z.owner = h.owner /\ z.header = h.header /\ z.session = h.session /\ z.pipe = h.pipe
  BY <1>6 DEF GaveBack, Fit, ConnectTyped, Core, ConnectFields
<1> HIDE DEF z
<1>8. Fit(z) /\ One(z, "ep", "SESSION", "STOPPED")
  BY <1>6, <1>7, FitKept DEF GaveBack, Core, One
<1>9. ~SessionIdle(z)
  BY <1>8, EvIs DEF SessionIdle, FsmIdle, One
<1>10. EpFinish(z) = z
  BY <1>7, <1>8, <1>9, FinishWaits DEF Fit, ConnectTyped
<1>11. Open(z, z.tasks = <<>>)
  BY <1>2, <1>3, <1>6, <1>7 DEF Open, GaveBack, Core
<1>12. Quitting(z)
  BY <1>1, <1>3, <1>6, <1>7, <1>8, <1>11 DEF Quitting, GaveBack, NoSession, Still, Core
<1>13. QED
  BY <1>4, <1>8, <1>10, <1>12 DEF Kept, Sound, Phase, z

\* nn_ctcp_shutdown, at any moment: headers are exchanged.
LEMMA StopsGreeting ==
  ASSUME NEW x, Sound(x), InSession(x), Greeting(x), x.events = <<>>
  PROVE  Kept(EpFinish([SessionStop(x) EXCEPT !.ep = "STOPPING_SESSION_FINAL"]))
<1> DEFINE p == PipeStop([x EXCEPT !.session = "STOPPING"])
           v == [p EXCEPT !.header = "STOPPING"]
           k == TimerStop(v, "TIMER")
           z == [k EXCEPT !.ep = "STOPPING_SESSION_FINAL"]
<1>0. "TIMER" \in Timer /\ "RECONNECT_TIMER" \in Timer \ {"TIMER"} /\ Fit(x)
  BY DEF Timer, Sound
<1>1. /\ x.header \notin {"IDLE", "STOPPING"} /\ x.session = "PROTOHDR" /\ x.owner = "header"
      /\ x.usock \in {"ACTIVE", "DONE", "REMOVING_FD"}
      /\ \/ x.timer["TIMER"] = "ACTIVE"
         \/ x.timer["TIMER"] = "STOPPING" /\ Ends(x.tasks, T("STOP"))
  <2>1. \A a, b, c : ~One(x, a, b, c)
    BY OneIs
  <2>2. /\ ~TimerStops(x) \/ (x.timer["TIMER"] = "STOPPING" /\ Ends(x.tasks, T("STOP")))
        /\ \A w, type : Talks(x, w, type) =>
              x.timer["TIMER"] = "ACTIVE" /\ x.usock \in {"ACTIVE", "REMOVING_FD"}
    BY <2>1 DEF Talks, TimerStops
  <2>3. QED
    BY <2>2 DEF Greeting, Up
<1>2. Still(x) /\ x.saved["session"] = "ep" /\ x.dns = "IDLE" /\ x.ep = "ACTIVE" /\ x.pipe = "IDLE"
  BY DEF InSession, Greeting
<1>3. /\ Core(x, v) /\ v.header = "STOPPING" /\ v.saved = x.saved /\ v.dns = x.dns
      /\ v.pipe = "IDLE" /\ v.owner = x.owner /\ v.session = "STOPPING" /\ v.ep = x.ep
      /\ p.header = x.header
  BY <1>0 DEF Fit, ConnectTyped, Core, ConnectFields, PipeStop
<1>4. Fit(v)
  BY <1>0, <1>3, FitKept
<1>5. SessionStop(x) = SessionFinish(HeaderFinish(k))
  <2>1. HeaderStop(p) = HeaderFinish(k)
    BY <1>1, <1>3 DEF HeaderStop
  <2> HIDE DEF p, k
  <2>2. QED
    BY <1>1, <2>1 DEF SessionStop, p
<1> HIDE DEF p, v
<1>6. /\ k.header = "STOPPING" /\ k.session = "STOPPING" /\ k.ep = x.ep /\ k.kind = x.kind
      /\ k.timer["TIMER"] # "IDLE" /\ DOMAIN k = ConnectFields
  <2>1. DOMAIN v = ConnectFields /\ DOMAIN v.timer = Timer
    BY <1>4 DEF Fit, ConnectTyped
  <2>2. QED
    BY <1>0, <1>1, <1>3, <2>1, TimerStopLeaves DEF Core
<1>7. Lost(k) \/ Halted(v, k, "TIMER")
  BY <1>0, <1>2, <1>3, <1>4, TimedBy
<1> HIDE DEF k
<1>8. HeaderFinish(k) = k
  BY <1>6 DEF HeaderFinish, TimerIdle, FsmIdle
<1>9. SessionFinish(k) = k
  BY <1>6 DEF SessionFinish, HeaderIdle, FsmIdle
<1>10. z.ep = "STOPPING_SESSION_FINAL" /\ z.session = "STOPPING" /\ z.kind = x.kind
  BY <1>6 DEF ConnectFields
<1>11. EpFinish(z) = z
  <2>1. ~SessionIdle(z)
    BY <1>10 DEF SessionIdle, FsmIdle
  <2>2. QED
    BY <1>0, <1>10, <2>1, FinishWaits DEF Fit, ConnectTyped
<1>12. CASE Lost(k)
  <2>1. Lost(z)
    BY <1>12 DEF Lost, ConnectFields
  <2>2. QED
    BY <1>5, <1>8, <1>9, <1>11, <2>1 DEF Kept
<1>13. CASE Halted(v, k, "TIMER")
  <2>1. /\ Fit(k) /\ k.timer["TIMER"] = "STOPPING" /\ Ends(k.tasks, T("STOP"))
        /\ k.timer["RECONNECT_TIMER"] = x.timer["RECONNECT_TIMER"] /\ k.events = <<>>
        /\ Frame(v, k) /\ k.usock = x.usock
    <3>1. CASE x.timer["TIMER"] = "ACTIVE"
      <4>1. Retimed(v, k, "TIMER", "STOPPING", "STOP")
        BY <1>3, <1>13, <3>1 DEF Halted, Core
      <4>2. QED
        BY <1>0, <1>3, <4>1 DEF Retimed, Gains, T, Core
    <3>2. CASE x.timer["TIMER"] = "STOPPING" /\ Ends(x.tasks, T("STOP"))
      BY <1>3, <1>4, <1>13, <3>2 DEF Halted, Core, Frame
    <3>3. QED
      BY <1>1, <3>1, <3>2
  <2>2. /\ Core(k, z) /\ z.dns = k.dns /\ z.owner = k.owner /\ z.header = k.header
        /\ z.pipe = k.pipe /\ z.saved = k.saved
    BY <2>1 DEF Fit, ConnectTyped, Core, ConnectFields
  <2> HIDE DEF z
  <2>3. Fit(z)
    BY <2>1, <2>2, FitKept
  <2>4. TimerStops(z)
    BY <2>1, <2>2 DEF TimerStops, Core, Settled
  <2>5. Quitting(z)
    BY <1>1, <1>2, <1>3, <1>10, <2>1, <2>2, <2>4 DEF Quitting, Core, Frame, Still
  <2>6. QED
    BY <1>5, <1>8, <1>9, <1>11, <2>3, <2>5 DEF Kept, Sound, Phase, z
<1>14. QED
  BY <1>7, <1>12, <1>13

\* nn_shutdown and nn_close.
LEMMA StopKept ==
  ASSUME NEW x, Sound(x), x.events = <<>>,
         x.ep \notin {"IDLE", "STOPPING_SESSION_FINAL", "STOPPING", "FREED"}
  PROVE  Kept(EpFinish([SessionStop(x) EXCEPT !.ep = "STOPPING_SESSION_FINAL"]))
<1>1. \A a, b, c : ~One(x, a, b, c)
  BY OneIs
<1>2. \A e : ~Ends(x.events, e)
  BY DEF Ends
<1>3. \/ Connecting(x) \/ Pausing(x) \/ Disconnecting(x)
      \/ InSession(x) /\ (Greeting(x) \/ Running(x))
  BY <1>1, <1>2 DEF Sound, Phase, Resolving, Finishing, Over, Parting, Quitting,
     InSession, Greeted, SessionOver
<1>4. InSession(x) /\ Running(x) => RunsOn(x)
  BY DEF Sound, InSession, InActive, RunsOn
<1>5. QED
  BY <1>3, <1>4, StopsWithoutSession, StopsGreeting, StopsRunning
-----------------------------------------------------------------------------
(* The worker executes a task.                                               *)

\* The fields that no task changes.
Rim(x, y) ==
    /\ y.ep = x.ep /\ y.dns = x.dns /\ y.peerGone = x.peerGone /\ y.owner = x.owner
    /\ y.header = x.header /\ y.saved = x.saved /\ y.session = x.session /\ y.pipe = x.pipe
    /\ y.odd = x.odd /\ y.kind = x.kind
\* The task at the head was taken.
Pops(x, y) ==
    /\ \A t : Has(y, t) <=> Has(x, t) /\ t # Head(x.tasks)
    /\ \A t : Ends(x.tasks, t) => \/ Head(x.tasks) = t /\ y.tasks = <<>>
                                  \/ Head(x.tasks) # t /\ Ends(y.tasks, t)
    /\ Has(x, Head(x.tasks))
    /\ ~Has(y, U("CONNECTED")) /\ ~Has(y, U("CONNECTING"))
Told(x, y, src, to, type) == x.events = <<>> /\ y.events = <<Ev(to, src, type)>>

\* What each task does.
Polling(x, y) ==
    /\ y.usock = x.usock /\ y.timer = x.timer /\ y.armed = x.armed /\ y.events = x.events
    /\ \/ Head(x.tasks) = U("RECV") /\ y.poll = x.poll \cup {"IN"}
       \/ Head(x.tasks) = U("SEND") /\ y.poll = x.poll \cup {"OUT"}
       \/ Head(x.tasks) = U("CONNECTED") /\ y.poll \subseteq {"FD"}
       \/ Head(x.tasks) = U("CONNECTING") /\ y.poll \subseteq {"FD", "OUT"}
       \/ Head(x.tasks) = U("STOP") /\ x.usock = "DONE" /\ y.poll = x.poll
Breaking(x, y) ==
    /\ Head(x.tasks) = U("STOP") /\ x.usock = "REMOVING_FD" /\ y.usock = "DONE"
    /\ Told(x, y, "USOCK", x.owner, "ERROR") /\ y.timer = x.timer /\ y.armed = x.armed
Closes2(x, y) ==
    /\ Head(x.tasks) = U("STOP") /\ x.usock = "STOPPING" /\ y.usock = "IDLE"
    /\ Told(x, y, "USOCK", x.owner, "STOPPED") /\ y.timer = x.timer /\ y.armed = x.armed
Timing(x, y, t) ==
    /\ Head(x.tasks) = <<t, "START">> /\ x.timer[t] \in {"ACTIVE", "STOPPING"}
    /\ y.timer = x.timer /\ y.poll = x.poll /\ y.usock = x.usock /\ y.events = x.events
Timed2(x, y, t) ==
    /\ Head(x.tasks) = <<t, "STOP">> /\ x.timer[t] = "STOPPING"
    /\ y.timer[t] = "IDLE" /\ (\A s \in Timer \ {t} : y.timer[s] = x.timer[s])
    /\ y.poll = x.poll /\ y.usock = x.usock /\ Told(x, y, t, TimerOwner(t), "STOPPED")
Ran(x, y) ==
    /\ Fit(y) /\ Rim(x, y) /\ Pops(x, y)
    /\ \/ Polling(x, y) \/ Breaking(x, y) \/ Closes2(x, y)
       \/ \E t \in Timer : Timing(x, y, t) \/ Timed2(x, y, t)

\* A task of a record that fits is taken.
LEMMA PopsBy ==
  ASSUME NEW x, Fit(x), x.tasks # <<>>, NEW y, y.tasks = Tail(x.tasks)
  PROVE  Pops(x, y) /\ y.tasks \in Seq(ConnectTask) /\ Distinct(y.tasks)
<1>1. ConnectTyped(x)
  BY DEF Fit
<1>2. /\ y.tasks \in Seq(ConnectTask) /\ Distinct(y.tasks) /\ Has(x, Head(x.tasks))
      /\ \A t : Has(y, t) <=> Has(x, t) /\ t # Head(x.tasks)
      /\ \A t : Ends(x.tasks, t) => \/ Head(x.tasks) = t /\ y.tasks = <<>>
                                    \/ Head(x.tasks) # t /\ Ends(y.tasks, t)
  BY <1>1, TaskTaken
<1>3. ~Has(y, U("CONNECTED")) /\ ~Has(y, U("CONNECTING"))
  BY <1>2 DEF Fit, Wired
<1>4. QED
  BY <1>2, <1>3 DEF Pops

\* A record fits when its queues, its usock and its timers do.
LEMMA FitMade ==
  ASSUME NEW x, Fit(x), NEW y, DOMAIN y = ConnectFields, y.aborted = FALSE, Rim(x, y),
         y.usock \in UsockState, DOMAIN y.timer = Timer,
         y.tasks \in Seq(ConnectTask), Distinct(y.tasks),
         y.events \in Seq(ConnectEvent), Distinct(y.events), Wired(y), Timed(y)
  PROVE  Fit(y)
BY DEF Fit, ConnectTyped, Rim

\* The poller is asked for something.
AsksFor(x, w) ==
    CASE w = "RECV" -> x.poll \cup {"IN"} [] w = "SEND" -> x.poll \cup {"OUT"}
      [] w = "CONNECTED" -> Polled(x) [] w = "CONNECTING" -> Polled(x) \cup {"OUT"}
Asked(x, w) == [x EXCEPT !.tasks = Tail(x.tasks), !.poll = AsksFor(x, w)]

\* A usock executes a task for the poller.
LEMMA PollingBy ==
  ASSUME NEW x, Fit(x), x.tasks # <<>>, x.events = <<>>,
         NEW w \in {"RECV", "SEND", "CONNECTED", "CONNECTING"}, Head(x.tasks) = U(w)
  PROVE  Ran(x, Asked(x, w))
<1> DEFINE p == AsksFor(x, w)
           y == [x EXCEPT !.tasks = Tail(x.tasks), !.poll = p]
<1>0. /\ w = "RECV" => p = x.poll \cup {"IN"}
      /\ w = "SEND" => p = x.poll \cup {"OUT"}
      /\ w = "CONNECTED" => p = Polled(x)
      /\ w = "CONNECTING" => p = Polled(x) \cup {"OUT"}
  BY DEF AsksFor
<1> HIDE DEF p
<1>1. /\ DOMAIN y = ConnectFields /\ y.aborted = FALSE /\ Rim(x, y) /\ y.usock = x.usock
      /\ y.timer = x.timer /\ y.armed = x.armed /\ y.events = x.events /\ y.poll = p
      /\ y.tasks = Tail(x.tasks)
  BY DEF Fit, ConnectTyped, Rim, ConnectFields
<1> HIDE DEF y
<1>2. Pops(x, y) /\ y.tasks \in Seq(ConnectTask) /\ Distinct(y.tasks)
  BY <1>1, PopsBy
<1>3. Has(x, U(w)) /\ \A v : U(v) = U(w) => v = w
  BY <1>2, Names DEF Pops
<1>4. Wired(x) /\ Timed(x)
  BY DEF Fit
<1>5. x.usock = "REMOVING_FD" => Has(y, U("STOP"))
  BY <1>2, <1>3, <1>4 DEF Wired, Pops
<1>6. Wired(y)
  <2>1. w = "CONNECTED" => x.usock # "STARTING"
    BY <1>3, <1>4 DEF Wired
  <2>2. w = "CONNECTING" => x.usock \in {"CONNECTING", "STOPPING"}
    BY <1>3, <1>4 DEF Wired
  <2>3. y.usock \in {"IDLE", "DONE", "STARTING"} => "FD" \notin y.poll
    <3>1. x.usock \in {"IDLE", "DONE", "STARTING"} => "FD" \notin x.poll
      BY <1>4 DEF Wired
    <3>2. QED
      BY <1>0, <1>1, <2>1, <2>2, <3>1 DEF Polled
  <2>4. ~Has(y, U("CONNECTED")) /\ ~Has(y, U("CONNECTING"))
    BY <1>2 DEF Pops
  <2>5. QED
    BY <1>1, <1>5, <2>3, <2>4 DEF Wired
<1>7. Timed(y)
  BY <1>1, <1>4 DEF Timed
<1>8. Fit(y)
  BY <1>1, <1>2, <1>6, <1>7, FitMade DEF Fit, ConnectTyped
<1>9. Polling(x, y)
  <2>1. Polled(x) \subseteq {"FD"}
    BY DEF Polled
  <2>2. QED
    BY <1>0, <1>1, <2>1 DEF Polling
<1>10. QED
  BY <1>1, <1>2, <1>8, <1>9 DEF Ran, Asked, p, y

\* The worker closes the descriptor, and says so.
ClosesFd(x, u, type) ==
    Raise([x EXCEPT !.tasks = Tail(x.tasks), !.poll = x.poll \ {"FD"}, !.usock = u],
          Ev(x.owner, "USOCK", type))

\* The worker is told to stop polling for a usock: it closes the descriptor.
LEMMA StopExecuted ==
  ASSUME NEW x, Fit(x), x.tasks # <<>>, x.events = <<>>, x.ep # "FREED", Head(x.tasks) = U("STOP"),
         NEW u, NEW type,
         \/ x.usock = "REMOVING_FD" /\ u = "DONE" /\ type = "ERROR"
         \/ x.usock = "STOPPING" /\ u = "IDLE" /\ type = "STOPPED"
  PROVE  Ran(x, ClosesFd(x, u, type))
<1> DEFINE v == [x EXCEPT !.tasks = Tail(x.tasks), !.poll = x.poll \ {"FD"}, !.usock = u]
           e == Ev(x.owner, "USOCK", type)
<1>1. /\ DOMAIN v = ConnectFields /\ v.aborted = FALSE /\ Rim(x, v) /\ v.usock = u
      /\ v.timer = x.timer /\ v.armed = x.armed /\ v.events = <<>> /\ v.poll = x.poll \ {"FD"}
      /\ v.tasks = Tail(x.tasks)
  BY DEF Fit, ConnectTyped, Rim, ConnectFields
<1>2. e \in ConnectEvent /\ e = Ev(x.owner, "USOCK", type)
  BY DEF Fit, ConnectTyped, ConnectEvent, Ev
<1> HIDE DEF v, e
<1>3. Pops(x, v) /\ v.tasks \in Seq(ConnectTask) /\ Distinct(v.tasks)
  BY <1>1, PopsBy
<1>4. Wired(v)
  BY <1>1, <1>3 DEF Wired, Pops
<1>5. Timed(v)
  BY <1>1 DEF Timed, Fit
<1>6. v.events \in Seq(ConnectEvent) /\ Distinct(v.events)
  BY <1>1 DEF Fit, ConnectTyped
<1>7. Fit(v)
  BY <1>1, <1>3, <1>4, <1>5, <1>6, FitMade DEF Fit, ConnectTyped, UsockState
<1> DEFINE y == Raise(v, e)
<1>8. Raised(v, y, e) /\ y.events = <<e>>
  BY <1>1, <1>2, <1>7, RaisedFirst
<1> HIDE DEF y
<1>9. Fit(y) /\ Rim(x, y) /\ y.tasks = v.tasks /\ y.usock = u /\ y.timer = x.timer /\ y.armed = x.armed
  BY <1>1, <1>8 DEF Raised, Rim, Frame
<1>10. Pops(x, y)
  BY <1>3, <1>9 DEF Pops, Has, Ends
<1>11. Told(x, y, "USOCK", x.owner, type)
  BY <1>2, <1>8 DEF Told
<1>12. QED
  BY <1>9, <1>10, <1>11 DEF Ran, Breaking, Closes2, ClosesFd, y, v, e

\* The worker is told to stop polling for a usock that is closed already.
LEMMA StopIgnored ==
  ASSUME NEW x, Fit(x), x.tasks # <<>>, Head(x.tasks) = U("STOP"), x.usock = "DONE"
  PROVE  Ran(x, [x EXCEPT !.tasks = Tail(x.tasks)])
<1> DEFINE y == [x EXCEPT !.tasks = Tail(x.tasks)]
<1>1. /\ DOMAIN y = ConnectFields /\ y.aborted = FALSE /\ Rim(x, y) /\ y.usock = x.usock
      /\ y.timer = x.timer /\ y.armed = x.armed /\ y.events = x.events /\ y.poll = x.poll
      /\ y.tasks = Tail(x.tasks)
  BY DEF Fit, ConnectTyped, Rim, ConnectFields
<1> HIDE DEF y
<1>2. Pops(x, y) /\ y.tasks \in Seq(ConnectTask) /\ Distinct(y.tasks)
  BY <1>1, PopsBy
<1>3. Wired(y)
  BY <1>1, <1>2 DEF Wired, Pops, Fit
<1>4. Timed(y)
  BY <1>1 DEF Timed, Fit
<1>5. Fit(y)
  BY <1>1, <1>2, <1>3, <1>4, FitMade DEF Fit, ConnectTyped
<1>6. QED
  BY <1>1, <1>2, <1>5 DEF Ran, Polling, y

\* The worker executes a task of a timer.
LEMMA TimerExecuted ==
  ASSUME NEW x, Fit(x), x.tasks # <<>>, x.events = <<>>, x.ep # "FREED", NEW t \in Timer,
         NEW w \in {"START", "STOP"}, Head(x.tasks) = <<t, w>>
  PROVE  LET y == TimerTask([x EXCEPT !.tasks = Tail(x.tasks)], t, w)
         IN Lost(y) \/ Ran(x, y)
<1> DEFINE z == [x EXCEPT !.tasks = Tail(x.tasks)]
           y == TimerTask(z, t, w)
<1>0. DOMAIN x = ConnectFields /\ x.aborted = FALSE /\ DOMAIN x.timer = Timer
  BY DEF Fit, ConnectTyped
<1>1. /\ DOMAIN z = ConnectFields /\ z.aborted = FALSE /\ Rim(x, z) /\ z.usock = x.usock
      /\ z.timer = x.timer /\ z.armed = x.armed /\ z.events = <<>> /\ z.poll = x.poll
      /\ z.tasks = Tail(x.tasks) /\ z.ep = x.ep
  BY <1>0 DEF Rim, ConnectFields
<1>2. /\ Has(x, <<t, w>>)
      /\ \A v \in {"CONNECTED", "CONNECTING", "STOP"} : U(v) # <<t, w>>
  BY PopsBy, <1>1, Names DEF Pops
<1> HIDE DEF z
<1>3. Pops(x, z) /\ z.tasks \in Seq(ConnectTask) /\ Distinct(z.tasks)
  BY <1>1, PopsBy
<1>4. Wired(x) /\ Timed(x)
  BY DEF Fit
<1>5. Wired(z)
  <2>1. x.usock = "REMOVING_FD" => Has(z, U("STOP"))
    BY <1>2, <1>3, <1>4 DEF Wired, Pops
  <2>2. ~Has(z, U("CONNECTED")) /\ ~Has(z, U("CONNECTING"))
    BY <1>3 DEF Pops
  <2>3. QED
    BY <1>1, <1>4, <2>1, <2>2 DEF Wired
<1>6. z.events \in Seq(ConnectEvent) /\ Distinct(z.events)
  BY <1>1 DEF Fit, ConnectTyped
<1>7. CASE w = "START" /\ x.timer[t] = "ACTIVE"
  <2> DEFINE v == [z EXCEPT !.armed = z.armed \cup {t}]
  <2>1. y = v
    BY <1>1, <1>7 DEF TimerTask
  <2>2. /\ DOMAIN v = ConnectFields /\ v.aborted = FALSE /\ Rim(x, v) /\ v.usock = x.usock
        /\ v.timer = x.timer /\ v.armed = x.armed \cup {t} /\ v.events = z.events /\ v.poll = z.poll
        /\ v.tasks = z.tasks
    BY <1>1 DEF Rim, ConnectFields
  <2> HIDE DEF v, y
  <2>3. Wired(v)
    BY <1>1, <1>5, <2>2 DEF Wired, Has
  <2>4. Timed(v)
    BY <1>4, <1>7, <2>2 DEF Timed
  <2>5. Fit(v)
    BY <1>0, <1>3, <1>6, <2>2, <2>3, <2>4, FitMade DEF Fit, ConnectTyped
  <2>6. Pops(x, v)
    BY <1>3, <2>2 DEF Pops, Has, Ends
  <2>7. Timing(x, v, t)
    BY <1>1, <1>7, <2>2 DEF Timing
  <2>8. QED
    BY <2>1, <2>2, <2>5, <2>6, <2>7 DEF Ran, y, z
<1>8. CASE w = "START" /\ x.timer[t] = "STOPPING"
  <2>1. y = z
    BY <1>1, <1>8 DEF TimerTask
  <2>2. Timed(z)
    BY <1>1, <1>4 DEF Timed
  <2>3. Fit(z)
    BY <1>0, <1>1, <1>3, <1>5, <1>6, <2>2, FitMade DEF Fit, ConnectTyped
  <2>4. Timing(x, z, t)
    BY <1>1, <1>8 DEF Timing
  <2>5. QED
    BY <1>1, <1>3, <2>1, <2>3, <2>4 DEF Ran, z
<1>9. CASE w = "STOP" /\ x.timer[t] = "STOPPING"
  <2> DEFINE v == [z EXCEPT !.armed = z.armed \ {t}, !.timer[t] = "IDLE"]
             e == Ev(TimerOwner(t), t, "STOPPED")
  <2>1. y = Raise(v, e)
    BY <1>1, <1>9 DEF TimerTask
  <2>2. /\ DOMAIN v = ConnectFields /\ v.aborted = FALSE /\ Rim(x, v) /\ v.usock = x.usock
        /\ v.timer = [x.timer EXCEPT ![t] = "IDLE"] /\ v.armed = x.armed \ {t} /\ v.events = z.events
        /\ v.poll = z.poll /\ v.tasks = z.tasks
    BY <1>1 DEF Rim, ConnectFields
  <2>3. e \in ConnectEvent /\ e = Ev(TimerOwner(t), t, "STOPPED")
    BY DEF ConnectEvent, Ev, TimerOwner, Timer
  <2> HIDE DEF v, e, y
  <2>4. DOMAIN v.timer = Timer /\ v.timer[t] = "IDLE" /\ \A s \in Timer \ {t} : v.timer[s] = x.timer[s]
    BY <1>0, <2>2
  <2>5. Wired(v)
    BY <1>1, <1>5, <2>2 DEF Wired, Has
  <2>6. Timed(v)
    BY <1>4, <2>2, <2>4 DEF Timed
  <2>7. Fit(v)
    BY <1>0, <1>3, <1>6, <2>2, <2>4, <2>5, <2>6, FitMade DEF Fit, ConnectTyped
  <2>8. Raised(v, Raise(v, e), e) /\ Raise(v, e).events = <<e>>
    BY <1>1, <2>2, <2>3, <2>7, RaisedFirst
  <2>9. Fit(y) /\ Rim(x, y) /\ y.tasks = v.tasks /\ y.usock = v.usock /\ y.timer = v.timer /\ y.poll = v.poll
    BY <2>1, <2>2, <2>8 DEF Raised, Rim, Frame
  <2>10. Pops(x, y)
    BY <1>3, <2>2, <2>9 DEF Pops, Has, Ends
  <2>11. Told(x, y, t, TimerOwner(t), "STOPPED")
    BY <2>1, <2>3, <2>8 DEF Told
  <2>12. Timed2(x, y, t)
    BY <1>1, <1>9, <2>2, <2>4, <2>9, <2>11 DEF Timed2
  <2>13. QED
    BY <2>9, <2>10, <2>12 DEF Ran, y, z
<1>10. CASE ~(w = "START" /\ x.timer[t] \in {"ACTIVE", "STOPPING"}) /\ ~(w = "STOP" /\ x.timer[t] = "STOPPING")
  <2>1. y = Abort(z)
    BY <1>1, <1>10 DEF TimerTask
  <2>2. Lost(Abort(z))
    BY <1>1 DEF Abort, Lost, ConnectFields
  <2>3. QED
    BY <2>1, <2>2 DEF z
<1>11. QED
  BY <1>7, <1>8, <1>9, <1>10

\* Names of the tasks of timers.
LEMMA TimerNames ==
  /\ \A t \in Timer : \A s, w, v : <<t, w>> # U(v) /\ (<<t, w>> = <<s, v>> => t = s /\ w = v)
  /\ \A t \in Timer : t \in {"TIMER", "RECONNECT_TIMER"}
  /\ \A w : T(w) = <<"TIMER", w>> /\ R(w) = <<"RECONNECT_TIMER", w>>
  /\ "TIMER" \in Timer /\ "RECONNECT_TIMER" \in Timer
  /\ TimerOwner("TIMER") = "header" /\ TimerOwner("RECONNECT_TIMER") = "ep"
  /\ T("STOP") # T("START") /\ R("STOP") # R("START")
<1>1. \A t \in Timer : t = "TIMER" \/ t = "RECONNECT_TIMER"
  BY DEF Timer
<1>2. \A t \in Timer : \A w, v : <<t, w>> # <<"usock", v>>
  BY <1>1
<1>3. \A a, b, c, d : <<a, b>> = <<c, d>> => a = c /\ b = d
  OBVIOUS
<1>4. QED
  BY <1>1, <1>2, <1>3 DEF Timer, TimerOwner, U, T, R

\* What the worker does with a task of a record that fits.
LEMMA ExecutedBy ==
  ASSUME NEW x, Fit(x), x.tasks # <<>>, x.events = <<>>, x.ep # "FREED"
  PROVE  LET z == [x EXCEPT !.tasks = Tail(x.tasks)]
             y == IF Head(x.tasks)[1] = "usock" THEN UsockTask(z, Head(x.tasks)[2])
                  ELSE TimerTask(z, Head(x.tasks)[1], Head(x.tasks)[2])
         IN Lost(y) \/ Ran(x, y)
<1> DEFINE z == [x EXCEPT !.tasks = Tail(x.tasks)]
           y == IF Head(x.tasks)[1] = "usock" THEN UsockTask(z, Head(x.tasks)[2])
                ELSE TimerTask(z, Head(x.tasks)[1], Head(x.tasks)[2])
<1>0. DOMAIN x = ConnectFields /\ x.aborted = FALSE
  BY DEF Fit, ConnectTyped
<1>1. Head(x.tasks) \in ConnectTask
  BY TaskTaken DEF Fit, ConnectTyped
<1>2. /\ DOMAIN z = ConnectFields /\ z.aborted = FALSE /\ z.usock = x.usock /\ z.owner = x.owner
      /\ z.poll = x.poll /\ z.tasks = Tail(x.tasks) /\ z.ep = x.ep
  BY <1>0 DEF ConnectFields
<1>3. ASSUME NEW w \in {"RECV", "SEND", "CONNECTED", "CONNECTING", "STOP"}, Head(x.tasks) = U(w)
      PROVE  Lost(y) \/ Ran(x, y)
  <2>1. y = UsockTask(z, w)
    <3>1. Head(x.tasks)[1] = "usock" /\ Head(x.tasks)[2] = w
      BY <1>3 DEF U
    <3>2. QED
      BY <3>1
  <2>2. CASE w # "STOP"
    <3>0. w \in {"RECV", "SEND", "CONNECTED", "CONNECTING"}
      BY <2>2
    <3>1. Ran(x, Asked(x, w))
      BY <1>3, <3>0, PollingBy
    <3>2. Polled(z) = Polled(x)
      BY <1>2 DEF Polled
    <3>3. UsockTask(z, w) = [z EXCEPT !.poll = AsksFor(x, w)]
      BY <1>2, <3>0, <3>2 DEF UsockTask, AsksFor
    <3>4. [z EXCEPT !.poll = AsksFor(x, w)] = Asked(x, w)
      BY <1>0 DEF ConnectFields, Asked
    <3>5. QED
      BY <2>1, <3>1, <3>3, <3>4
  <2>3. ASSUME w = "STOP", NEW u, NEW type,
               \/ x.usock = "REMOVING_FD" /\ u = "DONE" /\ type = "ERROR"
               \/ x.usock = "STOPPING" /\ u = "IDLE" /\ type = "STOPPED"
        PROVE  Ran(x, y)
    <3> DEFINE v == [x EXCEPT !.tasks = Tail(x.tasks), !.poll = x.poll \ {"FD"}, !.usock = u]
               v2 == [z EXCEPT !.poll = z.poll \ {"FD"}, !.usock = u]
    <3>0. Head(x.tasks) = U("STOP")
      BY <1>3, <2>3
    <3>1. Ran(x, ClosesFd(x, u, type))
      BY <2>3, <3>0, StopExecuted
    <3>2. v2 = v
      BY <1>0 DEF ConnectFields
    <3>3. v2.owner = x.owner
      BY <1>2
    <3>4. UsockTask(z, w) = UsockEvent(v2, type)
      BY <1>2, <2>3 DEF UsockTask, UsockBroken
    <3>5. UsockEvent(v2, type) = ClosesFd(x, u, type)
      BY <3>2, <3>3 DEF UsockEvent, ClosesFd
    <3>6. QED
      BY <2>1, <3>1, <3>4, <3>5
  <2>4. CASE w = "STOP" /\ x.usock = "DONE"
    BY <1>2, <1>3, <2>1, <2>4, StopIgnored DEF UsockTask
  <2>5. CASE w = "STOP" /\ x.usock \notin {"DONE", "REMOVING_FD", "STOPPING"}
    <3>1. y = Abort(z)
      BY <1>2, <2>1, <2>5 DEF UsockTask
    <3>2. Lost(Abort(z))
      BY <1>2 DEF Abort, Lost, ConnectFields
    <3>3. QED
      BY <3>1, <3>2
  <2>6. QED
    BY <2>2, <2>3, <2>4, <2>5
<1>4. ASSUME NEW t \in Timer, NEW w \in {"START", "STOP"}, Head(x.tasks) = <<t, w>>
      PROVE  Lost(y) \/ Ran(x, y)
  <2>1. t # "usock"
    BY DEF Timer
  <2>2. y = TimerTask(z, t, w)
    BY <1>4, <2>1
  <2>3. QED
    BY <1>4, <2>2, TimerExecuted
<1>5. \/ \E w \in {"RECV", "SEND", "CONNECTED", "CONNECTING", "STOP"} : Head(x.tasks) = U(w)
      \/ \E t \in Timer, w \in {"START", "STOP"} : Head(x.tasks) = <<t, w>>
  BY <1>1 DEF ConnectTask, U
<1> HIDE DEF y
<1>6. QED
  BY <1>3, <1>4, <1>5 DEF y

\* A task that was taken leaves nothing that goes on at the usock.
LEMMA NoOpRan ==
  ASSUME NEW x, Fit(x), NEW y, Ran(x, y), x.usock \in {"ACTIVE", "DONE"},
         \A v \in {"RECV", "SEND"} : NoOp(x, v)
  PROVE  \A v \in {"RECV", "SEND"} : NoOp(y, v)
<1>1. Pops(x, y) /\ Wired(x)
  BY DEF Ran, Fit
<1>2. \A v \in {"RECV", "SEND"} : ~Has(x, U(v)) /\ ~Has(y, U(v)) /\ Head(x.tasks) # U(v)
  BY <1>1 DEF NoOp, Pops
<1>3. Head(x.tasks) # U("CONNECTING")
  BY <1>1 DEF Wired, Pops
<1>4. CASE Head(x.tasks) = U("CONNECTED")
  <2>1. y.poll \subseteq {"FD"}
    BY <1>2, <1>3, <1>4, Names, TimerNames DEF Ran, Polling, Breaking, Closes2, Timing, Timed2
  <2>2. QED
    BY <1>2, <2>1 DEF NoOp, Polls, Dir
<1>5. CASE Head(x.tasks) # U("CONNECTED")
  <2>1. ~Has(x, U("CONNECTED")) /\ ~Has(x, U("CONNECTING"))
    BY <1>1, <1>3, <1>5 DEF Wired
  <2>2. CASE y.poll = x.poll
    BY <1>2, <2>1, <2>2 DEF NoOp, Polls
  <2>3. y.poll = x.poll
    <3>1. ~Breaking(x, y) /\ ~Closes2(x, y)
      BY DEF Breaking, Closes2
    <3>2. QED
      BY <1>2, <1>3, <1>5, <3>1 DEF Ran, Polling, Timing, Timed2
  <2>4. QED
    BY <2>2, <2>3
<1>6. QED
  BY <1>4, <1>5

\* The timer of the header exchange is being stopped.
LEMMA TimerStopsRan ==
  ASSUME NEW x, Fit(x), NEW y, Ran(x, y), x.events = <<>>, x.tasks # <<>>, x.owner = "header",
         Still(x), x.usock \in {"ACTIVE", "DONE", "REMOVING_FD"}, TimerStops(x)
  PROVE  /\ TimerStops(y) /\ Still(y)
         /\ y.usock = x.usock \/ (x.usock = "REMOVING_FD" /\ y.usock = "DONE")
<1>1. x.timer["TIMER"] = "STOPPING" /\ Ends(x.tasks, T("STOP")) /\ Pops(x, y)
      /\ x.timer["RECONNECT_TIMER"] = "IDLE"
  BY DEF TimerStops, Ran, Still
<1>2. CASE Polling(x, y)
  <2>1. Ends(y.tasks, T("STOP"))
    BY <1>1, <1>2, TimerNames DEF Polling, Pops
  <2>2. QED
    BY <1>1, <1>2, <2>1 DEF Polling, TimerStops, Still, Settled
<1>3. CASE Breaking(x, y)
  <2>1. Ends(y.tasks, T("STOP"))
    BY <1>1, <1>3, TimerNames DEF Breaking, Pops
  <2>2. QED
    BY <1>1, <1>3, <2>1 DEF Breaking, Told, One, TimerStops, Still
<1>4. ~Closes2(x, y)
  BY DEF Closes2
<1>5. ASSUME NEW t \in Timer, Timing(x, y, t)
      PROVE  TimerStops(y) /\ Still(y) /\ y.usock = x.usock
  <2>1. Ends(y.tasks, T("STOP"))
    BY <1>1, <1>5, TimerNames DEF Timing, Pops
  <2>2. QED
    BY <1>1, <1>5, <2>1 DEF Timing, TimerStops, Still, Settled
<1>6. ASSUME NEW t \in Timer, Timed2(x, y, t)
      PROVE  TimerStops(y) /\ Still(y) /\ y.usock = x.usock
  <2>1. t = "TIMER"
    BY <1>1, <1>6, TimerNames DEF Timed2
  <2>2. y.tasks = <<>>
    BY <1>1, <1>6, <2>1, TimerNames DEF Timed2, Pops
  <2>3. y.timer["TIMER"] = "IDLE" /\ y.timer["RECONNECT_TIMER"] = "IDLE"
    BY <1>1, <1>6, <2>1, TimerNames DEF Timed2
  <2>4. One(y, "header", "TIMER", "STOPPED")
    BY <1>6, <2>1, TimerNames DEF Timed2, Told, One
  <2>5. QED
    BY <1>6, <2>2, <2>3, <2>4 DEF TimerStops, Still, Timed2
<1>7. QED
  BY <1>2, <1>3, <1>4, <1>5, <1>6 DEF Ran
-----------------------------------------------------------------------------
(* Every phase is kept by the tasks that are executed in it.                 *)

\* What the worker does when no timer runs.
LEMMA NoTimerRan ==
  ASSUME NEW x, NEW y, Ran(x, y), Still(x), x.timer["TIMER"] = "IDLE"
  PROVE  (Polling(x, y) \/ Breaking(x, y) \/ Closes2(x, y)) /\ y.timer = x.timer
<1>1. \A t \in Timer : x.timer[t] = "IDLE"
  BY TimerNames DEF Still
<1>2. \A t \in Timer : ~Timing(x, y, t) /\ ~Timed2(x, y, t)
  BY <1>1 DEF Timing, Timed2
<1>3. QED
  BY <1>2 DEF Ran, Polling, Breaking, Closes2

\* The endpoint waits for the connect() to succeed.
LEMMA ConnectingRan ==
  ASSUME NEW x, Fit(x), NEW y, Ran(x, y), x.events = <<>>, Connecting(x)
  PROVE  Connecting(y)
<1>1. /\ NoSession(x) /\ Still(x) /\ x.usock = "CONNECTING" /\ NoOp(x, "RECV")
      /\ ~Has(x, U("SEND")) /\ ~Has(x, U("CONNECTED")) /\ ~Has(x, U("RECV"))
      /\ \A a, b, c : ~One(x, a, b, c)
  BY OneIs DEF Connecting, NoOp
<1>2. Pops(x, y) /\ Rim(x, y)
  BY DEF Ran
<1>3. Polling(x, y) /\ y.timer = x.timer /\ y.usock = x.usock /\ y.events = x.events
  BY <1>1, NoTimerRan DEF NoSession, Breaking, Closes2, Polling
<1>4. y.poll \subseteq {"FD", "OUT"}
  BY <1>1, <1>2, <1>3 DEF Polling, Pops
<1>5. NoOp(y, "RECV") /\ ~Has(y, U("SEND")) /\ ~Has(y, U("CONNECTED"))
  BY <1>1, <1>2, <1>4 DEF NoOp, Polls, Dir, Pops
<1>6. NoSession(y) /\ Still(y)
  BY <1>1, <1>2, <1>3 DEF NoSession, Still, Rim
<1>7. QED
  BY <1>1, <1>2, <1>3, <1>5, <1>6 DEF Connecting, Settled, Rim

\* The endpoint waits before it tries again.
LEMMA PausingRan ==
  ASSUME NEW x, Fit(x), NEW y, Ran(x, y), x.events = <<>>, x.tasks # <<>>, Pausing(x)
  PROVE  Pausing(y)
<1>1. /\ NoSession(x) /\ x.usock \in {"IDLE", "STARTING"} /\ ~x.peerGone
      /\ x.timer["TIMER"] = "IDLE"
      /\ \A a, b, c : ~One(x, a, b, c)
  BY OneIs DEF Pausing, NoSession
<1>2. Pops(x, y) /\ Rim(x, y) /\ ~Breaking(x, y) /\ ~Closes2(x, y)
  BY <1>1 DEF Ran, Breaking, Closes2
<1>3. CASE x.ep = "WAITING"
  <2>1. /\ x.timer["RECONNECT_TIMER"] = "ACTIVE" /\ Ends(x.tasks, R("START"))
        /\ "RECONNECT_TIMER" \notin x.armed
    BY <1>1, <1>3 DEF Pausing, Settled
  <2>2. CASE Polling(x, y)
    <3>1. Ends(y.tasks, R("START"))
      BY <1>2, <2>1, <2>2, TimerNames DEF Polling, Pops
    <3>2. QED
      BY <1>1, <1>2, <1>3, <2>1, <2>2, <3>1 DEF Pausing, Settled, Polling, Rim, NoSession
  <2>3. ASSUME NEW t \in Timer, Timing(x, y, t)
        PROVE  Pausing(y)
    <3>1. t = "RECONNECT_TIMER"
      BY <1>1, <2>3, TimerNames DEF Timing
    <3>2. y.tasks = <<>>
      BY <1>2, <2>1, <2>3, <3>1, TimerNames DEF Timing, Pops
    <3>3. QED
      BY <1>1, <1>2, <1>3, <2>1, <2>3, <3>2 DEF Pausing, Settled, Timing, Rim, NoSession
  <2>4. \A t \in Timer : ~Timed2(x, y, t)
    BY <1>1, <2>1, TimerNames DEF Timed2
  <2>5. QED
    BY <1>2, <2>2, <2>3, <2>4 DEF Ran
<1>4. CASE x.ep = "STOPPING_BACKOFF"
  <2>1. x.timer["RECONNECT_TIMER"] = "STOPPING" /\ x.tasks = <<R("STOP")>>
    BY <1>1, <1>4 DEF Pausing
  <2>2. Head(x.tasks) = R("STOP") /\ Ends(x.tasks, R("STOP"))
    BY <2>1, OneOnly
  <2>3. y.tasks = <<>>
    BY <1>2, <2>2 DEF Pops
  <2>4. Timed2(x, y, "RECONNECT_TIMER")
    BY <1>2, <2>2, TimerNames DEF Ran, Polling, Timing, Timed2
  <2>5. Still(y) /\ One(y, "ep", "RECONNECT_TIMER", "STOPPED")
        /\ y.timer["TIMER"] = "IDLE" /\ y.usock = x.usock
    BY <1>1, <2>4, TimerNames DEF Timed2, Told, One, Still
  <2>6. QED
    BY <1>1, <1>2, <1>4, <2>3, <2>5 DEF Pausing, NoSession, Rim
<1>5. QED
  BY <1>3, <1>4 DEF Pausing

\* The usock is being stopped.
LEMMA UsockStopsRan ==
  ASSUME NEW x, NEW y, Ran(x, y), x.events = <<>>, NoSession(x), Still(x), UsockStops(x)
  PROVE  /\ NoSession(y) /\ Still(y)
         /\ UsockStops(y) \/ (y.usock = "IDLE" /\ y.tasks = <<>> /\ One(y, "ep", "USOCK", "STOPPED"))
<1>1. x.usock = "STOPPING" /\ Ends(x.tasks, U("STOP")) /\ Pops(x, y) /\ Rim(x, y)
  BY DEF UsockStops, Ran
<1>2. /\ Polling(x, y) \/ Breaking(x, y) \/ Closes2(x, y)
      /\ y.timer = x.timer
  BY NoTimerRan DEF NoSession
<1>3. NoSession(y) /\ Still(y)
  BY <1>1, <1>2 DEF NoSession, Still, Rim
<1>4. CASE Polling(x, y)
  <2>1. Head(x.tasks) # U("STOP")
    BY <1>1, <1>4, Names DEF Polling
  <2>2. Ends(y.tasks, U("STOP"))
    BY <1>1, <2>1 DEF Pops
  <2>3. QED
    BY <1>1, <1>3, <1>4, <2>2 DEF UsockStops, Polling, Settled
<1>5. CASE Closes2(x, y)
  <2>1. y.tasks = <<>>
    BY <1>1, <1>5 DEF Closes2, Pops
  <2>2. QED
    BY <1>3, <1>5, <2>1 DEF Closes2, Told, One, NoSession
<1>6. ~Breaking(x, y)
  BY <1>1 DEF Breaking
<1>7. QED
  BY <1>2, <1>4, <1>5, <1>6

\* The endpoint has its usock stopped, to try again or for good.
LEMMA DisconnectingRan ==
  ASSUME NEW x, Fit(x), NEW y, Ran(x, y), x.events = <<>>, x.tasks # <<>>
  PROVE  /\ Disconnecting(x) => Disconnecting(y)
         /\ Finishing(x) => Finishing(y)
<1>0. Pops(x, y) /\ Rim(x, y) /\ \A a, b, c : ~One(x, a, b, c)
  BY OneIs DEF Ran
<1>1. ASSUME Disconnecting(x)
      PROVE  Disconnecting(y)
  <2>1. NoSession(x) /\ Still(x) /\ x.ep = "STOPPING_USOCK" /\ UsockStops(x)
    BY <1>0, <1>1 DEF Disconnecting
  <2>2. QED
    BY <1>0, <2>1, UsockStopsRan DEF Disconnecting, Rim
<1>2. ASSUME Finishing(x), UsockStops(x), Still(x)
      PROVE  Finishing(y)
  <2>1. NoSession(x) /\ x.ep = "STOPPING"
    BY <1>2 DEF Finishing
  <2>2. QED
    BY <1>0, <1>2, <2>1, UsockStopsRan DEF Finishing, Rim
<1>3. ASSUME Finishing(x), x.usock = "IDLE", x.timer["RECONNECT_TIMER"] = "STOPPING",
             Ends(x.tasks, R("STOP"))
      PROVE  Finishing(y)
  <2>1. NoSession(x) /\ x.ep = "STOPPING" /\ x.timer["TIMER"] = "IDLE"
    BY <1>3 DEF Finishing, NoSession
  <2>2. ~Breaking(x, y) /\ ~Closes2(x, y)
    BY <1>3 DEF Breaking, Closes2
  <2>3. CASE Polling(x, y)
    <3>1. Ends(y.tasks, R("STOP"))
      BY <1>0, <1>3, <2>3, TimerNames DEF Polling, Pops
    <3>2. QED
      BY <1>0, <1>3, <2>1, <2>3, <3>1 DEF Polling, Finishing, NoSession, Rim, Settled
  <2>4. ASSUME NEW t \in Timer, Timing(x, y, t)
        PROVE  Finishing(y)
    <3>1. Ends(y.tasks, R("STOP"))
      BY <1>0, <1>3, <2>4, TimerNames DEF Timing, Pops
    <3>2. QED
      BY <1>0, <1>3, <2>1, <2>4, <3>1 DEF Timing, Finishing, NoSession, Rim, Settled
  <2>5. ASSUME NEW t \in Timer, Timed2(x, y, t)
        PROVE  Finishing(y)
    <3>1. t = "RECONNECT_TIMER"
      BY <2>1, <2>5, TimerNames DEF Timed2
    <3>2. y.tasks = <<>>
      BY <1>0, <1>3, <2>5, <3>1, TimerNames DEF Timed2, Pops
    <3>3. /\ y.timer["TIMER"] = "IDLE" /\ Still(y) /\ y.usock = "IDLE"
          /\ One(y, "ep", "RECONNECT_TIMER", "STOPPED")
      BY <1>3, <2>1, <2>5, <3>1, TimerNames DEF Timed2, Still, Told, One
    <3>4. QED
      BY <1>0, <2>1, <3>2, <3>3 DEF Finishing, NoSession, Rim
  <2>6. QED
    BY <2>2, <2>3, <2>4, <2>5 DEF Ran
<1>4. QED
  BY <1>0, <1>1, <1>2, <1>3 DEF Finishing

\* The session runs.
LEMMA RunningRan ==
  ASSUME NEW x, NEW y, Ran(x, y), x.events = <<>>, x.tasks # <<>>, RunsOn(x)
  PROVE  RunsOn(y)
<1>1. /\ Pops(x, y) /\ Rim(x, y) /\ Fit(y) /\ Running(x) /\ InActive(x)
      /\ x.owner = "session" /\ x.timer["TIMER"] = "IDLE" /\ Still(x)
  BY DEF Ran, RunsOn, Running, InActive
<1>2. \A t : t \notin Range(x.events)
  BY DEF Range
<1>3. (Polling(x, y) \/ Breaking(x, y) \/ Closes2(x, y)) /\ y.timer = x.timer
  BY <1>1, NoTimerRan
<1>4. InActive(y)
  BY <1>1, <1>3 DEF InActive, Rim, Still
<1>5. /\ ~Breaks(x) /\ ~Gets(x, Usock("SHUTDOWN")) /\ ~Gets(x, Usock("ERROR"))
  BY <1>2, OneOnly DEF Breaks, Gets
<1>6. \/ x.session = "ACTIVE" /\ x.pipe = "ACTIVE" /\ x.usock = "ACTIVE"
      \/ /\ x.session \in {"SHUTTING_DOWN", "CLOSING_CONNECTION"} /\ x.pipe = "IDLE"
         /\ x.usock = "REMOVING_FD" /\ Ends(x.tasks, U("STOP"))
      \/ x.session = "CLOSING_CONNECTION" /\ x.pipe = "IDLE" /\ x.usock = "ACTIVE"
  BY <1>1, <1>5 DEF Running, Open
<1>7. CASE Polling(x, y)
  <2>1. y.events = x.events /\ y.usock = x.usock
    BY <1>7 DEF Polling
  <2>2. x.usock = "REMOVING_FD" => Ends(y.tasks, U("STOP"))
    BY <1>1, <1>6, <1>7, Names DEF Polling, Pops
  <2>3. /\ ~Gets(y, Usock("SHUTDOWN")) /\ ~Gets(y, Usock("ERROR"))
        /\ Range(y.events) \subseteq RunEvent
    BY <1>2, <2>1 DEF Gets
  <2>4. Running(y)
    BY <1>1, <1>3, <1>6, <2>1, <2>2, <2>3 DEF Running, Rim, Open
  <2>5. QED
    BY <1>1, <1>4, <2>4 DEF RunsOn
<1>8. CASE Breaking(x, y)
  <2>1. Breaks(y)
    BY <1>1, <1>8 DEF Breaking, Told, Breaks, Usock
  <2>2. Range(y.events) \subseteq RunEvent
    BY <2>1, OneOnly DEF Breaks, RunEvent
  <2>3. x.usock = "REMOVING_FD"
    BY <1>8 DEF Breaking
  <2>4. Running(y)
    BY <1>1, <1>3, <1>6, <2>1, <2>2, <2>3 DEF Running, Rim
  <2>5. QED
    BY <1>1, <1>4, <2>4 DEF RunsOn
<1>9. ~Closes2(x, y)
  BY <1>6 DEF Closes2
<1>10. QED
  BY <1>3, <1>7, <1>8, <1>9

\* The header is sent or that of the peer is read.
LEMMA TalksRan ==
  ASSUME NEW x, Fit(x), NEW y, Ran(x, y), x.events = <<>>, x.tasks # <<>>, x.owner = "header",
         Still(x), NEW w \in {"RECV", "SEND"}, NEW type, Talks(x, w, type)
  PROVE  Talks(y, w, type) /\ Still(y)
<1>1. /\ Pops(x, y) /\ Rim(x, y) /\ Wired(x)
      /\ x.timer["TIMER"] = "ACTIVE" /\ x.timer["RECONNECT_TIMER"] = "IDLE"
      /\ \A a, b, c : ~One(x, a, b, c)
  BY OneIs DEF Ran, Talks, Fit, Still
<1>2. \A t \in Timer : /\ Timing(x, y, t) => t = "TIMER" /\ y.timer = x.timer
                       /\ ~Timed2(x, y, t)
  BY <1>1, TimerNames DEF Timing, Timed2
<1>3. CASE x.usock = "ACTIVE"
  <2>1. OneOp(x, w) /\ (\A v \in {"RECV", "SEND"} \ {w} : NoOp(x, v))
    BY <1>1, <1>3 DEF Talks
  <2>2. /\ ~Breaking(x, y) /\ ~Closes2(x, y)
        /\ Head(x.tasks) # U("CONNECTING") /\ ~Has(x, U("CONNECTING"))
    BY <1>1, <1>3 DEF Breaking, Closes2, Wired, Pops
  <2>3. /\ y.timer = x.timer /\ y.usock = x.usock /\ y.events = x.events
        /\ Polling(x, y) \/ \E t \in Timer : Timing(x, y, t)
    BY <1>2, <2>2 DEF Ran, Polling, Timing
  <2>4. OneOp(y, w) /\ (\A v \in {"RECV", "SEND"} \ {w} : NoOp(y, v))
    <3>1. CASE Head(x.tasks) = U("CONNECTED")
      <4>1. y.poll \subseteq {"FD"}
        BY <1>1, <2>3, <3>1, Names, TimerNames DEF Polling, Timing
      <4>2. \A v \in {"RECV", "SEND"} : ~Polls(y, v)
        BY <4>1 DEF Polls, Dir
      <4>3. \A v : Has(y, U(v)) => Has(x, U(v))
        BY <1>1 DEF Pops
      <4>4. QED
        BY <2>1, <4>2, <4>3 DEF OneOp, NoOp
    <3>2. CASE Head(x.tasks) # U("CONNECTED")
      <4>1. ~Has(x, U("CONNECTED")) /\ ~Has(x, U("CONNECTING"))
        BY <1>1, <2>2, <3>2 DEF Wired
      <4>2. \A v : Has(y, U(v)) <=> Has(x, U(v)) /\ Head(x.tasks) # U(v)
        BY <1>1 DEF Pops
      <4>3. /\ y.poll = x.poll \/ (Head(x.tasks) = U("RECV") /\ y.poll = x.poll \cup {"IN"})
               \/ (Head(x.tasks) = U("SEND") /\ y.poll = x.poll \cup {"OUT"})
            /\ Has(x, Head(x.tasks))
        BY <1>1, <2>2, <2>3, <3>2 DEF Polling, Timing, Pops
      <4>4. CASE y.poll = x.poll
        BY <2>1, <4>1, <4>2, <4>4 DEF OneOp, NoOp, Polls
      <4>5. CASE Head(x.tasks) = U("RECV") /\ y.poll = x.poll \cup {"IN"}
        <5>1. w = "RECV"
          BY <2>1, <4>3, <4>5 DEF NoOp
        <5>2. OneOp(y, w)
          BY <4>2, <4>5, <5>1 DEF OneOp
        <5>3. NoOp(y, "SEND")
          BY <2>1, <4>1, <4>2, <4>5, <5>1 DEF NoOp, Polls, Dir
        <5>4. QED
          BY <5>1, <5>2, <5>3
      <4>6. CASE Head(x.tasks) = U("SEND") /\ y.poll = x.poll \cup {"OUT"}
        <5>1. w = "SEND"
          BY <2>1, <4>3, <4>6 DEF NoOp
        <5>2. OneOp(y, w)
          BY <4>2, <4>6, <5>1 DEF OneOp
        <5>3. NoOp(y, "RECV")
          BY <2>1, <4>1, <4>2, <4>6, <5>1 DEF NoOp, Polls, Dir
        <5>4. QED
          BY <5>1, <5>2, <5>3
      <4>7. QED
        BY <4>3, <4>4, <4>5, <4>6
    <3>3. QED
      BY <3>1, <3>2
  <2>5. QED
    BY <1>1, <1>3, <2>3, <2>4 DEF Talks, Settled, Still
<1>4. CASE x.usock = "REMOVING_FD"
  <2>1. Ends(x.tasks, U("STOP"))
    BY <1>4 DEF Talks
  <2>2. CASE Polling(x, y)
    <3>1. Ends(y.tasks, U("STOP"))
      BY <1>1, <1>4, <2>1, <2>2, Names DEF Polling, Pops
    <3>2. QED
      BY <1>1, <1>4, <2>2, <3>1 DEF Polling, Talks, Settled, Still
  <2>3. CASE Breaking(x, y)
    BY <1>1, <2>3 DEF Breaking, Told, One, Talks, Still
  <2>4. ASSUME NEW t \in Timer, Timing(x, y, t)
        PROVE  Talks(y, w, type) /\ Still(y)
    <3>1. Ends(y.tasks, U("STOP"))
      BY <1>1, <2>1, <2>4, TimerNames DEF Timing, Pops
    <3>2. QED
      BY <1>1, <1>4, <2>4, <3>1 DEF Timing, Talks, Settled, Still
  <2>5. ~Closes2(x, y)
    BY <1>4 DEF Closes2
  <2>6. QED
    BY <1>2, <2>2, <2>3, <2>4, <2>5 DEF Ran
<1>5. QED
  BY <1>1, <1>3, <1>4 DEF Talks

\* The headers are exchanged.
LEMMA GreetingRan ==
  ASSUME NEW x, Fit(x), NEW y, Ran(x, y), x.events = <<>>, x.tasks # <<>>, InSession(x), Greeting(x)
  PROVE  InSession(y) /\ Greeting(y)
<1>1. /\ Rim(x, y) /\ x.owner = "header" /\ Still(x)
      /\ \A a, b, c : ~One(x, a, b, c)
  BY OneIs DEF Ran, Greeting, InSession
<1>2. Still(y) => InSession(y) \/ ~Greeting(y)
  BY <1>1 DEF InSession, Rim
<1>3. CASE x.header \in {"SENDING", "RECEIVING"}
  <2>1. \/ x.header = "SENDING" /\ Talks(x, "SEND", "SENT")
        \/ x.header = "RECEIVING" /\ Talks(x, "RECV", "RECEIVED")
    BY <1>3 DEF Greeting
  <2>2. /\ Still(y)
        /\ \/ x.header = "SENDING" /\ Talks(y, "SEND", "SENT")
           \/ x.header = "RECEIVING" /\ Talks(y, "RECV", "RECEIVED")
    BY <1>1, <2>1, TalksRan
  <2>3. Greeting(y)
    BY <1>1, <2>2 DEF Greeting, Rim
  <2>4. QED
    BY <1>2, <2>2, <2>3
<1>4. CASE x.header = "STOPPING_TIMER_ERROR"
  <2>1. TimerStops(x) /\ x.usock \in {"ACTIVE", "DONE", "REMOVING_FD"}
    BY <1>4 DEF Greeting
  <2>2. TimerStops(y) /\ Still(y) /\ y.usock \in {"ACTIVE", "DONE", "REMOVING_FD"}
    BY <1>1, <2>1, TimerStopsRan
  <2>3. Greeting(y)
    BY <1>1, <1>4, <2>2 DEF Greeting, Rim
  <2>4. QED
    BY <1>2, <2>2, <2>3
<1>5. CASE x.header = "STOPPING_TIMER_DONE"
  <2>1. TimerStops(x) /\ Up(x) /\ \A v \in {"RECV", "SEND"} : NoOp(x, v)
    BY <1>5 DEF Greeting
  <2>2. x.usock \in {"ACTIVE", "DONE"}
    BY <2>1 DEF Up
  <2>3. TimerStops(y) /\ Still(y) /\ y.usock = x.usock
    BY <1>1, <2>1, <2>2, TimerStopsRan
  <2>4. \A v \in {"RECV", "SEND"} : NoOp(y, v)
    BY <2>1, <2>2, NoOpRan
  <2>5. Greeting(y)
    BY <1>1, <1>5, <2>1, <2>3, <2>4 DEF Greeting, Rim, Up
  <2>6. QED
    BY <1>2, <2>3, <2>5
<1>6. QED
  BY <1>3, <1>4, <1>5 DEF Greeting

\* Everything is stopped, while the timer of the header exchange stops.
LEMMA QuittingRan ==
  ASSUME NEW x, Fit(x), NEW y, Ran(x, y), x.events = <<>>, x.tasks # <<>>, Quitting(x)
  PROVE  Quitting(y)
<1>1. Rim(x, y) /\ \A a, b, c : ~One(x, a, b, c)
  BY OneIs DEF Ran
<1>2. /\ x.ep = "STOPPING_SESSION_FINAL" /\ Still(x) /\ x.pipe = "IDLE" /\ x.dns = "IDLE"
      /\ x.session = "STOPPING" /\ x.saved["session"] = "ep"
      /\ x.usock \in {"ACTIVE", "DONE", "REMOVING_FD"}
      /\ x.header = "STOPPING" /\ x.owner = "header" /\ TimerStops(x)
  BY <1>1 DEF Quitting
<1>3. TimerStops(y) /\ Still(y) /\ y.usock \in {"ACTIVE", "DONE", "REMOVING_FD"}
  BY <1>2, TimerStopsRan
<1>4. QED
  BY <1>1, <1>2, <1>3 DEF Quitting, Rim

\* The phases a context can be in when no event is left.
LEMMA OutsidePhase ==
  ASSUME NEW x, Sound(x), x.events = <<>>
  PROVE  \/ Connecting(x) \/ Pausing(x) \/ Disconnecting(x) \/ Finishing(x) \/ Quitting(x)
         \/ InSession(x) /\ Greeting(x)
         \/ RunsOn(x)
         \/ Over(x) /\ x.ep = "FREED" /\ x.tasks = <<>>
<1>1. \A a, b, c : ~One(x, a, b, c)
  BY OneIs
<1>2. ~Resolving(x) /\ ~Parting(x) /\ ~Greeted(x)
  BY <1>1 DEF Resolving, Parting, Greeted
<1>3. ~SessionOver(x)
  BY DEF SessionOver, Ends
<1>4. Over(x) => x.ep = "FREED" /\ x.tasks = <<>>
  BY <1>1 DEF Over
<1>5. InSession(x) /\ Running(x) => RunsOn(x)
  BY DEF RunsOn, InActive, InSession, Sound
<1>6. QED
  BY <1>2, <1>3, <1>4, <1>5 DEF Sound, Phase, InSession

\* The worker executes a task.
LEMMA ExecuteKept ==
  ASSUME NEW x, Sound(x), x.events = <<>>, x.tasks # <<>>
  PROVE  LET z == [x EXCEPT !.tasks = Tail(x.tasks)]
             y == IF Head(x.tasks)[1] = "usock" THEN UsockTask(z, Head(x.tasks)[2])
                  ELSE TimerTask(z, Head(x.tasks)[1], Head(x.tasks)[2])
         IN Kept(y)
<1> DEFINE z == [x EXCEPT !.tasks = Tail(x.tasks)]
           y == IF Head(x.tasks)[1] = "usock" THEN UsockTask(z, Head(x.tasks)[2])
                ELSE TimerTask(z, Head(x.tasks)[1], Head(x.tasks)[2])
<1>1. /\ Fit(x)
      /\ \/ Connecting(x) \/ Pausing(x) \/ Disconnecting(x) \/ Finishing(x) \/ Quitting(x)
         \/ InSession(x) /\ Greeting(x)
         \/ RunsOn(x)
  BY OutsidePhase DEF Sound
<1>2. x.ep # "FREED"
  BY <1>1 DEF Connecting, Pausing, Disconnecting, Finishing, Quitting, InSession, RunsOn, InActive
<1>3. Lost(y) \/ Ran(x, y)
  BY <1>1, <1>2, ExecutedBy
<1> HIDE DEF y
<1>4. ASSUME Ran(x, y)
      PROVE  Kept(y)
  <2>1. Fit(y)
    BY <1>4 DEF Ran
  <2>2. CASE Connecting(x)
    BY <1>1, <1>4, <2>1, <2>2, ConnectingRan DEF Kept, Sound, Phase
  <2>3. CASE Pausing(x)
    BY <1>1, <1>4, <2>1, <2>3, PausingRan DEF Kept, Sound, Phase
  <2>4. CASE Disconnecting(x) \/ Finishing(x)
    BY <1>1, <1>4, <2>1, <2>4, DisconnectingRan DEF Kept, Sound, Phase
  <2>5. CASE Quitting(x)
    BY <1>1, <1>4, <2>1, <2>5, QuittingRan DEF Kept, Sound, Phase
  <2>6. CASE InSession(x) /\ Greeting(x)
    BY <1>1, <1>4, <2>1, <2>6, GreetingRan DEF Kept, Sound, Phase
  <2>7. CASE RunsOn(x)
    BY <1>4, <2>7, RunningRan, RunsOnKept
  <2>8. QED
    BY <1>1, <2>2, <2>3, <2>4, <2>5, <2>6, <2>7
<1>5. QED
  BY <1>3, <1>4 DEF Kept, y
-----------------------------------------------------------------------------
(* The worker enters the context with an event of the poller.                *)

\* A usock tells its owner something, and the poller forgets something.
TellsOwner(x, p, u, type) ==
    Raise([x EXCEPT !.poll = p, !.usock = u], Ev(x.owner, "USOCK", type))
Heard(x, y, p, u, type) ==
    /\ Fit(y) /\ Rim(x, y) /\ y.poll = p /\ y.usock = u /\ y.tasks = x.tasks
    /\ y.timer = x.timer /\ y.armed = x.armed /\ y.events = <<Ev(x.owner, "USOCK", type)>>
LEMMA TellsBy ==
  ASSUME NEW x, Fit(x), x.events = <<>>, NEW p, p \subseteq x.poll, NEW u \in {"ACTIVE", "DONE"},
         x.usock \in {"ACTIVE", "CONNECTING"}, u = "DONE" => "FD" \notin p, "FD" \in x.poll,
         NEW type \in {"SENT", "RECEIVED", "ERROR", "CONNECTED"}
  PROVE  Heard(x, TellsOwner(x, p, u, type), p, u, type)
<1> DEFINE v == [x EXCEPT !.poll = p, !.usock = u]
           e == Ev(x.owner, "USOCK", type)
           y == Raise(v, e)
<1>1. /\ DOMAIN v = ConnectFields /\ v.aborted = FALSE /\ Rim(x, v) /\ v.usock = u
      /\ v.timer = x.timer /\ v.armed = x.armed /\ v.events = x.events /\ v.poll = p
      /\ v.tasks = x.tasks
  BY DEF Fit, ConnectTyped, Rim, ConnectFields
<1>2. e \in ConnectEvent /\ e = Ev(x.owner, "USOCK", type)
  BY DEF Fit, ConnectTyped, ConnectEvent, Ev
<1> HIDE DEF v, e, y
<1>3. ~Has(x, U("CONNECTED")) /\ ~Has(x, U("CONNECTING"))
  BY DEF Fit, Wired
<1>4. Wired(v)
  BY <1>1, <1>3 DEF Wired, Has
<1>5. Timed(v)
  BY <1>1 DEF Fit, Timed
<1>6. Fit(v)
  BY <1>1, <1>4, <1>5, FitMade DEF Fit, ConnectTyped, UsockState
<1>7. Raised(v, y, e) /\ y.events = <<e>>
  BY <1>1, <1>2, <1>6, RaisedFirst DEF y
<1>8. Fit(y) /\ Rim(x, y) /\ y.poll = p /\ y.usock = u /\ y.tasks = x.tasks
      /\ y.timer = x.timer /\ y.armed = x.armed
  BY <1>1, <1>7 DEF Raised, Frame, Rim
<1>9. QED
  BY <1>2, <1>7, <1>8 DEF Heard, TellsOwner, y, v, e

\* The phases in which the poller reports something about the descriptor.
LEMMA FdPhase ==
  ASSUME NEW x, Sound(x), x.events = <<>>, "FD" \in x.poll,
         x.usock \notin {"REMOVING_FD", "STOPPING"}
  PROVE  /\ ~Has(x, U("CONNECTED")) /\ ~Has(x, U("CONNECTING")) /\ x.ep # "FREED" /\ Fit(x)
         /\ \/ Connecting(x) /\ x.usock = "CONNECTING" /\ "IN" \notin x.poll /\ x.header = "IDLE"
               /\ ~Has(x, U("SEND")) /\ ~Has(x, U("RECV"))
            \/ x.usock = "ACTIVE" /\ InSession(x) /\ Greeting(x)
            \/ x.usock = "ACTIVE" /\ RunsOn(x) /\ x.header = "IDLE"
            \/ /\ x.usock = "ACTIVE" /\ Quitting(x) /\ x.session = "STOPPING"
               /\ x.saved["session"] = "ep" /\ x.header = "STOPPING" /\ x.owner = "header"
               /\ TimerStops(x)
<1>1. Fit(x) /\ Wired(x) /\ x.usock \in UsockState
  BY DEF Sound, Fit, ConnectTyped
<1>2. /\ x.usock \in {"ACTIVE", "CONNECTING"}
      /\ ~Has(x, U("CONNECTED")) /\ ~Has(x, U("CONNECTING"))
  BY <1>1 DEF Wired, UsockState
<1>3. \A a, b, c : ~One(x, a, b, c)
  BY OneIs
<1>4. ~Pausing(x) /\ ~Disconnecting(x) /\ ~Finishing(x) /\ ~Over(x)
  BY <1>2 DEF Pausing, Disconnecting, Finishing, Over, UsockStops
<1>5. CASE Connecting(x)
  BY <1>1, <1>2, <1>3, <1>5 DEF Connecting, NoOp, Polls, Dir, NoSession
<1>6. CASE InSession(x) /\ Greeting(x)
  BY <1>1, <1>2, <1>6 DEF Greeting, Talks, InSession, Up
<1>7. CASE RunsOn(x)
  BY <1>1, <1>2, <1>7 DEF RunsOn, Running, InActive, Breaks, Open
<1>8. CASE Quitting(x)
  BY <1>1, <1>2, <1>3, <1>8 DEF Quitting
<1>9. QED
  BY <1>4, <1>5, <1>6, <1>7, <1>8, OutsidePhase

\* The usock is used, or its connection fails, while the session runs.
LEMMA RunsHears ==
  ASSUME NEW x, RunsOn(x), x.events = <<>>, x.usock = "ACTIVE", NEW y, NEW p, NEW u, NEW type,
         Heard(x, y, p, u, type),
         \/ u = "ACTIVE" /\ type \in {"SENT", "RECEIVED"}
         \/ u = "DONE" /\ type = "ERROR"
  PROVE  Kept(y)
<1>1. /\ Fit(y) /\ Rim(x, y) /\ y.usock = u /\ y.timer = x.timer /\ y.events = <<Usock(type)>>
      /\ Range(y.events) = {Usock(type)} /\ Running(x) /\ InActive(x) /\ Fit(x)
  BY OneOnly DEF Heard, RunsOn, Running, Usock
<1>2. ~Breaks(x)
  BY OneOnly DEF Breaks
<1>3. \/ x.session = "ACTIVE" /\ x.pipe = "ACTIVE"
      \/ x.session = "CLOSING_CONNECTION" /\ x.pipe = "IDLE"
  BY <1>1, <1>2 DEF Running
<1>4. Range(y.events) \subseteq RunEvent
  BY <1>1 DEF RunEvent
<1>5. Usock("SENT") # Usock("ERROR") /\ Usock("SENT") # Usock("SHUTDOWN")
      /\ Usock("RECEIVED") # Usock("ERROR") /\ Usock("RECEIVED") # Usock("SHUTDOWN")
  BY DEF Usock, Ev
<1>6. Running(y)
  <2>1. CASE u = "ACTIVE"
    <3>1. ~Gets(y, Usock("SHUTDOWN")) /\ ~Gets(y, Usock("ERROR"))
      BY <1>1, <1>5, <2>1 DEF Gets
    <3>2. QED
      BY <1>1, <1>3, <1>4, <2>1, <3>1 DEF Running, Rim, Open
  <2>2. CASE u = "DONE" /\ type = "ERROR"
    BY <1>1, <1>3, <1>4, <2>2 DEF Running, Rim, Breaks
  <2>3. QED
    BY <2>1, <2>2
<1>7. InActive(y)
  BY <1>1 DEF InActive, Rim, Still
<1>8. RunsOn(y)
  BY <1>1, <1>6, <1>7 DEF RunsOn
<1>9. QED
  BY <1>8, RunsOnKept

\* The same while everything is stopped.
LEMMA QuitHears ==
  ASSUME NEW x, Quitting(x), x.events = <<>>, x.usock = "ACTIVE", x.session = "STOPPING",
         x.saved["session"] = "ep", x.header = "STOPPING", x.owner = "header", TimerStops(x),
         NEW y, NEW p, NEW u \in {"ACTIVE", "DONE"}, NEW type \in {"SENT", "RECEIVED", "ERROR"},
         Heard(x, y, p, u, type)
  PROVE  Kept(y)
<1>1. \A a, b, c : ~One(x, a, b, c)
  BY OneIs
<1>2. One(y, "header", "USOCK", type)
  BY DEF Heard, One
<1>3. TimerStops(y)
  BY <1>1, <1>2 DEF TimerStops, Heard
<1>4. Quitting(y)
  BY <1>3 DEF Quitting, Heard, Rim, Still
<1>5. QED
  BY <1>4 DEF Kept, Sound, Phase, Heard

\* The same while the headers are exchanged.
LEMMA GreetHears ==
  ASSUME NEW x, InSession(x), Greeting(x), x.events = <<>>, x.usock = "ACTIVE",
         NEW y, NEW p, NEW u, NEW type, Heard(x, y, p, u, type), p \subseteq x.poll,
         ~Has(x, U("CONNECTED")), ~Has(x, U("CONNECTING")),
         \/ u = "ACTIVE" /\ type = "RECEIVED" /\ "IN" \in x.poll /\ "IN" \notin p
         \/ u = "ACTIVE" /\ type = "SENT" /\ "OUT" \in x.poll /\ "OUT" \notin p
         \/ u = "DONE" /\ type = "ERROR" /\ x.header # "STOPPING_TIMER_DONE"
  PROVE  Kept(y)
<1>1. \A a, b, c : ~One(x, a, b, c)
  BY OneIs
<1>2. One(y, "header", "USOCK", type) /\ Rim(x, y) /\ y.timer = x.timer /\ y.usock = u
      /\ y.tasks = x.tasks /\ y.poll = p /\ Fit(y)
  BY DEF Heard, One, Greeting
<1>3. \A v : Has(y, v) <=> Has(x, v)
  BY <1>2 DEF Has
<1>4. \A v : NoOp(x, v) => NoOp(y, v)
  BY <1>2, <1>3 DEF NoOp, Polls
<1>5. /\ "IN" \in x.poll => ~NoOp(x, "RECV")
      /\ "OUT" \in x.poll => ~NoOp(x, "SEND")
  BY DEF NoOp, Polls, Dir
<1>6. Greeting(y)
  <2>1. CASE x.header = "SENDING" /\ Talks(x, "SEND", "SENT")
    <3>1. OneOp(x, "SEND") /\ NoOp(x, "RECV") /\ x.timer["TIMER"] = "ACTIVE"
      BY <1>1, <2>1 DEF Talks
    <3>2. CASE u = "DONE" /\ type = "ERROR"
      BY <1>2, <2>1, <3>1, <3>2 DEF Greeting, Talks, Rim
    <3>3. CASE u = "ACTIVE" /\ type = "SENT" /\ "OUT" \in x.poll /\ "OUT" \notin p
      <4>1. NoOp(y, "SEND")
        BY <1>2, <1>3, <3>1, <3>3 DEF OneOp, NoOp, Polls, Dir
      <4>2. Talks(y, "SEND", "SENT")
        BY <1>2, <1>4, <3>1, <3>3, <4>1 DEF Talks
      <4>3. QED
        BY <1>2, <2>1, <4>2 DEF Greeting, Rim
    <3>4. QED
      BY <1>5, <3>1, <3>2, <3>3
  <2>2. CASE x.header = "RECEIVING" /\ Talks(x, "RECV", "RECEIVED")
    <3>1. OneOp(x, "RECV") /\ NoOp(x, "SEND") /\ x.timer["TIMER"] = "ACTIVE"
      BY <1>1, <2>2 DEF Talks
    <3>2. CASE u = "DONE" /\ type = "ERROR"
      BY <1>2, <2>2, <3>1, <3>2 DEF Greeting, Talks, Rim
    <3>3. CASE u = "ACTIVE" /\ type = "RECEIVED" /\ "IN" \in x.poll /\ "IN" \notin p
      <4>1. NoOp(y, "RECV")
        BY <1>2, <1>3, <3>1, <3>3 DEF OneOp, NoOp, Polls, Dir
      <4>2. Talks(y, "RECV", "RECEIVED")
        BY <1>2, <1>4, <3>1, <3>3, <4>1 DEF Talks
      <4>3. QED
        BY <1>2, <2>2, <4>2 DEF Greeting, Rim
    <3>4. QED
      BY <1>5, <3>1, <3>2, <3>3
  <2>3. CASE x.header = "STOPPING_TIMER_ERROR" /\ TimerStops(x)
    <3>1. TimerStops(y)
      BY <1>1, <1>2, <2>3 DEF TimerStops
    <3>2. QED
      BY <1>2, <2>3, <3>1 DEF Greeting, Rim
  <2>4. CASE x.header = "STOPPING_TIMER_DONE" /\ \A v \in {"RECV", "SEND"} : NoOp(x, v)
    BY <1>5, <2>4
  <2>5. QED
    BY <2>1, <2>2, <2>3, <2>4 DEF Greeting
<1>7. InSession(y)
  BY <1>2, <1>6 DEF InSession, Rim, Still
<1>8. QED
  BY <1>2, <1>7 DEF Kept, Sound, Phase

\* Data came, went, or the connection is up.
LEMMA FdUsedKept ==
  ASSUME NEW x, Sound(x), x.events = <<>>, x.usock \notin {"REMOVING_FD", "STOPPING"},
         NEW way \in {"IN", "OUT"}, {"FD", way} \subseteq x.poll
  PROVE  /\ x.usock = "ACTIVE" =>
               Kept(TellsOwner(x, x.poll \ {way}, "ACTIVE", IF way = "IN" THEN "RECEIVED" ELSE "SENT"))
         /\ x.usock = "CONNECTING" =>
               Kept(TellsOwner(x, x.poll \ {"OUT"}, "ACTIVE", "CONNECTED"))
<1>1. /\ ~Has(x, U("CONNECTED")) /\ ~Has(x, U("CONNECTING")) /\ x.ep # "FREED" /\ Fit(x)
      /\ \/ Connecting(x) /\ x.usock = "CONNECTING" /\ "IN" \notin x.poll /\ x.header = "IDLE"
            /\ ~Has(x, U("SEND")) /\ ~Has(x, U("RECV"))
         \/ x.usock = "ACTIVE" /\ InSession(x) /\ Greeting(x)
         \/ x.usock = "ACTIVE" /\ RunsOn(x) /\ x.header = "IDLE"
         \/ /\ x.usock = "ACTIVE" /\ Quitting(x) /\ x.session = "STOPPING"
            /\ x.saved["session"] = "ep" /\ x.header = "STOPPING" /\ x.owner = "header"
            /\ TimerStops(x)
  BY FdPhase
<1>2. ASSUME x.usock = "ACTIVE"
      PROVE  Kept(TellsOwner(x, x.poll \ {way}, "ACTIVE", IF way = "IN" THEN "RECEIVED" ELSE "SENT"))
  <2> DEFINE p == x.poll \ {way}
             type == IF way = "IN" THEN "RECEIVED" ELSE "SENT"
             y == TellsOwner(x, p, "ACTIVE", type)
  <2>1. /\ p \subseteq x.poll /\ way \notin p /\ way \in x.poll
        /\ \/ way = "IN" /\ type = "RECEIVED"
           \/ way = "OUT" /\ type = "SENT"
    OBVIOUS
  <2> HIDE DEF p, type, y
  <2>2. Heard(x, y, p, "ACTIVE", type)
    BY <1>1, <1>2, <2>1, TellsBy DEF y
  <2>3. ASSUME InSession(x), Greeting(x)
        PROVE  Kept(y)
    BY <1>1, <1>2, <2>1, <2>2, <2>3, GreetHears
  <2>4. ASSUME RunsOn(x)
        PROVE  Kept(y)
    BY <1>2, <2>1, <2>2, <2>4, RunsHears
  <2>5. ASSUME Quitting(x), x.session = "STOPPING",
               x.saved["session"] = "ep", x.header = "STOPPING", x.owner = "header",
               TimerStops(x)
        PROVE  Kept(y)
    BY <1>2, <2>1, <2>2, <2>5, QuitHears
  <2>6. QED
    BY <1>1, <1>2, <2>3, <2>4, <2>5 DEF y, p, type
<1>3. ASSUME x.usock = "CONNECTING"
      PROVE  Kept(TellsOwner(x, x.poll \ {"OUT"}, "ACTIVE", "CONNECTED"))
  <2> DEFINE p == x.poll \ {"OUT"}
             y == TellsOwner(x, p, "ACTIVE", "CONNECTED")
  <2>1. p \subseteq x.poll /\ "OUT" \notin p
    OBVIOUS
  <2> HIDE DEF p, y
  <2>2. Heard(x, y, p, "ACTIVE", "CONNECTED")
    BY <1>1, <1>3, <2>1, TellsBy DEF y
  <2>3. Connecting(x) /\ "IN" \notin x.poll /\ ~Has(x, U("SEND")) /\ ~Has(x, U("RECV"))
    BY <1>1, <1>3
  <2>4. NoOp(y, "RECV") /\ NoOp(y, "SEND")
    BY <2>1, <2>2, <2>3 DEF Heard, NoOp, Polls, Dir, Has
  <2>5. One(y, "ep", "USOCK", "CONNECTED")
    BY <2>2, <2>3 DEF Heard, One, Connecting, NoSession
  <2>6. Connecting(y)
    BY <2>2, <2>3, <2>4, <2>5 DEF Connecting, NoSession, Still, Heard, Rim
  <2>7. QED
    BY <2>2, <2>6 DEF Kept, Sound, Phase, Heard, y, p
<1>4. QED
  BY <1>2, <1>3

\* The connection breaks.
LEMMA BrokenKept ==
  ASSUME NEW x, Sound(x), x.events = <<>>, x.usock \in {"ACTIVE", "CONNECTING"}, "FD" \in x.poll,
         x.header # "STOPPING_TIMER_DONE"
  PROVE  Kept(TellsOwner(x, x.poll \ {"FD"}, "DONE", "ERROR"))
<1> DEFINE p == x.poll \ {"FD"}
           y == TellsOwner(x, p, "DONE", "ERROR")
<1>1. /\ ~Has(x, U("CONNECTED")) /\ ~Has(x, U("CONNECTING")) /\ x.ep # "FREED" /\ Fit(x)
      /\ \/ Connecting(x) /\ x.usock = "CONNECTING" /\ "IN" \notin x.poll /\ x.header = "IDLE"
            /\ ~Has(x, U("SEND")) /\ ~Has(x, U("RECV"))
         \/ x.usock = "ACTIVE" /\ InSession(x) /\ Greeting(x)
         \/ x.usock = "ACTIVE" /\ RunsOn(x) /\ x.header = "IDLE"
         \/ /\ x.usock = "ACTIVE" /\ Quitting(x) /\ x.session = "STOPPING"
            /\ x.saved["session"] = "ep" /\ x.header = "STOPPING" /\ x.owner = "header"
            /\ TimerStops(x)
  BY FdPhase
<1>2. p \subseteq x.poll /\ "FD" \notin p
  OBVIOUS
<1> HIDE DEF p, y
<1>3. Heard(x, y, p, "DONE", "ERROR")
  BY <1>1, <1>2, TellsBy DEF y
<1>4. ASSUME Connecting(x)
      PROVE  Kept(y)
  <2>1. One(y, "ep", "USOCK", "ERROR")
    BY <1>3, <1>4 DEF Heard, One, Connecting, NoSession
  <2>2. Connecting(y)
    BY <1>3, <1>4, <2>1 DEF Connecting, NoSession, Still, Heard, Rim
  <2>3. QED
    BY <1>3, <2>2 DEF Kept, Sound, Phase, Heard
<1>5. ASSUME x.usock = "ACTIVE", InSession(x), Greeting(x)
      PROVE  Kept(y)
  BY <1>1, <1>2, <1>3, <1>5, GreetHears
<1>6. ASSUME x.usock = "ACTIVE", RunsOn(x)
      PROVE  Kept(y)
  BY <1>3, <1>6, RunsHears
<1>7. ASSUME x.usock = "ACTIVE", Quitting(x), x.session = "STOPPING",
             x.saved["session"] = "ep", x.header = "STOPPING", x.owner = "header", TimerStops(x)
      PROVE  Kept(y)
  BY <1>3, <1>7, QuitHears
<1>8. QED
  BY <1>1, <1>4, <1>5, <1>6, <1>7 DEF y, p

\* The connection breaks while the timer of the header exchange is stopping.
LEMMA LostKept ==
  ASSUME NEW x, Sound(x), x.events = <<>>, x.usock \notin {"REMOVING_FD", "STOPPING"}, "FD" \in x.poll,
         x.header = "STOPPING_TIMER_DONE"
  PROVE  Kept(TellsOwner(Odd(x, "lost"), Odd(x, "lost").poll \ {"FD"}, "DONE", "ERROR"))
<1> DEFINE z == Odd(x, "lost")
           p == z.poll \ {"FD"}
           y == TellsOwner(z, p, "DONE", "ERROR")
<1>1. /\ ~Has(x, U("CONNECTED")) /\ ~Has(x, U("CONNECTING")) /\ x.ep # "FREED" /\ Fit(x)
      /\ x.usock = "ACTIVE" /\ InSession(x) /\ Greeting(x)
  BY FdPhase
<1>2. /\ Core(x, z) /\ "lost" \in z.odd /\ z.ep = x.ep /\ z.dns = x.dns /\ z.peerGone = x.peerGone
      /\ z.owner = x.owner /\ z.header = x.header /\ z.saved = x.saved /\ z.session = x.session
      /\ z.pipe = x.pipe
  BY <1>1 DEF Odd, Core, Fit, ConnectTyped, ConnectFields
<1>3. p \subseteq z.poll /\ "FD" \notin p
  OBVIOUS
<1> HIDE DEF p, y, z
<1>4. Fit(z)
  BY <1>1, <1>2, FitKept
<1>5. Heard(z, y, p, "DONE", "ERROR")
  BY <1>1, <1>2, <1>3, <1>4, TellsBy DEF y, Core
<1>6. \A a, b, c : ~One(x, a, b, c)
  BY OneIs
<1>7. TimerStops(x) /\ (\A v \in {"RECV", "SEND"} : NoOp(x, v)) /\ x.owner = "header"
  BY <1>1 DEF Greeting
<1>8. /\ One(y, "header", "USOCK", "ERROR") /\ y.timer = x.timer /\ y.tasks = x.tasks
      /\ y.poll \subseteq x.poll /\ y.usock = "DONE" /\ Rim(z, y) /\ Fit(y)
  BY <1>2, <1>3, <1>5, <1>7 DEF Heard, One, Core
<1>9. TimerStops(y)
  BY <1>6, <1>7, <1>8 DEF TimerStops
<1>10. \A v \in {"RECV", "SEND"} : NoOp(y, v)
  BY <1>7, <1>8 DEF NoOp, Polls, Has
<1>11. Greeting(y)
  BY <1>1, <1>2, <1>8, <1>9, <1>10 DEF Greeting, Up, Rim
<1>12. InSession(y)
  BY <1>1, <1>2, <1>8, <1>11 DEF InSession, Rim, Still
<1>13. QED
  BY <1>8, <1>12 DEF Kept, Sound, Phase, y, p, z

\* A timer has expired.
Expires(x, t) == [x EXCEPT !.armed = x.armed \ {t}]
LEMMA TimeoutKept ==
  ASSUME NEW x, Sound(x), x.events = <<>>, NEW t \in Timer, t \in x.armed
  PROVE  /\ x.timer[t] = "ACTIVE" =>
               Kept(Raise(Expires(x, t), Ev(TimerOwner(t), t, "TIMEOUT")))
         /\ x.timer[t] = "STOPPING" => Kept(Expires(x, t))
         /\ x.timer[t] \notin {"ACTIVE", "STOPPING"} => Kept(Abort(Expires(x, t)))
<1> DEFINE z == Expires(x, t)
           e == Ev(TimerOwner(t), t, "TIMEOUT")
<1>1. /\ DOMAIN z = ConnectFields /\ z.aborted = FALSE /\ Rim(x, z) /\ z.usock = x.usock
      /\ z.timer = x.timer /\ z.armed = x.armed \ {t} /\ z.events = x.events /\ z.poll = x.poll
      /\ z.tasks = x.tasks
  BY DEF Sound, Fit, ConnectTyped, Rim, ConnectFields, Expires
<1>2. e \in ConnectEvent /\ e = Ev(TimerOwner(t), t, "TIMEOUT")
  BY DEF ConnectEvent, Ev, TimerOwner, Timer
<1> HIDE DEF z, e
<1>3. /\ Fit(x) /\ x.timer[t] # "IDLE"
      /\ \/ Connecting(x) \/ Pausing(x) \/ Disconnecting(x) \/ Finishing(x) \/ Quitting(x)
         \/ InSession(x) /\ Greeting(x)
         \/ RunsOn(x)
         \/ Over(x)
  BY OutsidePhase DEF Sound, Fit, Timed
<1>4. Fit(z)
  <2>1. Wired(z)
    BY <1>1, <1>3 DEF Fit, Wired, Has
  <2>2. Timed(z)
    BY <1>1, <1>3 DEF Fit, Timed
  <2>3. QED
    BY <1>1, <1>3, <2>1, <2>2, FitMade DEF Fit, ConnectTyped
<1>5. /\ t = "TIMER" => ~(x.timer["TIMER"] = "IDLE") /\ TimerOwner(t) = "header"
      /\ t # "TIMER" => t = "RECONNECT_TIMER" /\ ~Still(x) /\ TimerOwner(t) = "ep"
  BY <1>3, TimerNames DEF Still
<1>6. \/ Pausing(x) /\ t = "RECONNECT_TIMER"
      \/ Finishing(x) /\ t = "RECONNECT_TIMER" /\ x.timer[t] = "STOPPING"
      \/ Quitting(x) /\ t = "TIMER" /\ x.timer[t] = "STOPPING"
      \/ InSession(x) /\ Greeting(x) /\ t = "TIMER"
  <2>1. \A a, b, c : ~One(x, a, b, c)
    BY OneIs
  <2>2. ~Connecting(x) /\ ~Disconnecting(x) /\ ~RunsOn(x) /\ ~Over(x)
    BY <1>5 DEF Connecting, Disconnecting, RunsOn, InActive, Running, Over, NoSession
  <2>3. Pausing(x) => t = "RECONNECT_TIMER"
    BY <1>5 DEF Pausing, NoSession
  <2>4. Finishing(x) => t = "RECONNECT_TIMER" /\ x.timer[t] = "STOPPING"
    BY <1>5 DEF Finishing, NoSession
  <2>5. Quitting(x) => t = "TIMER" /\ x.timer[t] = "STOPPING"
    BY <1>5, <2>1 DEF Quitting, NoSession, TimerStops
  <2>6. InSession(x) => t = "TIMER"
    BY <1>5 DEF InSession
  <2>7. QED
    BY <1>3, <2>2, <2>3, <2>4, <2>5, <2>6
<1>7. ASSUME x.timer[t] = "STOPPING"
      PROVE  Kept(z)
  <2>1. ASSUME Pausing(x), t = "RECONNECT_TIMER"
        PROVE  Pausing(z)
    BY <1>1, <1>7, <2>1 DEF Pausing, NoSession, Rim, Still, Settled, One
  <2>2. ASSUME Finishing(x)
        PROVE  Finishing(z)
    BY <1>1, <2>2 DEF Finishing, NoSession, Rim, Still, UsockStops, Settled, One
  <2>3. TimerStops(x) => TimerStops(z)
    BY <1>1 DEF TimerStops, Settled, One
  <2>4. ASSUME Quitting(x)
        PROVE  Quitting(z)
    BY <1>1, <2>3, <2>4 DEF Quitting, NoSession, Rim, Still, Open, One
  <2>5. ASSUME InSession(x), Greeting(x), t = "TIMER"
        PROVE  InSession(z)
    <3>1. ~Talks(x, "SEND", "SENT") /\ ~Talks(x, "RECV", "RECEIVED")
      BY <1>7, <2>5 DEF Talks
    <3>2. \A v : NoOp(z, v) <=> NoOp(x, v)
      BY <1>1 DEF NoOp, Polls, Has
    <3>3. Greeting(z)
      BY <1>1, <2>3, <2>5, <3>1, <3>2 DEF Greeting, Rim, Up
    <3>4. QED
      BY <1>1, <2>5, <3>3 DEF InSession, Rim, Still
  <2>6. QED
    BY <1>4, <1>6, <2>1, <2>2, <2>4, <2>5 DEF Kept, Sound, Phase
<1>8. ASSUME x.timer[t] = "ACTIVE"
      PROVE  Kept(Raise(z, e))
  <2> DEFINE y == Raise(z, e)
  <2>1. Raised(z, y, e) /\ y.events = <<e>>
    BY <1>1, <1>2, <1>4, RaisedFirst
  <2> HIDE DEF y
  <2>2. /\ Rim(x, y) /\ Fit(y) /\ y.timer = x.timer /\ y.usock = x.usock /\ y.poll = x.poll
        /\ y.tasks = x.tasks
    BY <1>1, <2>1 DEF Raised, Frame, Rim
  <2>3. \A a, b, c : ~One(x, a, b, c)
    BY OneIs
  <2>4. ASSUME Pausing(x), t = "RECONNECT_TIMER"
        PROVE  Pausing(y)
    <3>1. x.ep = "WAITING" /\ x.tasks = <<>>
      BY <1>8, <2>3, <2>4 DEF Pausing, Still
    <3>2. One(y, "ep", "RECONNECT_TIMER", "TIMEOUT")
      BY <1>2, <1>5, <2>1, <2>4 DEF One
    <3>3. QED
      BY <1>8, <2>2, <2>4, <3>1, <3>2 DEF Pausing, NoSession, Rim
  <2>5. ASSUME InSession(x), Greeting(x), t = "TIMER"
        PROVE  InSession(y)
    <3>1. ~TimerStops(x)
      BY <1>8, <2>5 DEF TimerStops
    <3>2. One(y, "header", "TIMER", "TIMEOUT")
      BY <1>2, <1>5, <2>1, <2>5 DEF One
    <3>3. \A w, type : Talks(x, w, type) => Talks(y, w, type)
      BY <2>2, <2>3, <3>2 DEF Talks
    <3>4. Greeting(y)
      BY <2>2, <2>5, <3>1, <3>3 DEF Greeting, Rim
    <3>5. QED
      BY <2>2, <2>5, <3>4 DEF InSession, Rim, Still
  <2>6. QED
    BY <1>6, <1>8, <2>2, <2>4, <2>5 DEF Kept, Sound, Phase, y
<1>9. x.ep # "FREED"
  BY <1>6 DEF Pausing, Finishing, Quitting, InSession
<1>10. Lost(Abort(z))
  BY <1>1, <1>4, <1>9, AbortKept DEF Rim
<1>11. QED
  BY <1>7, <1>8, <1>10 DEF Kept, z, e
-----------------------------------------------------------------------------
(* Every step of a connecting endpoint keeps the invariant.                  *)

\* An event is handled only when no assertion has failed.
LEMMA Handled ==
  ASSUME Kept(m), m.events # <<>>, ~m.aborted
  PROVE  Sound(m) /\ Rest = Off(m)
BY DEF Kept, Lost, Rest, Off

\* The protocol is told about its pipe.
LEMMA SockStep ==
  ASSUME Kept(m), NEW r \in Result, SockPipeIn(r) \/ SockPipeOut(r)
  PROVE  Kept(m')
<1>1. /\ Sound(m) /\ Rest = Off(m) /\ m.events # <<>>
      /\ \/ SockPipeIn(r) /\ Head(m.events) = Ev("sock", "PIPE", "IN")
         \/ SockPipeOut(r) /\ Head(m.events) = Ev("sock", "PIPE", "OUT")
  BY Handled DEF SockPipeIn, SockPipeOut, On
<1>2. /\ Kept(Off(m)) /\ Kept(Abort(Off(m))) /\ Kept(PipeRecv(Off(m), r))
      /\ Kept(PipeSend(Off(m), r)) /\ Kept(PipeSend(Odd(Off(m), "early"), r))
  BY <1>1, SockPipeKept
<1>3. m' \in {Off(m), Abort(Off(m)), PipeRecv(Off(m), r), PipeSend(Off(m), r),
              PipeSend(Odd(Off(m), "early"), r)}
  BY <1>1 DEF SockPipeIn, SockPipeOut
<1>4. QED
  BY <1>2, <1>3

\* The header exchange handles an event.
LEMMA HeaderStep ==
  ASSUME Kept(m), HeaderHandle
  PROVE  Kept(m')
<1>1. ASSUME NEW r \in Result, HeaderSent(r)
      PROVE  Kept(m')
  <2>1. /\ Sound(m) /\ Rest = Off(m) /\ m.events # <<>>
        /\ Head(m.events) = Ev("header", "USOCK", "SENT") /\ m.header = "SENDING"
    BY <1>1, Handled DEF HeaderSent, On
  <2>2. Kept(UsockRecv([Off(m) EXCEPT !.header = "RECEIVING"], r))
    BY <2>1, HeaderSentKept
  <2>3. QED
    BY <1>1, <2>1, <2>2 DEF HeaderSent
<1>2. ASSUME HeaderFailed
      PROVE  Kept(m')
  <2>1. /\ Sound(m) /\ Rest = Off(m) /\ m.events # <<>>
        /\ Head(m.events).to = "header" /\ m.header \in {"SENDING", "RECEIVING"}
    BY <1>2, Handled, EvIs DEF HeaderFailed, On
  <2>2. Kept(EndsReads(m, "STOPPING_TIMER_ERROR", 0))
    BY <2>1, HeaderEndsKept
  <2>3. QED
    BY <1>2, <2>1, <2>2 DEF HeaderFailed, HeaderGiveUp, EndsReads
<1>3. ASSUME HeaderIgnored
      PROVE  Kept(m')
  <2>1. /\ Sound(m) /\ Rest = Off(m) /\ m.events # <<>>
    BY <1>3, Handled DEF HeaderIgnored, On, OnAny
  <2>2. Kept(Off(m))
    BY <1>3, <2>1, HeaderIgnoredKept DEF HeaderIgnored, On, OnAny
  <2>3. QED
    BY <1>3, <2>1, <2>2 DEF HeaderIgnored
<1>4. ASSUME HeaderTimerStopped
      PROVE  Kept(m')
  <2>1. /\ Sound(m) /\ Rest = Off(m) /\ m.events # <<>>
        /\ Head(m.events) = Ev("header", "TIMER", "STOPPED")
    BY <1>4, Handled DEF HeaderTimerStopped, On
  <2>2. ASSUME m.header = "STOPPING_TIMER_ERROR"
        PROVE  Kept(Raise(GiveBack([Off(m) EXCEPT !.header = "DONE"], "header"),
                          Ev("session", "HEADER", "ERROR")))
    BY <2>1, <2>2, HeaderTimerStoppedKept
  <2>3. ASSUME m.header = "STOPPING_TIMER_DONE"
        PROVE  Kept(Raise(GiveBack([Off(m) EXCEPT !.header = "DONE"], "header"),
                          Ev("session", "HEADER", "OK")))
    BY <2>1, <2>3, HeaderTimerStoppedKept
  <2>4. QED
    BY <1>4, <2>1, <2>2, <2>3 DEF HeaderTimerStopped
<1>5. ASSUME HeaderStopping
      PROVE  Kept(m')
  <2>1. /\ Sound(m) /\ Rest = Off(m) /\ m.events # <<>>
        /\ Head(m.events).to = "header" /\ m.header = "STOPPING"
    BY <1>5, Handled DEF HeaderStopping, OnAny
  <2>2. Kept(HeaderFinish(Off(m)))
    BY <2>1, HeaderStoppingKept
  <2>3. QED
    BY <1>5, <2>1, <2>2 DEF HeaderStopping
<1>6. QED
  BY <1>1, <1>2, <1>3, <1>4, <1>5, SockStep DEF HeaderHandle

\* The header of the peer, or a part of its response, has come.
LEMMA ReceivedStep ==
  ASSUME Kept(m), NEW r \in Result, HeaderReceived \/ WsResponse(r)
  PROVE  Kept(m')
<1>1. /\ Sound(m) /\ Rest = Off(m) /\ m.events # <<>>
      /\ Head(m.events) = Ev("header", "USOCK", "RECEIVED") /\ m.header = "RECEIVING"
      /\ Head(m.events).to = "header" /\ Head(m.events).type = "RECEIVED"
  BY Handled, EvIs DEF HeaderReceived, WsResponse, On
<1>2. /\ Kept(EndsHeader(m, "STOPPING_TIMER_DONE"))
      /\ Kept(EndsReads(m, "STOPPING_TIMER_DONE", 0))
  BY <1>1, HeaderEndsKept
<1>3. Kept(EndsReads(m, "STOPPING_TIMER_ERROR", 0))
  BY <1>1, HeaderEndsKept
<1>4. \A n : Kept(UsockRecv([Off(m) EXCEPT !.reads = n], r))
  BY <1>1, WsReadsOnKept
<1>5. ASSUME m' = UsockRecv([Rest EXCEPT !.reads = @ + 1], r)
      PROVE  Kept(m')
  <2>1. m' = UsockRecv([Off(m) EXCEPT !.reads = Off(m).reads + 1], r)
    BY <1>1, <1>5
  <2>2. QED
    BY <1>4, <2>1
<1>6. QED
  BY <1>1, <1>2, <1>3, <1>5
  DEF HeaderReceived, WsResponse, HeaderGiveUp, EndsHeader, EndsReads

\* The session opens.
LEMMA SetUpStep ==
  ASSUME Kept(m), NEW r \in Result,
         \/ SessionHeaderOk \/ SessionStartPipe(r)
         \/ \E result \in {"ERROR", "CLOSE_HANDSHAKE"} : SessionHeaderError(result)
  PROVE  Kept(m')
<1>1. Sound(m) /\ Rest = Off(m) /\ m.events # <<>>
  BY Handled DEF SessionHeaderOk, SessionStartPipe, SessionHeaderError, On
<1>2. ASSUME SessionHeaderOk
      PROVE  Kept(m')
  <2>1. Kept(HeaderStop([Off(m) EXCEPT !.session = "STOPPING_HEADER"]))
    BY <1>1, <1>2, SessionHeaderOkKept DEF SessionHeaderOk, On
  <2>2. QED
    BY <1>1, <1>2, <2>1 DEF SessionHeaderOk
<1>3. ASSUME NEW result \in {"ERROR", "CLOSE_HANDSHAKE"}, SessionHeaderError(result)
      PROVE  Kept(m')
  <2>1. Kept(SessionDone(Off(m), result))
    BY <1>1, <1>3, SessionHeaderErrorKept DEF SessionHeaderError, On
  <2>2. QED
    BY <1>1, <1>3, <2>1 DEF SessionHeaderError
<1>4. ASSUME SessionStartPipe(r)
      PROVE  Kept(m')
  <2>1. Head(m.events) = Ev("session", "HEADER", "STOPPED") /\ m.session = "STOPPING_HEADER"
    BY <1>4 DEF SessionStartPipe, On
  <2>2. Kept(Begins(Off(m), r)) /\ Kept(Refused(Off(m)))
    BY <1>1, <2>1, SessionStartPipeKept
  <2>3. QED
    BY <1>1, <1>4, <2>2 DEF SessionStartPipe, Begins, Refused
<1>5. QED
  BY <1>2, <1>3, <1>4

\* The session runs on or ends.
LEMMA EndsStep ==
  ASSUME Kept(m), SessionSent \/ SessionEnds
  PROVE  Kept(m')
<1>1. Sound(m) /\ Rest = Off(m) /\ m.events # <<>>
  BY Handled
  DEF SessionSent, SessionEnds, SessionShutdown, SessionError, SessionStopping, On, OnAny
<1>2. ASSUME SessionSent
      PROVE  Kept(m')
  <2>1. Kept(IF m.out = "SENDING" THEN PipeSent([Off(m) EXCEPT !.out = "IDLE"])
                                  ELSE Abort(Off(m)))
    BY <1>1, <1>2, SessionSentKept DEF SessionSent, On
  <2>2. QED
    BY <1>1, <1>2, <2>1 DEF SessionSent
<1>3. ASSUME SessionShutdown
      PROVE  Kept(m')
  <2>1. Kept(PipeStop([Off(m) EXCEPT !.session = "SHUTTING_DOWN"]))
    BY <1>1, <1>3, SessionShutdownKept DEF SessionShutdown, On
  <2>2. QED
    BY <1>1, <1>3, <2>1 DEF SessionShutdown
<1>4. ASSUME SessionError
      PROVE  Kept(m')
  <2>1. Kept(SessionDone(PipeStop(Off(m)), "ERROR")) /\ Kept(SessionDone(Off(m), "ERROR"))
    BY <1>1, <1>4, SessionErrorKept DEF SessionError, On
  <2>2. QED
    BY <1>1, <1>4, <2>1 DEF SessionError
<1>5. ASSUME SessionStopping
      PROVE  Kept(m')
  <2>1. Kept(SessionFinish(Off(m)))
    BY <1>1, <1>5, SessionStoppingKept DEF SessionStopping, OnAny
  <2>2. QED
    BY <1>1, <1>5, <2>1 DEF SessionStopping
<1>6. QED
  BY <1>2, <1>3, <1>4, <1>5 DEF SessionEnds

\* A session of stcp or sipc has received something.
LEMMA SessionReceivedStep ==
  ASSUME Kept(m), NEW r \in Result, SessionReceived(r)
  PROVE  Kept(m')
<1>1. /\ Sound(m) /\ Rest = Off(m) /\ m.events # <<>>
      /\ Head(m.events) = Ev("session", "USOCK", "RECEIVED") /\ m.session = "ACTIVE"
  BY Handled DEF SessionReceived, On
<1>2. /\ Kept(SessionDone(Off(m), "ERROR")) /\ Kept(Abort(Off(m)))
      /\ \A i : /\ Kept(UsockRecv([Off(m) EXCEPT !.in = i], r))
                /\ Kept(PipeReceived([Off(m) EXCEPT !.in = i]))
  BY <1>1, SessionReceivedKept
<1>3. /\ Kept(UsockRecv([Off(m) EXCEPT !.in = "BODY"], r))
      /\ Kept(PipeReceived([Off(m) EXCEPT !.in = "HASMSG"]))
  BY <1>2
<1>4. QED
  BY <1>1, <1>2, <1>3 DEF SessionReceived

\* The payload of a frame is read.
SwsBody(x, final) == [x EXCEPT !.in = "BODY", !.chunks = TRUE, !.continuing = ~final]

\* What sws does with a header.
LEMMA SwsHeaderIs ==
  ASSUME NEW r, SwsHeader(r)
  PROVE  \/ m' = FailConn(Rest, r) \/ m' = PipeReceived([Rest EXCEPT !.in = "HASCONTROL"])
         \/ m' = PipeReceived([Rest EXCEPT !.in = "HASMSG", !.continuing = FALSE])
         \/ m' = NextHeader([Rest EXCEPT !.continuing = TRUE], r)
         \/ m' = UsockRecv([Rest EXCEPT !.in = "CONTROL"], r)
         \/ \E final \in BOOLEAN : m' = UsockRecv(SwsBody(Rest, final), r)
BY Zenon DEF SwsHeader, SwsBody

\* A session of sws has received something.
LEMMA SwsReceivedStep ==
  ASSUME Kept(m), NEW r \in Result, SwsReceived(r)
  PROVE  Kept(m')
<1>1. /\ Sound(m) /\ Rest = Off(m) /\ m.events # <<>>
      /\ Head(m.events) = Ev("session", "USOCK", "RECEIVED") /\ m.session = "ACTIVE"
  BY Handled DEF SwsReceived, On
<1>2. RunsOn(Off(m)) /\ Off(m).usock # "DONE" /\ Kept(FailConn(Off(m), r)) /\ Fit(Off(m))
  BY <1>1, ActiveTold, FailConnKept, RunsOnKept
<1> DEFINE z == Off(m)
           control == [z EXCEPT !.in = "HASCONTROL"]
           message == [z EXCEPT !.in = "HASMSG"]
           whole == [z EXCEPT !.in = "HASMSG", !.continuing = FALSE]
           more == [z EXCEPT !.continuing = TRUE]
           payload == [z EXCEPT !.in = "CONTROL"]
<1>3. /\ Core(z, z) /\ Frame(z, z) /\ Core(z, control) /\ Frame(z, control)
      /\ Core(z, message) /\ Frame(z, message) /\ Core(z, whole) /\ Frame(z, whole)
      /\ Core(z, more) /\ Frame(z, more) /\ Core(z, payload) /\ Frame(z, payload)
  BY <1>2 DEF Fit, ConnectTyped, Core, Frame, ConnectFields
<1>4. \A final \in BOOLEAN : Core(z, SwsBody(z, final)) /\ Frame(z, SwsBody(z, final))
  BY <1>2 DEF SwsBody, Fit, ConnectTyped, Core, Frame, ConnectFields
<1>5. /\ SwsHeader(r) =>
            \/ m' = FailConn(z, r) \/ m' = PipeReceived(control) \/ m' = PipeReceived(whole)
            \/ m' = NextHeader(more, r) \/ m' = UsockRecv(payload, r)
            \/ \E final \in BOOLEAN : m' = UsockRecv(SwsBody(z, final), r)
      /\ SwsPayload(r) =>
            \/ m' = FailConn(z, r) \/ m' = PipeReceived(control)
            \/ m' = NextHeader(z, r) \/ m' = PipeReceived(message)
  <2>1. Rest = z
    BY <1>1
  <2>2. SwsPayload(r) =>
            \/ m' = FailConn(Rest, r) \/ m' = PipeReceived([Rest EXCEPT !.in = "HASCONTROL"])
            \/ m' = NextHeader(Rest, r) \/ m' = PipeReceived([Rest EXCEPT !.in = "HASMSG"])
    BY DEF SwsPayload
  <2>3. QED
    BY <2>1, <2>2, SwsHeaderIs
<1>6. m' = Abort(z) \/ SwsHeader(r) \/ SwsPayload(r)
  BY <1>1 DEF SwsReceived
<1> HIDE DEF z, control, message, whole, more, payload
<1>7. ASSUME NEW v, Core(z, v), Frame(z, v)
      PROVE  /\ Kept(UsockRecv(v, r)) /\ Kept(NextHeader(v, r)) /\ Kept(PipeReceived(v))
             /\ Kept(Abort(v))
  BY <1>2, <1>7, ReadKept DEF z
<1>8. Kept(FailConn(z, r))
  BY <1>2 DEF z
<1>9. QED
  BY <1>3, <1>4, <1>5, <1>6, <1>7, <1>8

\* A session of sws closes the connection.
LEMMA SwsClosingStep ==
  ASSUME Kept(m), SwsClosing
  PROVE  Kept(m')
<1>1. Sound(m) /\ Rest = Off(m) /\ m.events # <<>> /\ m.session = "CLOSING_CONNECTION"
  BY Handled DEF SwsClosing, On
<1>2. ASSUME Head(m.events) = Ev("session", "USOCK", "SENT")
      PROVE  Kept(SessionDone([Off(m) EXCEPT !.out = "IDLE"], "CLOSE_HANDSHAKE"))
  BY <1>1, <1>2, SwsClosedKept
<1>3. ASSUME Head(m.events) = Ev("session", "USOCK", "SHUTDOWN")
      PROVE  Kept(Off(m))
  BY <1>1, <1>3, SessionShutdownKept
<1>4. ASSUME Head(m.events) = Ev("session", "USOCK", "ERROR")
      PROVE  Kept(SessionDone(Off(m), "ERROR"))
  BY <1>1, <1>4, SessionErrorKept
<1>5. QED
  BY <1>1, <1>2, <1>3, <1>4 DEF SwsClosing, On

\* nn_c*_handler: the endpoint handles an event.
LEMMA SessionEndStep ==
  ASSUME Kept(m), SessionFailed \/ SessionClosed
  PROVE  Kept(m')
<1>1. Sound(m) /\ Rest = Off(m) /\ m.events # <<>> /\ m.ep = "ACTIVE" /\ Taken(m, Off(m))
  BY Handled, TakenBy DEF SessionFailed, SessionClosed, On
<1>2. ASSUME NEW z, z.peerGone = m.peerGone \/ z.peerGone = TRUE,
             /\ DOMAIN z = ConnectFields /\ Core(Off(m), z) /\ z.ep = "STOPPING_SESSION"
             /\ z.dns = m.dns /\ z.owner = m.owner /\ z.header = m.header
             /\ z.saved = m.saved /\ z.session = m.session,
             \/ Head(m.events) = Ev("ep", "SESSION", "ERROR") /\ ~z.peerGone
             \/ Head(m.events) = Ev("ep", "SESSION", "CLOSE_HANDSHAKE") /\ z.peerGone
      PROVE  Kept(SessionStop(z))
  BY <1>1, <1>2, SessionEndedKept
<1>3. ASSUME SessionFailed
      PROVE  Kept(m')
  <2> DEFINE z == [Off(m) EXCEPT !.ep = "STOPPING_SESSION"]
  <2>1. Head(m.events) = Ev("ep", "SESSION", "ERROR")
    BY <1>3 DEF SessionFailed, On
  <2>2. ~m.peerGone
    BY <1>1, <2>1, EpPhase, EvIs
    DEF Resolving, Connecting, Pausing, Disconnecting, Finishing, Parting, Quitting, InSession
  <2>3. /\ DOMAIN z = ConnectFields /\ Core(Off(m), z) /\ z.ep = "STOPPING_SESSION"
        /\ z.dns = m.dns /\ z.owner = m.owner /\ z.header = m.header
        /\ z.saved = m.saved /\ z.session = m.session /\ z.peerGone = m.peerGone
    BY <1>1 DEF Taken, Fit, ConnectTyped, Frame, Core, ConnectFields
  <2>4. m' = SessionStop(z)
    BY <1>1, <1>3 DEF SessionFailed
  <2> HIDE DEF z
  <2>5. QED
    BY <1>2, <2>1, <2>2, <2>3, <2>4
<1>4. ASSUME SessionClosed
      PROVE  Kept(m')
  <2> DEFINE z == [Off(m) EXCEPT !.ep = "STOPPING_SESSION", !.peerGone = TRUE]
  <2>1. Head(m.events) = Ev("ep", "SESSION", "CLOSE_HANDSHAKE")
    BY <1>4 DEF SessionClosed, On
  <2>2. /\ DOMAIN z = ConnectFields /\ Core(Off(m), z) /\ z.ep = "STOPPING_SESSION"
        /\ z.dns = m.dns /\ z.owner = m.owner /\ z.header = m.header
        /\ z.saved = m.saved /\ z.session = m.session /\ z.peerGone = TRUE
    BY <1>1 DEF Taken, Fit, ConnectTyped, Frame, Core, ConnectFields
  <2>3. m' = SessionStop(z)
    BY <1>1, <1>4 DEF SessionClosed
  <2> HIDE DEF z
  <2>4. QED
    BY <1>2, <2>1, <2>2, <2>3
<1>5. QED
  BY <1>3, <1>4

\* The endpoint has connected or not, or its parts have stopped.
LEMMA ConnectionStep ==
  ASSUME Kept(m), Connection
  PROVE  Kept(m')
<1>1. ASSUME NEW r \in Result, Connected(r)
      PROVE  Kept(m')
  <2>1. Sound(m) /\ Rest = Off(m) /\ m.events # <<>>
        /\ Head(m.events) = Ev("ep", "USOCK", "CONNECTED") /\ m.ep = "CONNECTING"
    BY <1>1, Handled DEF Connected, On
  <2>2. Kept(Admits(Off(m), r))
    BY <2>1, ConnectedKept
  <2>3. QED
    BY <1>1, <2>1, <2>2 DEF Connected, Admits
<1>2. ASSUME ConnectError
      PROVE  Kept(m')
  <2>1. Sound(m) /\ Rest = Off(m) /\ m.events # <<>>
        /\ Head(m.events) = Ev("ep", "USOCK", "ERROR") /\ m.ep = "CONNECTING"
    BY <1>2, Handled DEF ConnectError, On
  <2>2. Kept(UsockStop([Off(m) EXCEPT !.ep = "STOPPING_USOCK"]))
    BY <2>1, ConnectErrorKept
  <2>3. QED
    BY <1>2, <2>1, <2>2 DEF ConnectError
<1>3. ASSUME SessionStopped
      PROVE  Kept(m')
  <2>1. Sound(m) /\ Rest = Off(m) /\ m.events # <<>>
        /\ Head(m.events) = Ev("ep", "SESSION", "STOPPED") /\ m.ep = "STOPPING_SESSION"
    BY <1>3, Handled DEF SessionStopped, On
  <2>2. Kept(UsockStop([Off(m) EXCEPT !.ep = "STOPPING_USOCK"]))
    BY <2>1, SessionStoppedKept
  <2>3. QED
    BY <1>3, <2>1, <2>2 DEF SessionStopped
<1>4. QED
  BY <1>1, <1>2, <1>3, SessionEndStep DEF Connection

\* The endpoint resolves the address, or waits before it tries again.
LEMMA RetryStep ==
  ASSUME Kept(m),
         \/ Resolved \/ UsockStopped \/ Waited
         \/ DnsStopped(CtcpStartConnecting(Rest))
         \/ Retry(ResolveAgain) \/ Retry(CipcStartConnecting(Rest))
  PROVE  Kept(m')
<1>1. Sound(m) /\ Rest = Off(m) /\ m.events # <<>>
  BY Handled DEF Resolved, UsockStopped, Waited, DnsStopped, Retry, On
<1>2. ASSUME Resolved
      PROVE  Kept(m')
  <2>1. Kept(DnsStop([Off(m) EXCEPT !.ep = "STOPPING_DNS"]))
    BY <1>1, <1>2, ResolvedKept DEF Resolved, On
  <2>2. QED
    BY <1>1, <1>2, <2>1 DEF Resolved
<1>3. ASSUME UsockStopped
      PROVE  Kept(m')
  <2>1. /\ Head(m.events) = Ev("ep", "USOCK", "SHUTDOWN") => Kept(Off(m))
        /\ Head(m.events) = Ev("ep", "USOCK", "STOPPED") =>
               Kept(IF m.peerGone THEN Off(m) ELSE StartWaiting(Off(m)))
    BY <1>1, <1>3, UsockStoppedKept DEF UsockStopped
  <2>2. QED
    BY <1>1, <1>3, <2>1 DEF UsockStopped, On
<1>4. ASSUME Waited
      PROVE  Kept(m')
  <2>1. Kept(TimerStop([Off(m) EXCEPT !.ep = "STOPPING_BACKOFF"], "RECONNECT_TIMER"))
    BY <1>1, <1>4, WaitedKept DEF Waited, On
  <2>2. QED
    BY <1>1, <1>4, <2>1 DEF Waited
<1>5. CipcStartConnecting(Rest) \subseteq CtcpStartConnecting(Rest)
  BY DEF CtcpStartConnecting
<1>6. ASSUME Idles(Off(m)), NEW y \in CtcpStartConnecting(Rest)
      PROVE  Kept(y)
  BY <1>1, <1>6, StartConnectingKept
<1>7. ASSUME DnsStopped(CtcpStartConnecting(Rest))
      PROVE  Kept(m')
  <2>1. Idles(Off(m))
    BY <1>1, <1>7, DnsStoppedIdles DEF DnsStopped, On
  <2>2. Kept(StartWaiting(Off(m)))
    BY <2>1, StartWaitingKept DEF Idles
  <2>3. QED
    BY <1>1, <1>6, <1>7, <2>1, <2>2 DEF DnsStopped
<1>8. ASSUME Retry(ResolveAgain) \/ Retry(CipcStartConnecting(Rest))
      PROVE  Kept(m')
  <2>1. Idles(Off(m))
    BY <1>1, <1>8, RetryIdles DEF Retry, On
  <2>2. \A found : Kept(StartResolving(Off(m), found))
    BY <2>1, StartResolvingKept
  <2>3. m' \in ResolveAgain \/ m' \in CtcpStartConnecting(Rest)
    BY <1>5, <1>8 DEF Retry
  <2>4. QED
    BY <1>1, <1>6, <2>1, <2>2, <2>3 DEF ResolveAgain
<1>9. QED
  BY <1>2, <1>3, <1>4, <1>7, <1>8

\* The endpoint stops, and is destroyed.
LEMMA EpStoppingStep ==
  ASSUME Kept(m), EpStopping \/ Destroy
  PROVE  Kept(m')
<1>1. Sound(m) /\ Rest = Off(m) /\ m.events # <<>>
  BY Handled DEF EpStopping, Destroy, On, OnAny
<1>2. ASSUME EpStopping
      PROVE  Kept(m')
  <2>1. Kept(EpFinish(Off(m)))
    BY <1>1, <1>2, EpStoppingKept DEF EpStopping, OnAny
  <2>2. QED
    BY <1>1, <1>2, <2>1 DEF EpStopping
<1>3. ASSUME Destroy
      PROVE  Kept(m')
  <2>1. Kept(IF Quiet(m) THEN [Off(m) EXCEPT !.ep = "FREED"] ELSE Abort(Off(m)))
    BY <1>1, <1>3, DestroyKept DEF Destroy, On
  <2>2. QED
    BY <1>1, <1>3, <2>1 DEF Destroy
<1>4. QED
  BY <1>2, <1>3

\* Whatever event is handled.
LEMMA HandleStep ==
  ASSUME Kept(m), ConnectHandle
  PROVE  Kept(m')
<1>1. ASSUME StcpHandle \/ SipcSetUp \/ SipcActive
      PROVE  Kept(m')
  <2>1. \/ HeaderReceived \/ SessionSetUp \/ SessionHeaderError("ERROR")
        \/ SessionSent \/ (\E r \in Result : SessionReceived(r)) \/ SessionEnds
    BY <1>1 DEF StcpHandle, SipcSetUp, SipcActive
  <2>2. "done" \in Result
    BY DEF Result
  <2>3. QED
    BY <2>1, <2>2, ReceivedStep, SetUpStep, EndsStep, SessionReceivedStep DEF SessionSetUp
<1>2. ASSUME SwsSetUp \/ SwsActive
      PROVE  Kept(m')
  <2>1. \/ (\E r \in Result : WsResponse(r)) \/ SessionSetUp \/ SessionHeaderError("CLOSE_HANDSHAKE")
        \/ SessionSent \/ (\E r \in Result : SwsReceived(r)) \/ SessionEnds \/ SwsClosing
    BY <1>2 DEF SwsSetUp, SwsActive
  <2>2. "done" \in Result
    BY DEF Result
  <2>3. QED
    BY <2>1, <2>2, ReceivedStep, SetUpStep, EndsStep, SwsReceivedStep, SwsClosingStep
    DEF SessionSetUp
<1>3. ASSUME CtcpHandle \/ CipcConnection \/ CipcRetry \/ CwsConnection \/ CwsRetry
      PROVE  Kept(m')
  <2>1. \/ Resolved \/ DnsStopped(CtcpStartConnecting(Rest)) \/ Connection \/ SessionClosed
        \/ UsockStopped \/ Waited \/ Retry(ResolveAgain) \/ Retry(CipcStartConnecting(Rest))
    BY <1>3 DEF CtcpHandle, CipcConnection, CipcRetry, CwsConnection, CwsRetry, CwsStartConnecting
  <2>2. QED
    BY <2>1, RetryStep, ConnectionStep, SessionEndStep
<1>4. QED
  BY <1>1, <1>2, <1>3, HeaderStep, EpStoppingStep DEF ConnectHandle

\* The worker or the user enters the context.
LEMMA OutsideSound ==
  ASSUME Kept(m), Outside
  PROVE  Sound(m) /\ m.events = <<>> /\ DOMAIN m = ConnectFields
BY DEF Kept, Lost, Outside, Sound, Fit, ConnectTyped

\* The protocol has the pipe, and uses it.
LEMMA UserStep ==
  ASSUME Kept(m), NEW r \in Result, UserSend(r) \/ UserRecv(r)
  PROVE  Kept(m')
<1>1. Sound(m) /\ m.events = <<>> /\ m.pipe = "ACTIVE" /\ Fit(m)
  BY OutsideSound DEF UserSend, UserRecv, Sound
<1>2. RunsOn(m)
  BY <1>1, OutsidePhase DEF Connecting, Pausing, Disconnecting, Finishing, Quitting, Greeting,
         Over, NoSession
<1>3. m.ep # "FREED"
  BY <1>2, RunsOnKept
<1>4. Kept(PipeSend(m, r)) /\ Kept(PipeRecv(m, r))
  BY <1>1, <1>2, <1>3, PipeUsedKept
<1>5. QED
  BY <1>4 DEF UserSend, UserRecv

\* What the poller reports, in terms of the lemmas above.
UsesFd(x, w, type) == UsockEvent([x EXCEPT !.poll = x.poll \ {w}], type)
OpensFd(x, w, type) == UsockEvent([x EXCEPT !.poll = x.poll \ {w}, !.usock = "ACTIVE"], type)
LEMMA BrokenIs ==
  ASSUME NEW x, DOMAIN x = ConnectFields
  PROVE  UsockBroken(x) = TellsOwner(x, x.poll \ {"FD"}, "DONE", "ERROR")
<1>1. \A p, u : [x EXCEPT !.poll = p, !.usock = u].owner = x.owner
  BY DEF ConnectFields
<1>2. QED
  BY <1>1 DEF UsockBroken, UsockEvent, TellsOwner

\* The same when the connection is up.
LEMMA OpensFdIs ==
  ASSUME NEW x, DOMAIN x = ConnectFields, NEW w, NEW type
  PROVE  OpensFd(x, w, type) = TellsOwner(x, x.poll \ {w}, "ACTIVE", type)
<1>1. \A p, u : [x EXCEPT !.poll = p, !.usock = u].owner = x.owner
  BY DEF ConnectFields
<1>2. QED
  BY <1>1 DEF UsockEvent, OpensFd, TellsOwner

\* The same when data came or went.
LEMMA UsesFdIs ==
  ASSUME NEW x, DOMAIN x = ConnectFields, x.usock = "ACTIVE", NEW w, NEW type
  PROVE  UsesFd(x, w, type) = TellsOwner(x, x.poll \ {w}, "ACTIVE", type)
<1> DEFINE p == x.poll \ {w}
<1> HIDE DEF p
<1>1. /\ [x EXCEPT !.poll = p] = [x EXCEPT !.poll = p, !.usock = "ACTIVE"]
      /\ [x EXCEPT !.poll = p].owner = x.owner
  BY DEF ConnectFields
<1>2. QED
  BY <1>1 DEF UsockEvent, UsesFd, TellsOwner, p

\* The poller reports something about the descriptor.
LEMMA FdStep ==
  ASSUME Kept(m), FdIn \/ FdOut \/ FdErr
  PROVE  Kept(m')
<1>1. /\ Sound(m) /\ m.events = <<>> /\ DOMAIN m = ConnectFields
      /\ "FD" \in m.poll /\ m.usock \notin {"REMOVING_FD", "STOPPING"}
  BY OutsideSound DEF FdIn, FdOut, FdErr
<1>2. /\ m.usock \in {"ACTIVE", "CONNECTING"} /\ m.ep # "FREED" /\ Fit(m)
      /\ m.usock = "CONNECTING" => "IN" \notin m.poll
  BY <1>1, FdPhase
<1>3. m.header # "STOPPING_TIMER_DONE" => Kept(UsockBroken(m))
  BY <1>1, <1>2, BrokenKept, BrokenIs
<1>4. m.header = "STOPPING_TIMER_DONE" =>
         m.usock = "ACTIVE" /\ "IN" \notin m.poll /\ "OUT" \notin m.poll
  <2>1. ASSUME m.header = "STOPPING_TIMER_DONE"
        PROVE  Greeting(m) /\ m.usock = "ACTIVE" /\ ~Has(m, U("CONNECTED")) /\ ~Has(m, U("CONNECTING"))
    BY <1>1, <2>1, FdPhase
  <2>2. QED
    BY <2>1 DEF Greeting, NoOp, Polls, Dir
<1>5. ASSUME FdIn
      PROVE  Kept(m')
  <2>1. "IN" \in m.poll /\ m.usock = "ACTIVE" /\ m.header # "STOPPING_TIMER_DONE"
    BY <1>2, <1>4, <1>5 DEF FdIn
  <2>2. Kept(TellsOwner(m, m.poll \ {"IN"}, "ACTIVE", "RECEIVED"))
    BY <1>1, <2>1, FdUsedKept
  <2>3. Kept(UsesFd(m, "IN", "RECEIVED"))
    BY <1>1, <2>1, <2>2, UsesFdIs
  <2>4. QED
    BY <1>3, <1>5, <2>1, <2>3 DEF FdIn, UsesFd
<1>6. ASSUME FdOut
      PROVE  Kept(m')
  <2>1. "OUT" \in m.poll /\ m.header # "STOPPING_TIMER_DONE"
    BY <1>4, <1>6 DEF FdOut
  <2>2. /\ m.usock = "ACTIVE" => Kept(TellsOwner(m, m.poll \ {"OUT"}, "ACTIVE", "SENT"))
        /\ m.usock = "CONNECTING" => Kept(TellsOwner(m, m.poll \ {"OUT"}, "ACTIVE", "CONNECTED"))
    BY <1>1, <2>1, FdUsedKept
  <2>3. /\ m.usock = "ACTIVE" => Kept(UsesFd(m, "OUT", "SENT"))
        /\ m.usock = "CONNECTING" => Kept(OpensFd(m, "OUT", "CONNECTED"))
    BY <1>1, <2>2, UsesFdIs, OpensFdIs
  <2>4. QED
    BY <1>2, <1>3, <1>6, <2>1, <2>3 DEF FdOut, UsesFd, OpensFd
<1>7. ASSUME FdErr
      PROVE  Kept(m')
  <2>1. ASSUME m.header = "STOPPING_TIMER_DONE"
        PROVE  Kept(UsockBroken(Odd(m, "lost")))
    <3>1. DOMAIN Odd(m, "lost") = ConnectFields
      BY <1>1 DEF Odd
    <3>2. QED
      BY <1>1, <2>1, <3>1, LostKept, BrokenIs
  <2>2. QED
    BY <1>2, <1>3, <1>7, <2>1 DEF FdErr
<1>8. QED
  BY <1>5, <1>6, <1>7

\* The worker executes a task.
LEMMA TaskStep ==
  ASSUME Kept(m), ExecuteTask
  PROVE  Kept(m')
<1>1. Sound(m) /\ m.events = <<>> /\ m.tasks # <<>>
  BY OutsideSound DEF ExecuteTask
<1>2. LET z == [m EXCEPT !.tasks = Tail(m.tasks)]
          y == IF Head(m.tasks)[1] = "usock" THEN UsockTask(z, Head(m.tasks)[2])
               ELSE TimerTask(z, Head(m.tasks)[1], Head(m.tasks)[2])
      IN Kept(y)
  BY <1>1, ExecuteKept
<1>3. QED
  BY <1>2 DEF ExecuteTask

\* A timer expires.
LEMMA TimeoutStep ==
  ASSUME Kept(m), NEW t \in Timer, Timeout(t)
  PROVE  Kept(m')
<1>1. Sound(m) /\ m.events = <<>> /\ t \in m.armed
  BY OutsideSound DEF Timeout
<1>2. /\ m.timer[t] = "ACTIVE" =>
            Kept(Raise(Expires(m, t), Ev(TimerOwner(t), t, "TIMEOUT")))
      /\ m.timer[t] = "STOPPING" => Kept(Expires(m, t))
      /\ m.timer[t] \notin {"ACTIVE", "STOPPING"} => Kept(Abort(Expires(m, t)))
  BY <1>1, TimeoutKept
<1>3. \/ m.timer[t] = "ACTIVE" /\ m' = Raise(Expires(m, t), Ev(TimerOwner(t), t, "TIMEOUT"))
      \/ m.timer[t] = "STOPPING" /\ m' = Expires(m, t)
      \/ m.timer[t] \notin {"ACTIVE", "STOPPING"} /\ m' = Abort(Expires(m, t))
  BY DEF Timeout, Expires
<1>4. QED
  BY <1>2, <1>3

\* Whoever enters the context.
LEMMA EnterStep ==
  ASSUME Kept(m), StreamEnter
  PROVE  Kept(m')
BY TaskStep, TimeoutStep, FdStep, UserStep DEF StreamEnter

\* The endpoint is told to stop.
LEMMA StopStep ==
  ASSUME Kept(m), ConnectStop
  PROVE  Kept(m')
<1>1. Sound(m) /\ m.events = <<>>
  BY OutsideSound DEF ConnectStop
<1>2. QED
  BY <1>1, StopKept DEF ConnectStop

\* Nobody expects the event.
LEMMA UnexpectedStep ==
  ASSUME Kept(m), Unexpected
  PROVE  Kept(m')
<1>1. m.events # <<>> /\ ~m.aborted /\ m' = Abort(Rest)
  BY DEF Unexpected
<1>2. Sound(m) /\ Rest = Off(m)
  BY <1>1, Handled
<1>3. Taken(m, Off(m)) /\ m.ep # "FREED"
  BY <1>1, <1>2, TakenBy
<1>4. Fit(Off(m)) /\ Off(m).ep # "FREED"
  BY <1>3 DEF Taken, Frame
<1>5. QED
  BY <1>1, <1>2, <1>4, AbortKept DEF Kept

\* A new endpoint is idle.
LEMMA CreatedIdles ==
  ASSUME NEW k \in {"tcp", "ipc", "ws"}
  PROVE  Idles(Created(k))
<1> DEFINE x == Created(k)
<1>1. /\ DOMAIN x = ConnectFields /\ x.aborted = FALSE /\ x.kind = k /\ x.usock = "IDLE"
      /\ x.owner = "ep" /\ x.timer = [t \in Timer |-> "IDLE"]
      /\ x.saved = [session |-> NULL, header |-> NULL]
      /\ x.tasks = <<>> /\ x.events = <<>> /\ x.poll = {} /\ x.armed = {} /\ x.ep = "IDLE"
      /\ x.session = "IDLE" /\ x.header = "IDLE" /\ x.pipe = "IDLE" /\ x.dns = "IDLE"
      /\ x.peerGone = FALSE
  BY DEF Created, ConnectFields
<1> HIDE DEF x
<1>2. x.tasks \in Seq(ConnectTask) /\ x.events \in Seq(ConnectEvent)
      /\ Distinct(x.tasks) /\ Distinct(x.events) /\ \A t : ~Has(x, t)
  BY <1>1 DEF Distinct, Has, Range
<1>3. DOMAIN x.timer = Timer /\ DOMAIN x.saved = {"session", "header"}
      /\ x.timer["TIMER"] = "IDLE" /\ x.timer["RECONNECT_TIMER"] = "IDLE"
  BY <1>1 DEF Timer
<1>4. ConnectTyped(x)
  BY <1>1, <1>2, <1>3 DEF ConnectTyped, UsockState
<1>5. Wired(x) /\ Timed(x)
  BY <1>1, <1>2 DEF Wired, Timed
<1>6. Idles(x)
  BY <1>1, <1>3, <1>4, <1>5 DEF Idles, Rests, Fit, NoSession, Still
<1>7. QED
  BY <1>6 DEF x

\* A new endpoint resolves its address, or connects at once.
LEMMA CreatedKept ==
  ASSUME ConnectInit
  PROVE  Kept(m)
<1>1. Idles(Created("tcp")) /\ Idles(Created("ipc")) /\ Idles(Created("ws"))
  BY CreatedIdles
<1>2. CipcStartConnecting(Created("ipc")) \subseteq CtcpStartConnecting(Created("ipc"))
  BY DEF CtcpStartConnecting
<1>3. \A k, found : Idles(Created(k)) => Kept(StartResolving(Created(k), found))
  BY StartResolvingKept
<1>4. \A y \in CtcpStartConnecting(Created("ipc")) : Kept(y)
  BY <1>1, StartConnectingKept
<1>5. QED
  BY <1>1, <1>2, <1>3, <1>4 DEF ConnectInit, CtcpCreate, CipcCreate, CwsCreate
-----------------------------------------------------------------------------
(* The invariant.                                                            *)

CInv == side = "connect" => Kept(m)

\* It holds when the endpoint is made.
LEMMA CInvInit ==
  Init => CInv
BY CreatedKept DEF Init, CInv

\* Every step keeps it.
LEMMA CInvNext ==
  CInv /\ [Next]_vars => CInv'
<1> SUFFICES ASSUME CInv, [Next]_vars, side' = "connect"
             PROVE  Kept(m')
  BY DEF CInv
<1>1. CASE Next
  <2>1. side = "connect" /\ Kept(m)
    BY <1>1 DEF Next, CInv
  <2>2. CASE Enter
    BY <2>1, <2>2, EnterStep DEF Enter
  <2>3. CASE Handle
    BY <2>1, <2>3, HandleStep DEF Handle
  <2>4. CASE Stop
    BY <2>1, <2>4, StopStep DEF Stop
  <2>5. CASE Unexpected
    BY <2>1, <2>5, UnexpectedStep
  <2>6. CASE UNCHANGED m
    BY <2>1, <2>6
  <2>7. QED
    BY <1>1, <2>2, <2>3, <2>4, <2>5, <2>6 DEF Next
<1>2. CASE UNCHANGED vars
  BY <1>2 DEF vars, CInv
<1>3. QED
  BY <1>1, <1>2

\* Between two events the protocol has the pipe exactly while the session runs.
LEMMA CInvPipeIsConnected ==
  CInv => PipeIsConnected
<1> SUFFICES ASSUME CInv, side = "connect", Outside, "lost" \notin m.odd
             PROVE  PipeWorks
  BY DEF PipeIsConnected
<1>1. Sound(m) /\ m.events = <<>>
  BY OutsideSound DEF CInv
<1>2. CASE RunsOn(m)
  <2>1. ~Breaks(m) /\ \A e : ~Gets(m, e)
    BY <1>1, OneOnly DEF Breaks, Gets, Range
  <2>2. QED
    BY <1>2, <2>1 DEF RunsOn, Running, PipeWorks
<1>3. CASE ~RunsOn(m)
  BY <1>1, <1>3, OutsidePhase
  DEF Connecting, Pausing, Disconnecting, Finishing, Quitting, Greeting, Over, NoSession, PipeWorks
<1>4. QED
  BY <1>2, <1>3

\* What a freed connecting endpoint leaves.
LEMMA CInvFreed ==
  ASSUME CInv, side = "connect", m.ep = "FREED"
  PROVE  m.tasks = <<>> /\ m.events = <<>> /\ "FD" \notin m.poll
<1>1. Sound(m)
  BY DEF CInv, Kept, Lost
<1>2. Over(m)
  BY <1>1 DEF Sound, Phase, Resolving, Connecting, Pausing, Disconnecting, Finishing,
         InSession, Parting, Quitting
<1>3. QED
  BY <1>1, <1>2 DEF Over, Settled, Sound, Fit, Wired

\* Whenever the protocol may use the pipe of a connecting endpoint, its session runs
\* on a connection that is up - unless it broke unnoticed, as m.odd remembers.
THEOREM SpecPipeIsConnected ==
  Spec => []PipeIsConnected
<1>1. CInv => PipeIsConnected
  BY CInvPipeIsConnected
<1>2. QED
  BY <1>1, CInvInit, CInvNext, PTL DEF Spec

\* An endpoint stays on its side.
Sides == side \in {"connect", "listen"}

\* Of an endpoint that was freed, bound or connecting, nothing is left: no task or
\* event for it, no descriptor in the poller, and nothing a bound one owned.
THEOREM SpecFreedClean ==
  Spec => []FreedClean
<1>1. Init => Sides
  BY DEF Init, Sides
<1>2. Sides /\ [Next]_vars => Sides'
  BY DEF Sides, Next, vars
<1>3. Sides /\ CInv /\ BoundFreedClean => FreedClean
  BY CInvFreed DEF Sides, BoundFreedClean, FreedClean
<1>4. QED
  BY <1>1, <1>2, <1>3, CInvInit, CInvNext, SpecBoundFreedClean, PTL DEF Spec
=============================================================================
