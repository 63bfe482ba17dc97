---------------------------- MODULE Endpoints_proofs ----------------------------
(* A bound endpoint keeps listening, and leaves nothing behind when it is     *)
(* freed: proofs about Endpoints, for any number of connections.               *)
EXTENDS Endpoints, SequenceTheorems, WellFoundedInduction, TLAPS

-----------------------------------------------------------------------------
(* Queues.                                                                  *)

\* Nothing is queued twice.
Distinct(q) == \A i, j \in DOMAIN q : q[i] = q[j] => i = j

\* Taking the head of a queue.
LEMMA TakeHead ==
  ASSUME NEW S, NEW q \in Seq(S), q # <<>>, Distinct(q)
  PROVE  /\ Tail(q) \in Seq(S) /\ Head(q) \in S /\ Head(q) \in Range(q)
         /\ Distinct(Tail(q))
         /\ Range(Tail(q)) = Range(q) \ {Head(q)}
         /\ Len(Tail(q)) = Len(q) - 1
<1>1. Len(q) \in Nat /\ Len(q) # 0 /\ DOMAIN q = 1..Len(q) /\ Head(q) = q[1]
      /\ \A i \in 1..Len(q) : q[i] \in S
  OBVIOUS
<1>2. /\ Tail(q) \in Seq(S) /\ Len(Tail(q)) = Len(q) - 1
      /\ \A i \in 1..Len(q) - 1 : Tail(q)[i] = q[i + 1]
  BY HeadTailProperties
<1>3. DOMAIN Tail(q) = 1..Len(q) - 1
  BY <1>2
<1> HIDE DEF Distinct
<1> DEFINE t == Tail(q)
<1> HIDE DEF t
<1>4. /\ DOMAIN t = 1..Len(q) - 1
      /\ \A i \in 1..Len(q) - 1 : t[i] = q[i + 1]
  BY <1>2, <1>3 DEF t
<1>5. Distinct(t)
  BY <1>1, <1>4 DEF Distinct
<1>6. \A e \in Range(t) : e \in Range(q) /\ e # Head(q)
  BY <1>1, <1>4 DEF Range, Distinct
<1>7. \A e \in Range(q) : e = Head(q) \/ e \in Range(t)
  <2> TAKE e \in Range(q)
  <2>1. PICK i \in 1..Len(q) : e = q[i]
    BY <1>1 DEF Range
  <2>2. CASE i = 1
    BY <1>1, <2>1, <2>2
  <2>3. CASE i # 1
    <3>1. i - 1 \in 1..Len(q) - 1 /\ t[i - 1] = q[i]
      BY <1>1, <1>4, <2>3
    <3>2. QED
      BY <1>4, <2>1, <3>1 DEF Range
  <2>4. QED
    BY <2>2, <2>3
<1>8. Head(q) \in Range(q)
  BY <1>1 DEF Range
<1>9. QED
  BY <1>1, <1>2, <1>5, <1>6, <1>7, <1>8 DEF t

\* Adding something new to a queue.
LEMMA AddLast ==
  ASSUME NEW S, NEW q \in Seq(S), Distinct(q), NEW e \in S, e \notin Range(q)
  PROVE  /\ Append(q, e) \in Seq(S)
         /\ Distinct(Append(q, e))
         /\ Range(Append(q, e)) = Range(q) \cup {e}
         /\ Len(Append(q, e)) = Len(q) + 1
         /\ Append(q, e) # <<>>
<1>1. /\ Append(q, e) \in Seq(S) /\ Len(Append(q, e)) = Len(q) + 1
      /\ \A i \in 1..Len(q) : Append(q, e)[i] = q[i]
      /\ Append(q, e)[Len(q) + 1] = e
      /\ Len(q) \in Nat /\ DOMAIN q = 1..Len(q)
  OBVIOUS
<1>2. DOMAIN Append(q, e) = 1..Len(q) + 1
  BY <1>1
<1> DEFINE a == Append(q, e)
<1>3. /\ DOMAIN a = 1..Len(q) + 1 /\ a[Len(q) + 1] = e
      /\ \A i \in 1..Len(q) : a[i] = q[i]
  BY <1>1, <1>2
<1> HIDE DEF a
<1>4. \A i \in 1..Len(q) + 1 : i \in 1..Len(q) \/ i = Len(q) + 1
  BY <1>1
<1>5. \A i \in 1..Len(q) : a[i] \in Range(q)
  BY <1>1, <1>3 DEF Range
<1>6. Distinct(a)
  BY <1>1, <1>3, <1>4, <1>5 DEF Distinct
<1>7. Range(a) = Range(q) \cup {e}
  <2>1. \A d \in Range(a) : d \in Range(q) \/ d = e
    BY <1>3, <1>4, <1>5 DEF Range
  <2>2. \A d \in Range(q) : d \in Range(a)
    BY <1>1, <1>3 DEF Range
  <2>3. e \in Range(a)
    BY <1>1, <1>3 DEF Range
  <2>4. QED
    BY <2>1, <2>2, <2>3
<1>8. QED
  BY <1>1, <1>6, <1>7 DEF a

\* A queue of at most one.
LEMMA AtMostOne ==
  ASSUME NEW S, NEW q \in Seq(S), Len(q) <= 1
  PROVE  q = <<>> \/ \E e \in S : q = <<e>>
OBVIOUS

-----------------------------------------------------------------------------
(* A bound endpoint: the invariant.                                          *)

\* The types of a bound endpoint.
ListenFields ==
    {"kind", "ep", "failed", "file", "usock", "owner", "asock", "poll", "errnum", "conn",
     "conns", "c", "tasks", "events", "timer", "armed", "odd", "aborted"}
ConnRecord ==
    [state : {"NONE", "ACCEPTING", "ACTIVE", "STOPPING_SESSION", "STOPPING_USOCK", "DONE",
              "STOPPING_SESSION_FINAL", "STOPPING", "IDLE"},
     usock : {"IDLE", "BEING_ACCEPTED", "ACCEPTED", "ACTIVE", "DONE", "STOPPING",
              "STOPPING_ACCEPT"},
     session : {"IDLE", "HANDSHAKE", "ACTIVE", "DONE", "STOPPING"},
     saved : {NULL, "ep"}]
ListenEvent ==
         [to : Conn, src : {"ACCEPTED", "LISTENER", "SESSION"},
          type : {"ACCEPTED", "ACCEPT_ERROR", "ERROR", "CLOSE_HANDSHAKE", "STOPPED", "SHUTDOWN"}]
    \cup [to : {"ep"}, src : Conn, type : {"ACCEPTED", "ERROR", "STOPPED"}]
    \cup {Ev("ep", "USOCK", "STOPPED"), Ev("sock", "EP", "STOPPED")}
ListenerTasks == (Conn \cup {"listener"}) \X {"ACCEPT", "STOP"}
ListenTyped(x) ==
    /\ x = [f \in ListenFields |-> x[f]]
    /\ x.conn \in Conn \cup {NULL} /\ x.conns \in Seq(Conn)
    /\ x.c \in [Conn -> ConnRecord]
    /\ x.tasks \in Seq(ListenerTasks) /\ x.events \in Seq(ListenEvent)

\* The events of a connection: those it gets and those it sends.
Concerns(e, c) == e.to = c \/ e.src = c
Mine(q, c) == {e \in Range(q) : Concerns(e, c)}

Rec(state, usock, session, saved) ==
    [state |-> state, usock |-> usock, session |-> session, saved |-> saved]

\* What the worker has to do: of the connections in S the usock is being closed,
\* and for the listening usock it polls or stops to poll.
ToDo(u, p, S) ==
         S \X {"STOP"}
    \cup {t \in {<<"listener", "ACCEPT">>} : u \in {"ACCEPTING", "CANCELLING"} /\ p = {}}
    \cup {t \in {<<"listener", "STOP">>} : u = "CANCELLING"}
TasksOK(t, u, p, S) ==
    /\ Distinct(t) /\ Range(t) = ToDo(u, p, S)
    /\ \A i, j \in DOMAIN t :
          t[i] = <<"listener", "ACCEPT">> /\ t[j] = <<"listener", "STOP">> => i < j
    /\ p \in {{}, {"FD", "IN"}}
    /\ u \notin {"ACCEPTING", "CANCELLING"} => p = {}
Closing(x) == {c \in Conn : x.c[c].usock = "STOPPING"}

\* An accepted connection, with its record and its events: its session runs, or
\* failed and is stopped, the usock is stopped, and it asks to be stopped.
Runs(c, r, A) ==
    r \in {Rec("ACTIVE", "ACTIVE", s, NULL) : s \in {"HANDSHAKE", "ACTIVE"}} /\ A = {}
Broken(c, r, A) ==
    /\ r \in {Rec("ACTIVE", u, "DONE", NULL) : u \in {"ACTIVE", "DONE"}}
    /\ A \in {{Ev(c, "SESSION", e)} : e \in {"ERROR", "CLOSE_HANDSHAKE"}}
Quits(c, r, A, s) ==
    r \in {Rec(s, u, "IDLE", NULL) : u \in {"ACTIVE", "DONE"}} /\ A = {Ev(c, "SESSION", "STOPPED")}
Closes(c, r, A, s) ==
    r = Rec(s, "STOPPING", "IDLE", NULL) /\ A \in {{}, {Ev(c, "ACCEPTED", "SHUTDOWN")}}
Closed(c, r, A, s) ==
    r = Rec(s, "IDLE", "IDLE", NULL) /\ A = {Ev(c, "ACCEPTED", "STOPPED")}
Fails(c, r, A) == r = Rec("DONE", "IDLE", "IDLE", NULL) /\ A = {Ev("ep", c, "ERROR")}
Forgotten(c, r, A) == r = Rec("DONE", "IDLE", "IDLE", NULL) /\ A = {}
Ended(c, r, A) == r = Rec("IDLE", "IDLE", "IDLE", NULL) /\ A = {Ev("ep", c, "STOPPED")}
Hangs(c, r, A) == r = Rec("STOPPING_SESSION_FINAL", "ACTIVE", "STOPPING", NULL) /\ A = {}

\* Its states while the endpoint accepts, and those while the endpoint stops it.
Served(c, r, A, ep) ==
    \/ Runs(c, r, A) \/ Broken(c, r, A) \/ Quits(c, r, A, "STOPPING_SESSION")
    \/ Closes(c, r, A, "STOPPING_USOCK") \/ Closed(c, r, A, "STOPPING_USOCK") \/ Fails(c, r, A)
    \/ ep = "ACTIVE" /\ Ended(c, r, A)
    \/ ep # "ACTIVE" /\ Forgotten(c, r, A)
Ending(c, r, A) ==
    \/ Hangs(c, r, A) \/ Quits(c, r, A, "STOPPING_SESSION_FINAL")
    \/ Closes(c, r, A, "STOPPING") \/ Closed(c, r, A, "STOPPING") \/ Ended(c, r, A)

\* The connection that waits for a peer, has one, cannot have one, or tells the
\* endpoint; and is stopped with the endpoint.
Waits(x, c) ==
    /\ x.ep = "ACTIVE" /\ x.c[c] = Rec("ACCEPTING", "BEING_ACCEPTED", "IDLE", "ep")
    /\ x.usock = "ACCEPTING" /\ x.owner = c /\ x.asock = c /\ Mine(x.events, c) = {}
Greets(x, c) ==
    /\ x.ep = "ACTIVE" /\ x.c[c] = Rec("ACCEPTING", "ACCEPTED", "IDLE", "ep")
    /\ x.usock = "LISTENING" /\ x.owner = c /\ x.events = <<Ev(c, "ACCEPTED", "ACCEPTED")>>
    /\ Free(x) # {}
Lacks(x, c) ==
    /\ x.ep = "ACTIVE" /\ x.c[c] = Rec("ACCEPTING", "BEING_ACCEPTED", "IDLE", "ep")
    /\ x.usock = "ACCEPTING_ERROR" /\ x.owner = c /\ x.asock = c
    /\ x.events = <<Ev(c, "LISTENER", "ACCEPT_ERROR")>>
Hands(x, c) ==
    /\ x.ep = "ACTIVE" /\ x.c[c] = Rec("ACTIVE", "ACTIVE", "HANDSHAKE", NULL)
    /\ x.usock = "LISTENING" /\ x.owner = "ep" /\ x.events = <<Ev("ep", c, "ACCEPTED")>>
    /\ Free(x) # {}
Cancels(x, c) ==
    /\ x.ep = "STOPPING_CONN" /\ x.c[c] = Rec("STOPPING", "STOPPING_ACCEPT", "IDLE", "ep")
    /\ x.usock = "CANCELLING" /\ x.owner = c /\ x.asock = c /\ Mine(x.events, c) = {}
Cancelled(x, c) ==
    /\ x.ep = "STOPPING_CONN" /\ x.c[c] = Rec("STOPPING", "IDLE", "IDLE", "ep")
    /\ x.usock = "LISTENING" /\ x.owner = c /\ x.events = <<Ev(c, "ACCEPTED", "STOPPED")>>
Returned(x, c) ==
    /\ x.ep = "STOPPING_CONN" /\ x.c[c] = Rec("IDLE", "IDLE", "IDLE", NULL)
    /\ x.usock = "LISTENING" /\ x.owner = "ep" /\ x.events = <<Ev("ep", c, "STOPPED")>>
Waiting(x, c) ==
    \/ Waits(x, c) \/ Greets(x, c) \/ Lacks(x, c) \/ Hands(x, c)
    \/ Cancels(x, c) \/ Cancelled(x, c) \/ Returned(x, c)

\* Whom the endpoint knows, and that events come from nobody else.
Members(x) ==
    /\ Distinct(x.conns) /\ x.conn \notin Range(x.conns)
    /\ \A c \in Conn : c = x.conn \/ c \in Range(x.conns) \/ x.c[c] = NoConn
    /\ Distinct(x.events)
    /\ \A e \in Range(x.events) :
          \/ \E c \in Conn : (c = x.conn \/ c \in Range(x.conns)) /\ Concerns(e, c)
          \/ e = Ev("ep", "USOCK", "STOPPED") /\ x.ep = "STOPPING_USOCK"
          \/ e = Ev("sock", "EP", "STOPPED") /\ x.ep = "IDLE"

\* One connection waits, and nothing but one chain of events goes on; or the
\* listening usock is stopped, the accepted connections, the endpoint.
Accepting(x) ==
    /\ x.conn \in Conn /\ Waiting(x, x.conn) /\ Len(x.events) <= 1
    /\ \A c \in Range(x.conns) : Served(c, x.c[c], Mine(x.events, c), x.ep)
Unbinding(x) ==
    /\ x.ep = "STOPPING_USOCK" /\ x.events = <<Ev("ep", "USOCK", "STOPPED")>>
    /\ \A c \in Range(x.conns) : Served(c, x.c[c], {}, x.ep)
Leaving(x) ==
    /\ x.ep = "STOPPING_CONNS"
    /\ \A c \in Range(x.conns) : Ending(c, x.c[c], Mine(x.events, c))
Gone(x) ==
    /\ x.conns = <<>>
    /\ \/ x.ep = "IDLE" /\ x.events = <<Ev("sock", "EP", "STOPPED")>>
       \/ x.ep = "FREED" /\ x.events = <<>>
Bound2(x) ==
    /\ Members(x) /\ TasksOK(x.tasks, x.usock, x.poll, Closing(x))
    /\ \/ Accepting(x)
       \/ /\ x.conn = NULL /\ x.owner = "ep" /\ x.usock = "IDLE" /\ x.file # "own"
          /\ Unbinding(x) \/ Leaving(x) \/ Gone(x)

\* An endpoint that listens, in one of its states.  Only one bound to an ipc
\* address has a file there.
Listens(x) ==
    /\ ~x.failed /\ ListenTyped(x) /\ Bound2(x)
    /\ x.file = "own" => x.kind = "ipc"

\* An endpoint that could not listen.
NotListening(x) ==
    /\ x = [f \in ListenFields |-> x[f]]
    /\ x.ep \in {"ACTIVE", "FREED"} /\ x.conn = NULL /\ x.conns = <<>> /\ x.tasks = <<>>
    /\ x.usock = "IDLE" /\ x.poll = {} /\ x.file # "own" /\ \A c \in Conn : x.c[c] = NoConn
    /\ x.ep = "FREED" => x.events = <<>>
    /\ x.events \in {<<>>, <<Ev("ep", "USOCK", "STOPPED")>>, <<Ev("ep", "EP", "LISTEN_ERR")>>,
                     <<Ev("ep", "USOCK", "STOPPED"), Ev("ep", "EP", "LISTEN_ERR")>>}
LInv(x) ==
    \/ x.aborted /\ x.ep # "FREED"
    \/ x.failed /\ NotListening(x)
    \/ Listens(x)

-----------------------------------------------------------------------------
(* Tasks.                                                                    *)

\* A connection is no part of an endpoint.
LEMMA ConnNames ==
  /\ Conn # {} /\ NULL \notin Conn /\ NULL # "ep"
  /\ \A c \in Conn : c \notin {"ep", "sock", "listener", "ACCEPTED", "LISTENER", "SESSION",
                               "USOCK", "EP"}
BY EndpointsAssumption DEF Part

\* What ToDo contains.
LEMMA ToDoHas ==
  ASSUME NEW u, NEW p, NEW S \in SUBSET Conn
  PROVE  /\ \A c : <<c, "STOP">> \in ToDo(u, p, S) <=>
                  c \in S \/ (c = "listener" /\ u = "CANCELLING")
         /\ <<"listener", "ACCEPT">> \in ToDo(u, p, S) <=>
               u \in {"ACCEPTING", "CANCELLING"} /\ p = {}
         /\ \A t \in ToDo(u, p, S) : \/ \E c \in S : t = <<c, "STOP">>
                                     \/ t = <<"listener", "ACCEPT">> \/ t = <<"listener", "STOP">>
         /\ \A c \in S : <<c, "STOP">> # <<"listener", "STOP">>
                         /\ <<c, "STOP">> # <<"listener", "ACCEPT">>
         /\ ToDo(u, p, S) \subseteq ListenerTasks
BY ConnNames DEF ToDo, ListenerTasks

\* Nothing is to be done about the usocks.
LEMMA TasksSame ==
  ASSUME NEW t \in Seq(ListenerTasks), NEW u, NEW v, NEW p, NEW S \in SUBSET Conn,
         TasksOK(t, u, p, S), {u, v} \cap {"ACCEPTING", "CANCELLING"} = {}
  PROVE  TasksOK(t, v, p, S)
BY DEF TasksOK, ToDo

\* The worker is to close the usock of a connection.
LEMMA TasksClose ==
  ASSUME NEW t \in Seq(ListenerTasks), NEW u, NEW p, NEW S \in SUBSET Conn,
         TasksOK(t, u, p, S), NEW c \in Conn \ S
  PROVE  /\ Append(t, <<c, "STOP">>) \in Seq(ListenerTasks)
         /\ TasksOK(Append(t, <<c, "STOP">>), u, p, S \cup {c})
<1> DEFINE k == <<c, "STOP">>
           a == Append(t, k)
<1>1. k \in ListenerTasks /\ k \notin ToDo(u, p, S)
  <2>1. c # "listener"
    BY ConnNames
  <2>2. QED
    BY <2>1, ToDoHas DEF ListenerTasks
<1>2. Distinct(t) /\ Range(t) = ToDo(u, p, S)
  BY DEF TasksOK
<1>3. ToDo(u, p, S \cup {c}) = ToDo(u, p, S) \cup {k}
  BY DEF ToDo
<1>4. k # <<"listener", "STOP">> /\ k # <<"listener", "ACCEPT">>
  BY ConnNames
<1>5. a \in Seq(ListenerTasks) /\ Distinct(a) /\ Range(a) = Range(t) \cup {k}
  BY <1>1, <1>2, AddLast
<1>6. /\ DOMAIN t = 1..Len(t) /\ DOMAIN a = 1..Len(t) + 1 /\ Len(t) \in Nat
      /\ \A i \in 1..Len(t) : a[i] = t[i]
      /\ a[Len(t) + 1] = k
  BY <1>1, AppendProperties
<1> HIDE DEF a, k
<1>7. ASSUME NEW i \in DOMAIN a, NEW j \in DOMAIN a,
             a[i] = <<"listener", "ACCEPT">>, a[j] = <<"listener", "STOP">>
      PROVE  i < j
  <2>1. i # Len(t) + 1 /\ j # Len(t) + 1
    BY <1>4, <1>6, <1>7
  <2>2. i \in 1..Len(t) /\ j \in 1..Len(t)
    BY <1>6, <2>1
  <2>3. i \in DOMAIN t /\ j \in DOMAIN t /\ a[i] = t[i] /\ a[j] = t[j]
    BY <1>6, <2>2
  <2>4. QED
    BY <1>7, <2>3 DEF TasksOK
<1>8. QED
  BY <1>2, <1>3, <1>5, <1>7 DEF TasksOK, a, k

\* The worker is to begin, or to cease, to poll the listening usock.
LEMMA TasksListener ==
  ASSUME NEW t \in Seq(ListenerTasks), NEW u, NEW p, NEW S \in SUBSET Conn,
         TasksOK(t, u, p, S)
  PROVE  /\ u \notin {"ACCEPTING", "CANCELLING"} =>
               /\ Append(t, <<"listener", "ACCEPT">>) \in Seq(ListenerTasks)
               /\ TasksOK(Append(t, <<"listener", "ACCEPT">>), "ACCEPTING", p, S)
         /\ u = "ACCEPTING" =>
               /\ Append(t, <<"listener", "STOP">>) \in Seq(ListenerTasks)
               /\ TasksOK(Append(t, <<"listener", "STOP">>), "CANCELLING", p, S)
<1>1. Distinct(t) /\ Range(t) = ToDo(u, p, S)
  BY DEF TasksOK
<1>2. ASSUME NEW k \in {<<"listener", "ACCEPT">>, <<"listener", "STOP">>}, NEW v,
             k \notin Range(t), ToDo(v, p, S) = ToDo(u, p, S) \cup {k},
             k = <<"listener", "ACCEPT">> => <<"listener", "STOP">> \notin Range(t),
             v \in {"ACCEPTING", "CANCELLING"}
      PROVE  Append(t, k) \in Seq(ListenerTasks) /\ TasksOK(Append(t, k), v, p, S)
  <2> DEFINE a == Append(t, k)
  <2>1. k \in ListenerTasks
    BY DEF ListenerTasks
  <2>2. a \in Seq(ListenerTasks) /\ Distinct(a) /\ Range(a) = Range(t) \cup {k}
    BY <1>1, <1>2, <2>1, AddLast
  <2>3. /\ DOMAIN t = 1..Len(t) /\ DOMAIN a = 1..Len(t) + 1 /\ Len(t) \in Nat
        /\ \A i \in 1..Len(t) : a[i] = t[i]
        /\ a[Len(t) + 1] = k
    BY <2>1, AppendProperties
  <2>4. \A i \in 1..Len(t) + 1 : i \in 1..Len(t) \/ i = Len(t) + 1
    BY <2>3
  <2>5. \A i \in 1..Len(t) : t[i] \in Range(t)
    BY <2>3 DEF Range
  <2> HIDE DEF a
  <2>6. <<"listener", "ACCEPT">> # <<"listener", "STOP">>
    OBVIOUS
  <2>7. ASSUME NEW i \in DOMAIN a, NEW j \in DOMAIN a,
               a[i] = <<"listener", "ACCEPT">>, a[j] = <<"listener", "STOP">>
        PROVE  i < j
    <3>1. CASE i \in 1..Len(t) /\ j \in 1..Len(t)
      BY <2>3, <2>7, <3>1 DEF TasksOK
    <3>2. CASE i \in 1..Len(t) /\ j = Len(t) + 1
      BY <2>3, <3>2
    <3>3. CASE i = Len(t) + 1
      <4>1. k = <<"listener", "ACCEPT">>
        BY <2>3, <2>7, <3>3
      <4>2. j \in 1..Len(t)
        BY <2>3, <2>4, <2>6, <2>7, <3>3
      <4>3. QED
        BY <1>2, <2>3, <2>5, <2>7, <4>1, <4>2
    <3>4. QED
      BY <2>3, <2>4, <3>1, <3>2, <3>3
  <2>8. QED
    BY <1>1, <1>2, <2>2, <2>7 DEF TasksOK, a
<1>3. CASE u \notin {"ACCEPTING", "CANCELLING"}
  <2>1. p = {}
    BY <1>3 DEF TasksOK
  <2>2. <<"listener", "ACCEPT">> \notin Range(t) /\ <<"listener", "STOP">> \notin Range(t)
    BY <1>1, <1>3, ToDoHas, ConnNames
  <2>3. ToDo("ACCEPTING", p, S) = ToDo(u, p, S) \cup {<<"listener", "ACCEPT">>}
    BY <1>3, <2>1 DEF ToDo
  <2>4. QED
    BY <1>2, <1>3, <2>2, <2>3
<1>4. CASE u = "ACCEPTING"
  <2>1. <<"listener", "STOP">> \notin Range(t)
    BY <1>1, <1>4, ToDoHas, ConnNames
  <2>2. ToDo("CANCELLING", p, S) = ToDo(u, p, S) \cup {<<"listener", "STOP">>}
    BY <1>4 DEF ToDo
  <2>3. QED
    BY <1>2, <1>4, <2>1, <2>2
<1>5. QED
  BY <1>3, <1>4

\* The worker takes a task.
LEMMA TasksTake ==
  ASSUME NEW t \in Seq(ListenerTasks), NEW u, NEW p, NEW S \in SUBSET Conn,
         TasksOK(t, u, p, S), t # <<>>
  PROVE  /\ Tail(t) \in Seq(ListenerTasks)
         /\ \/ \E c \in S : Head(t) = <<c, "STOP">> /\ TasksOK(Tail(t), u, p, S \ {c})
            \/ /\ Head(t) = <<"listener", "ACCEPT">> /\ u \in {"ACCEPTING", "CANCELLING"}
               /\ TasksOK(Tail(t), u, {"FD", "IN"}, S)
            \/ /\ Head(t) = <<"listener", "STOP">> /\ u = "CANCELLING"
               /\ TasksOK(Tail(t), "LISTENING", {}, S)
<1> DEFINE s == Tail(t)
<1>1. Distinct(t) /\ Range(t) = ToDo(u, p, S)
  BY DEF TasksOK
<1>2. /\ s \in Seq(ListenerTasks) /\ Head(t) \in Range(t) /\ Distinct(s)
      /\ Range(s) = Range(t) \ {Head(t)}
  BY <1>1, TakeHead
<1>3. /\ DOMAIN t = 1..Len(t) /\ Len(t) \in Nat /\ Len(t) # 0 /\ Head(t) = t[1]
      /\ DOMAIN s = 1..Len(t) - 1
      /\ \A i \in 1..Len(t) - 1 : s[i] = t[i + 1] /\ i + 1 \in 1..Len(t)
  BY HeadTailProperties
<1> HIDE DEF s
<1>4. ASSUME NEW i \in DOMAIN s, NEW j \in DOMAIN s,
             s[i] = <<"listener", "ACCEPT">>, s[j] = <<"listener", "STOP">>
      PROVE  i < j
  <2>1. /\ i + 1 \in DOMAIN t /\ j + 1 \in DOMAIN t
        /\ s[i] = t[i + 1] /\ s[j] = t[j + 1]
    BY <1>3
  <2>2. i + 1 < j + 1
    BY <1>4, <2>1 DEF TasksOK
  <2>3. QED
    BY <1>3, <2>2
<1>5. p \in {{}, {"FD", "IN"}} /\ (u \notin {"ACCEPTING", "CANCELLING"} => p = {})
  BY DEF TasksOK
<1>6. \/ \E c \in S : Head(t) = <<c, "STOP">>
      \/ Head(t) = <<"listener", "ACCEPT">> \/ Head(t) = <<"listener", "STOP">>
  BY <1>1, <1>2, ToDoHas
<1>7. ASSUME NEW c \in S, Head(t) = <<c, "STOP">>
      PROVE  TasksOK(s, u, p, S \ {c})
  <2>1. ToDo(u, p, S) \ {<<c, "STOP">>} = ToDo(u, p, S \ {c})
    BY ConnNames DEF ToDo
  <2>2. QED
    BY <1>1, <1>2, <1>4, <1>5, <1>7, <2>1 DEF TasksOK
<1>8. ASSUME Head(t) = <<"listener", "ACCEPT">>
      PROVE  u \in {"ACCEPTING", "CANCELLING"} /\ TasksOK(s, u, {"FD", "IN"}, S)
  <2>1. u \in {"ACCEPTING", "CANCELLING"} /\ p = {}
    BY <1>1, <1>2, <1>8, ToDoHas
  <2>2. ToDo(u, p, S) \ {<<"listener", "ACCEPT">>} = ToDo(u, {"FD", "IN"}, S)
    BY ConnNames DEF ToDo
  <2>3. QED
    BY <1>1, <1>2, <1>4, <1>8, <2>1, <2>2 DEF TasksOK
<1>9. ASSUME Head(t) = <<"listener", "STOP">>
      PROVE  u = "CANCELLING" /\ TasksOK(s, "LISTENING", {}, S)
  <2>1. u = "CANCELLING"
    BY <1>1, <1>2, <1>9, ToDoHas, ConnNames
  <2>2. <<"listener", "ACCEPT">> \notin Range(t)
    <3>1. SUFFICES ASSUME NEW i \in 1..Len(t), t[i] = <<"listener", "ACCEPT">> PROVE FALSE
      BY <1>3 DEF Range
    <3>2. i < 1
      BY <1>3, <1>9, <3>1 DEF TasksOK
    <3>3. QED
      BY <3>2
  <2>3. ToDo(u, p, S) \ {<<"listener", "STOP">>} = ToDo("LISTENING", {}, S)
    BY <1>1, <2>1, <2>2, ConnNames DEF ToDo
  <2>4. QED
    BY <1>1, <1>2, <1>4, <1>9, <2>1, <2>3 DEF TasksOK
<1>10. QED
  BY <1>2, <1>6, <1>7, <1>8, <1>9 DEF s

\* A peer has come to the listening usock, or could not be accepted.
LEMMA TasksPeer ==
  ASSUME NEW t \in Seq(ListenerTasks), NEW v, NEW S \in SUBSET Conn,
         TasksOK(t, "ACCEPTING", {"FD", "IN"}, S), v \notin {"ACCEPTING", "CANCELLING"}
  PROVE  TasksOK(t, v, {}, S)
<1>1. ToDo("ACCEPTING", {"FD", "IN"}, S) = ToDo(v, {}, S)
  BY DEF ToDo
<1>2. QED
  BY <1>1 DEF TasksOK

-----------------------------------------------------------------------------
(* Events.                                                                   *)

\* An event concerns one connection.
LEMMA OneConcern ==
  ASSUME NEW e \in ListenEvent, NEW c \in Conn, NEW d \in Conn, Concerns(e, c), Concerns(e, d)
  PROVE  c = d
BY ConnNames DEF ListenEvent, Concerns, Ev

\* From the queue q to r only events of c went and came.
Only(q, r, c) ==
    /\ r \in Seq(ListenEvent) /\ Distinct(r)
    /\ \A d \in Conn \ {c} : Mine(r, d) = Mine(q, d)
    /\ \A e \in Range(r) : e \in Range(q) \/ Concerns(e, c)

\* An event of c is taken.
LEMMA EventTaken ==
  ASSUME NEW q \in Seq(ListenEvent), q # <<>>, Distinct(q), NEW c \in Conn,
         Concerns(Head(q), c)
  PROVE  /\ Only(q, Tail(q), c) /\ Mine(Tail(q), c) = Mine(q, c) \ {Head(q)}
         /\ Len(Tail(q)) = Len(q) - 1
<1>1. /\ Tail(q) \in Seq(ListenEvent) /\ Head(q) \in ListenEvent
      /\ Distinct(Tail(q)) /\ Range(Tail(q)) = Range(q) \ {Head(q)}
      /\ Len(Tail(q)) = Len(q) - 1
  BY TakeHead
<1>2. \A d \in Conn \ {c} : ~Concerns(Head(q), d)
  BY <1>1, OneConcern
<1> HIDE DEF Concerns
<1>3. QED
  BY <1>1, <1>2 DEF Only, Mine

\* An event of c comes.
LEMMA EventAdded ==
  ASSUME NEW q \in Seq(ListenEvent), Distinct(q), NEW c \in Conn,
         NEW e \in ListenEvent, Concerns(e, c), e \notin Mine(q, c)
  PROVE  /\ Only(q, Append(q, e), c) /\ Mine(Append(q, e), c) = Mine(q, c) \cup {e}
         /\ Len(Append(q, e)) = Len(q) + 1
<1>1. e \notin Range(q)
  BY DEF Mine
<1>2. /\ Append(q, e) \in Seq(ListenEvent)
      /\ Distinct(Append(q, e)) /\ Range(Append(q, e)) = Range(q) \cup {e}
      /\ Len(Append(q, e)) = Len(q) + 1
  BY <1>1, AddLast
<1>3. \A d \in Conn \ {c} : ~Concerns(e, d)
  BY OneConcern
<1> HIDE DEF Concerns
<1>4. QED
  BY <1>2, <1>3 DEF Only, Mine

\* One after the other.
LEMMA OnlyTwice ==
  ASSUME NEW q, NEW r, NEW s, NEW c, Only(q, r, c), Only(r, s, c)
  PROVE  Only(q, s, c)
BY DEF Only

\* Queues of one event.
LEMMA EventAlone ==
  ASSUME NEW e \in ListenEvent
  PROVE  /\ <<e>> \in Seq(ListenEvent) /\ Distinct(<<e>>) /\ Range(<<e>>) = {e}
         /\ Len(<<e>>) = 1 /\ Head(<<e>>) = e /\ Tail(<<e>>) = <<>>
         /\ \A c : Mine(<<e>>, c) = {d \in {e} : Concerns(d, c)}
<1>1. DOMAIN <<e>> = {1} /\ <<e>>[1] = e
  OBVIOUS
<1>2. Range(<<e>>) = {e}
  BY <1>1 DEF Range
<1>3. Distinct(<<e>>)
  BY <1>1 DEF Distinct
<1>4. QED
  BY <1>2, <1>3 DEF Mine

\* And empty ones.
LEMMA EventNone ==
  /\ <<>> \in Seq(ListenEvent) /\ Distinct(<<>>) /\ Range(<<>>) = {} /\ Len(<<>>) = 0
  /\ \A c : Mine(<<>>, c) = {}
  /\ \A e : Append(<<>>, e) = <<e>>
<1>1. DOMAIN <<>> = {}
  OBVIOUS
<1>2. Range(<<>>) = {} /\ Distinct(<<>>)
  BY <1>1 DEF Range, Distinct
<1>3. QED
  BY <1>2 DEF Mine

-----------------------------------------------------------------------------
(* A step of an accepted connection.                                         *)

\* Nothing else of the endpoint changes.
Apart(x, y) ==
    /\ y.ep = x.ep /\ y.file = x.file /\ y.usock = x.usock /\ y.owner = x.owner
    /\ y.asock = x.asock /\ y.poll = x.poll /\ y.conn = x.conn /\ y.conns = x.conns

\* A step of one connection keeps an endpoint bound: its own record stays in order,
\* and nothing else of the endpoint changes.
LEMMA ServedStep ==
  ASSUME NEW x, NEW y, NEW c \in Conn, ListenTyped(x), Bound2(x), Apart(x, y),
         c \in Range(x.conns), \A d \in Conn \ {c} : y.c[d] = x.c[d],
         Only(x.events, y.events, c),
         TasksOK(y.tasks, y.usock, y.poll, Closing(y)),
         \/ /\ x.ep \in {"ACTIVE", "STOPPING_CONN"}
            /\ x.events = <<>> \/ \E e \in ListenEvent : x.events = <<e>> /\ Concerns(e, c)
            /\ Served(c, y.c[c], Mine(y.events, c), y.ep) /\ Len(y.events) <= 1
         \/ x.ep = "STOPPING_CONNS" /\ Ending(c, y.c[c], Mine(y.events, c))
  PROVE  Bound2(y)
<1>1. x.conns \in Seq(Conn) /\ Range(x.conns) \subseteq Conn /\ x.conn \notin Range(x.conns)
  BY RangeOfSeq DEF ListenTyped, Bound2, Members
<1>2. /\ y.ep = x.ep /\ y.file = x.file /\ y.usock = x.usock /\ y.owner = x.owner
      /\ y.asock = x.asock /\ y.poll = x.poll /\ y.conn = x.conn /\ y.conns = x.conns
  BY DEF Apart
<1>3. /\ y.events \in Seq(ListenEvent) /\ Distinct(y.events)
      /\ \A d \in Conn \ {c} : Mine(y.events, d) = Mine(x.events, d)
      /\ \A e \in Range(y.events) : e \in Range(x.events) \/ Concerns(e, c)
  BY DEF Only
<1>4. Members(y)
  <2>1. \A d \in Conn : d = y.conn \/ d \in Range(y.conns) \/ y.c[d] = NoConn
    BY <1>2 DEF Bound2, Members
  <2>2. ASSUME NEW e \in Range(y.events)
        PROVE  \/ \E d \in Conn : (d = y.conn \/ d \in Range(y.conns)) /\ Concerns(e, d)
               \/ e = Ev("ep", "USOCK", "STOPPED") /\ y.ep = "STOPPING_USOCK"
               \/ e = Ev("sock", "EP", "STOPPED") /\ y.ep = "IDLE"
    <3>1. CASE Concerns(e, c)
      BY <1>2, <3>1
    <3>2. CASE e \in Range(x.events)
      BY <1>2, <3>2 DEF Bound2, Members
    <3>3. QED
      BY <1>3, <3>1, <3>2
  <2>3. Distinct(y.conns) /\ y.conn \notin Range(y.conns)
    BY <1>2 DEF Bound2, Members
  <2>4. QED
    BY <1>3, <2>1, <2>2, <2>3 DEF Members
<1>5. CASE x.ep \in {"ACTIVE", "STOPPING_CONN"}
  <2>1. Accepting(x)
    BY <1>5 DEF Bound2, Unbinding, Leaving, Gone
  <2>2. /\ x.events = <<>> \/ \E e \in ListenEvent : x.events = <<e>> /\ Concerns(e, c)
        /\ Served(c, y.c[c], Mine(y.events, c), y.ep) /\ Len(y.events) <= 1
    BY <1>5
  <2>3. x.conn \in Conn /\ x.conn # c /\ Waiting(x, x.conn)
    BY <1>1, <2>1 DEF Accepting
  <2>4. \A e \in ListenEvent : x.events = <<e>> => ~Concerns(e, x.conn)
    <3>1. ASSUME NEW e \in ListenEvent, x.events = <<e>>, Concerns(e, x.conn) PROVE FALSE
      <4>1. PICK f \in ListenEvent : x.events = <<f>> /\ Concerns(f, c)
        BY <2>2, <3>1
      <4>2. e = f
        BY <3>1, <4>1
      <4>3. QED
        BY <2>3, <3>1, <4>1, <4>2, OneConcern
    <3>2. QED
      BY <3>1
  <2>5. Waits(x, x.conn) \/ Cancels(x, x.conn)
    <3>1. /\ Ev(x.conn, "ACCEPTED", "ACCEPTED") \in ListenEvent
          /\ Ev(x.conn, "LISTENER", "ACCEPT_ERROR") \in ListenEvent
          /\ Ev("ep", x.conn, "ACCEPTED") \in ListenEvent
          /\ Ev(x.conn, "ACCEPTED", "STOPPED") \in ListenEvent
          /\ Ev("ep", x.conn, "STOPPED") \in ListenEvent
      BY <2>3 DEF ListenEvent, Ev
    <3>2. /\ Concerns(Ev(x.conn, "ACCEPTED", "ACCEPTED"), x.conn)
          /\ Concerns(Ev(x.conn, "LISTENER", "ACCEPT_ERROR"), x.conn)
          /\ Concerns(Ev("ep", x.conn, "ACCEPTED"), x.conn)
          /\ Concerns(Ev(x.conn, "ACCEPTED", "STOPPED"), x.conn)
          /\ Concerns(Ev("ep", x.conn, "STOPPED"), x.conn)
      BY DEF Concerns, Ev
    <3>3. QED
      BY <2>3, <2>4, <3>1, <3>2 DEF Waiting, Greets, Lacks, Hands, Cancelled, Returned
  <2>6. Waiting(y, y.conn)
    <3>1. y.c[x.conn] = x.c[x.conn] /\ Mine(y.events, x.conn) = Mine(x.events, x.conn)
      BY <1>3, <2>3
    <3>2. QED
      BY <1>2, <2>5, <3>1 DEF Waiting, Waits, Cancels
  <2>7. ASSUME NEW d \in Range(y.conns)
        PROVE  Served(d, y.c[d], Mine(y.events, d), y.ep)
    <3>1. CASE d = c
      BY <2>2, <3>1
    <3>2. CASE d # c
      <4>1. d \in Conn \ {c} /\ d \in Range(x.conns)
        BY <1>1, <1>2, <2>7, <3>2
      <4>2. y.c[d] = x.c[d] /\ Mine(y.events, d) = Mine(x.events, d)
        BY <1>3, <4>1
      <4>3. QED
        BY <1>2, <2>1, <4>1, <4>2 DEF Accepting
    <3>3. QED
      BY <3>1, <3>2
  <2>8. Accepting(y)
    BY <1>2, <2>2, <2>3, <2>6, <2>7 DEF Accepting
  <2>9. QED
    BY <1>4, <2>8 DEF Bound2
<1>6. CASE x.ep = "STOPPING_CONNS"
  <2>1. Leaving(x) /\ x.conn = NULL /\ x.owner = "ep" /\ x.usock = "IDLE" /\ x.file # "own"
    BY <1>6 DEF Bound2, Accepting, Unbinding, Gone, Waiting, Waits, Greets, Lacks, Hands,
                Cancels, Cancelled, Returned
  <2>2. Ending(c, y.c[c], Mine(y.events, c))
    BY <1>6
  <2>3. ASSUME NEW d \in Range(y.conns)
        PROVE  Ending(d, y.c[d], Mine(y.events, d))
    <3>1. CASE d = c
      BY <2>2, <3>1
    <3>2. CASE d # c
      <4>1. d \in Conn \ {c} /\ d \in Range(x.conns)
        BY <1>1, <1>2, <2>3, <3>2
      <4>2. y.c[d] = x.c[d] /\ Mine(y.events, d) = Mine(x.events, d)
        BY <1>3, <4>1
      <4>3. QED
        BY <2>1, <4>1, <4>2 DEF Leaving
    <3>3. QED
      BY <3>1, <3>2
  <2>4. Leaving(y)
    BY <1>2, <1>6, <2>3 DEF Leaving
  <2>5. QED
    BY <1>2, <1>4, <2>1, <2>4 DEF Bound2
<1>7. QED
  BY <1>5, <1>6

-----------------------------------------------------------------------------
(* What the operators of a connection change.                                *)

\* Of x only the record of c, the events and the tasks are others in y.
Changed(x, y, c, r, q, t) ==
    /\ y = [f \in ListenFields |-> y[f]]
    /\ y.failed = x.failed /\ y.kind = x.kind /\ y.file = x.file /\ Apart(x, y)
    /\ y.c = [x.c EXCEPT ![c] = r] /\ y.events = q /\ y.tasks = t

\* Where the change leads.
At(y, c, r, q, t) == y.c[c] = r /\ y.events = q /\ y.tasks = t

\* One change after the other.
LEMMA ChangedTwice ==
  ASSUME NEW x, NEW y, NEW z, NEW c \in Conn, NEW r, NEW q, NEW t, NEW s, NEW p, NEW u,
         Changed(x, y, c, r, q, t), Changed(y, z, c, s, p, u), x.c \in [Conn -> ConnRecord]
  PROVE  Changed(x, z, c, s, p, u)
BY DEF Changed, Apart

\* A change keeps the types.
LEMMA ChangedTyped ==
  ASSUME NEW x, NEW y, NEW c \in Conn, NEW r \in ConnRecord, NEW q \in Seq(ListenEvent),
         NEW t \in Seq(ListenerTasks), ListenTyped(x), Changed(x, y, c, r, q, t)
  PROVE  ListenTyped(y) /\ At(y, c, r, q, t)
BY DEF Changed, ListenTyped, Apart, At

\* The basic changes: the first event is taken, an event or a task comes, the
\* connection has another state.
LEMMA ChangeRest ==
  ASSUME NEW x, ListenTyped(x), NEW c \in Conn
  PROVE  Changed(x, [x EXCEPT !.events = Tail(@)], c, x.c[c], Tail(x.events), x.tasks)
BY DEF Changed, ListenTyped, Apart, ListenFields

\* An event comes.
LEMMA ChangeRaise ==
  ASSUME NEW x, ListenTyped(x), NEW c \in Conn, NEW e
  PROVE  Changed(x, Raise(x, e), c, x.c[c], Append(x.events, e), x.tasks)
<1> DEFINE b == x.aborted \/ \E i \in DOMAIN x.events : SameEvent(x.events[i], e)
<1>1. Raise(x, e) = [x EXCEPT !.events = Append(x.events, e), !.aborted = b]
  BY DEF Raise
<1> HIDE DEF b
<1>2. QED
  BY <1>1 DEF Changed, ListenTyped, Apart, ListenFields

\* A task comes.
LEMMA ChangeExecute ==
  ASSUME NEW x, ListenTyped(x), NEW c \in Conn, NEW f, NEW w
  PROVE  Changed(x, Execute(x, f, w), c, x.c[c], x.events, Append(x.tasks, <<f, w>>))
<1> DEFINE b == x.aborted \/ \E i \in DOMAIN x.tasks : x.tasks[i] = <<f, w>>
<1>1. Execute(x, f, w) = [x EXCEPT !.tasks = Append(x.tasks, <<f, w>>), !.aborted = b]
  BY DEF Execute
<1> HIDE DEF b
<1>2. QED
  BY <1>1 DEF Changed, ListenTyped, Apart, ListenFields

\* The connection, its usock or its session has another state.
LEMMA ChangeState ==
  ASSUME NEW x, ListenTyped(x), NEW c \in Conn, NEW s
  PROVE  /\ Changed(x, [x EXCEPT !.c[c].state = s], c, [x.c[c] EXCEPT !.state = s],
                    x.events, x.tasks)
         /\ Changed(x, [x EXCEPT !.c[c].usock = s], c, [x.c[c] EXCEPT !.usock = s],
                    x.events, x.tasks)
         /\ Changed(x, [x EXCEPT !.c[c].session = s], c, [x.c[c] EXCEPT !.session = s],
                    x.events, x.tasks)
BY DEF Changed, ListenTyped, Apart, ListenFields

\* Records of connections.
LEMMA RecFields ==
  ASSUME NEW s, NEW u, NEW n, NEW v
  PROVE  /\ Rec(s, u, n, v).state = s /\ Rec(s, u, n, v).usock = u
         /\ Rec(s, u, n, v).session = n /\ Rec(s, u, n, v).saved = v
         /\ \A w : /\ [Rec(s, u, n, v) EXCEPT !.state = w] = Rec(w, u, n, v)
                   /\ [Rec(s, u, n, v) EXCEPT !.usock = w] = Rec(s, w, n, v)
                   /\ [Rec(s, u, n, v) EXCEPT !.session = w] = Rec(s, u, w, v)
                   /\ [Rec(s, u, n, v) EXCEPT !.saved = w] = Rec(s, u, n, w)
BY DEF Rec

\* A record of the states there are has its type.
LEMMA RecTyped ==
  ASSUME NEW s \in {"NONE", "ACCEPTING", "ACTIVE", "STOPPING_SESSION", "STOPPING_USOCK", "DONE",
                    "STOPPING_SESSION_FINAL", "STOPPING", "IDLE"},
         NEW u \in {"IDLE", "BEING_ACCEPTED", "ACCEPTED", "ACTIVE", "DONE", "STOPPING",
                    "STOPPING_ACCEPT"},
         NEW n \in {"IDLE", "HANDSHAKE", "ACTIVE", "DONE", "STOPPING"}, NEW v \in {NULL, "ep"}
  PROVE  Rec(s, u, n, v) \in ConnRecord
BY DEF Rec, ConnRecord

\* The events of a connection.
LEMMA ConnEvents ==
  ASSUME NEW c \in Conn
  PROVE  /\ \A s \in {"ACCEPTED", "LISTENER", "SESSION"},
               t \in {"ACCEPTED", "ACCEPT_ERROR", "ERROR", "CLOSE_HANDSHAKE", "STOPPED", "SHUTDOWN"} :
               Ev(c, s, t) \in ListenEvent /\ Concerns(Ev(c, s, t), c)
         /\ \A t \in {"ACCEPTED", "ERROR", "STOPPED"} :
               Ev("ep", c, t) \in ListenEvent /\ Concerns(Ev("ep", c, t), c)
         /\ \A d \in Conn : ~Concerns(Ev("ep", "USOCK", "STOPPED"), d)
         /\ \A d \in Conn : ~Concerns(Ev("sock", "EP", "STOPPED"), d)
         /\ Ev("ep", "USOCK", "STOPPED") \in ListenEvent
         /\ Ev("sock", "EP", "STOPPED") \in ListenEvent
BY ConnNames DEF ListenEvent, Concerns, Ev

\* A part of a connection is idle when it says so and its owner knows.
LEMMA IdleByEvents ==
  ASSUME NEW x, ListenTyped(x), NEW c \in Conn
  PROVE  /\ ServedIdle(x, c) <=> /\ x.c[c].session = "IDLE"
                                 /\ Ev(c, "SESSION", "STOPPED") \notin Mine(x.events, c)
         /\ AcceptedIdle(x, c) <=> /\ x.c[c].usock = "IDLE"
                                   /\ Ev(c, "ACCEPTED", "STOPPED") \notin Mine(x.events, c)
<1>1. /\ Concerns(Ev(c, "SESSION", "STOPPED"), c) /\ Concerns(Ev(c, "ACCEPTED", "STOPPED"), c)
  BY ConnEvents
<1>2. \A e : (\A i \in DOMAIN x.events : x.events[i] # e) <=> e \notin Range(x.events)
  BY DEF Range
<1>3. QED
  BY <1>1, <1>2 DEF ServedIdle, AcceptedIdle, Mine, Session

\* Stopping the session.
LEMMA ServedStopChanges ==
  ASSUME NEW x, ListenTyped(x), NEW c \in Conn
  PROVE  /\ x.c[c].session = "HANDSHAKE" =>
               Changed(x, ServedStop(x, c), c, [x.c[c] EXCEPT !.session = "STOPPING"],
                       x.events, x.tasks)
         /\ x.c[c].session \in {"ACTIVE", "DONE"} =>
               Changed(x, ServedStop(x, c), c, [x.c[c] EXCEPT !.session = "IDLE"],
                       Append(x.events, Ev(c, "SESSION", "STOPPED")), x.tasks)
         /\ x.c[c].session \in {"IDLE", "STOPPING"} => ServedStop(x, c) = x
<1> DEFINE y == [x EXCEPT !.c[c].session = "IDLE"]
           r == [x.c[c] EXCEPT !.session = "IDLE"]
<1>1. /\ x.c[c].session = "HANDSHAKE" => ServedStop(x, c) = [x EXCEPT !.c[c].session = "STOPPING"]
      /\ x.c[c].session \in {"ACTIVE", "DONE"} =>
            ServedStop(x, c) = Raise(y, Ev(c, "SESSION", "STOPPED"))
      /\ x.c[c].session \in {"IDLE", "STOPPING"} => ServedStop(x, c) = x
  BY DEF ServedStop, Session
<1>2. Changed(x, y, c, r, x.events, x.tasks)
  BY ChangeState
<1> HIDE DEF y
<1>3. x.c[c] \in ConnRecord /\ x.events \in Seq(ListenEvent) /\ x.tasks \in Seq(ListenerTasks)
      /\ x.c \in [Conn -> ConnRecord]
  BY DEF ListenTyped
<1>4. r \in ConnRecord
  BY <1>3 DEF ConnRecord
<1>5. Changed(x, ServedStop(x, c), c, r, Append(x.events, Ev(c, "SESSION", "STOPPED")), x.tasks)
      \/ x.c[c].session \notin {"ACTIVE", "DONE"}
  <2> HIDE DEF r
  <2>1. ListenTyped(y) /\ At(y, c, r, x.events, x.tasks)
    BY <1>2, <1>3, <1>4, ChangedTyped
  <2>2. y.c[c] = r /\ y.events = x.events /\ y.tasks = x.tasks
    BY <2>1 DEF At
  <2>3. Changed(y, Raise(y, Ev(c, "SESSION", "STOPPED")), c, r,
                Append(x.events, Ev(c, "SESSION", "STOPPED")), x.tasks)
    BY <2>1, <2>2, ChangeRaise
  <2>4. Changed(x, Raise(y, Ev(c, "SESSION", "STOPPED")), c, r,
                Append(x.events, Ev(c, "SESSION", "STOPPED")), x.tasks)
    BY <1>2, <1>3, <2>3, ChangedTwice
  <2>5. QED
    BY <1>1, <2>4
<1>6. x.c[c].session = "HANDSHAKE" =>
         Changed(x, ServedStop(x, c), c, [x.c[c] EXCEPT !.session = "STOPPING"], x.events, x.tasks)
  BY <1>1, ChangeState
<1>7. QED
  BY <1>1, <1>5, <1>6

\* Stopping the usock of an accepted connection.
LEMMA AcceptedStopChanges ==
  ASSUME NEW x, ListenTyped(x), NEW c \in Conn
  PROVE  /\ x.c[c].usock = "DONE" =>
               Changed(x, AcceptedStop(x, c), c, [x.c[c] EXCEPT !.usock = "IDLE"],
                       Append(x.events, Ev(c, "ACCEPTED", "STOPPED")), x.tasks)
         /\ x.c[c].usock = "ACTIVE" =>
               Changed(x, AcceptedStop(x, c), c, [x.c[c] EXCEPT !.usock = "STOPPING"],
                       Append(x.events, Ev(c, "ACCEPTED", "SHUTDOWN")),
                       Append(x.tasks, <<c, "STOP">>))
         /\ x.c[c].usock \in {"IDLE", "STOPPING"} => AcceptedStop(x, c) = x
<1>1. x.c[c] \in ConnRecord /\ x.events \in Seq(ListenEvent) /\ x.tasks \in Seq(ListenerTasks)
      /\ x.c \in [Conn -> ConnRecord]
  BY DEF ListenTyped
<1>2. CASE x.c[c].usock = "DONE"
  <2> DEFINE y == [x EXCEPT !.c[c].usock = "IDLE"]
             r == [x.c[c] EXCEPT !.usock = "IDLE"]
  <2>1. AcceptedStop(x, c) = Raise(y, Ev(c, "ACCEPTED", "STOPPED"))
    BY <1>2 DEF AcceptedStop
  <2>2. Changed(x, y, c, r, x.events, x.tasks)
    BY ChangeState
  <2> HIDE DEF y
  <2>3. r \in ConnRecord
    BY <1>1 DEF ConnRecord
  <2> HIDE DEF r
  <2>4. ListenTyped(y) /\ y.c[c] = r
    BY <1>1, <2>2, <2>3, ChangedTyped DEF At
  <2>5. y.events = x.events /\ y.tasks = x.tasks
    BY <2>2 DEF Changed
  <2>6. Changed(y, Raise(y, Ev(c, "ACCEPTED", "STOPPED")), c, r,
                Append(x.events, Ev(c, "ACCEPTED", "STOPPED")), x.tasks)
    BY <2>4, <2>5, ChangeRaise
  <2>7. Changed(x, Raise(y, Ev(c, "ACCEPTED", "STOPPED")), c, r,
                Append(x.events, Ev(c, "ACCEPTED", "STOPPED")), x.tasks)
    BY <1>1, <2>2, <2>6, ChangedTwice
  <2>8. QED
    BY <1>2, <2>1, <2>7 DEF r
<1>3. CASE x.c[c].usock = "ACTIVE"
  <2> DEFINE y == [x EXCEPT !.c[c].usock = "STOPPING"]
             r == [x.c[c] EXCEPT !.usock = "STOPPING"]
             z == Execute(y, c, "STOP")
  <2>1. AcceptedStop(x, c) = Raise(z, Ev(c, "ACCEPTED", "SHUTDOWN"))
    BY <1>3 DEF AcceptedStop
  <2>2. Changed(x, y, c, r, x.events, x.tasks)
    BY ChangeState
  <2> HIDE DEF y
  <2>3. r \in ConnRecord
    BY <1>1 DEF ConnRecord
  <2> HIDE DEF r
  <2>4. ListenTyped(y) /\ y.c[c] = r
    BY <1>1, <2>2, <2>3, ChangedTyped DEF At
  <2>5. y.events = x.events /\ y.tasks = x.tasks
    BY <2>2 DEF Changed
  <2> DEFINE t == Append(x.tasks, <<c, "STOP">>)
  <2>6. Changed(y, z, c, r, x.events, t)
    BY <2>4, <2>5, ChangeExecute
  <2> HIDE DEF z
  <2>7. t \in Seq(ListenerTasks)
    <3>1. <<c, "STOP">> \in ListenerTasks
      BY DEF ListenerTasks
    <3>2. QED
      BY <1>1, <3>1, AppendProperties
  <2> HIDE DEF t
  <2>8. ListenTyped(z) /\ At(z, c, r, x.events, t)
    BY <1>1, <2>3, <2>4, <2>6, <2>7, ChangedTyped
  <2>9. z.c[c] = r /\ z.events = x.events /\ z.tasks = t
    BY <2>8 DEF At
  <2>10. Changed(z, Raise(z, Ev(c, "ACCEPTED", "SHUTDOWN")), c, r,
                 Append(x.events, Ev(c, "ACCEPTED", "SHUTDOWN")), t)
    BY <2>8, <2>9, ChangeRaise
  <2>11. Changed(x, z, c, r, x.events, t)
    BY <1>1, <2>2, <2>6, ChangedTwice
  <2>12. Changed(x, Raise(z, Ev(c, "ACCEPTED", "SHUTDOWN")), c, r,
                 Append(x.events, Ev(c, "ACCEPTED", "SHUTDOWN")), t)
    BY <1>1, <2>10, <2>11, ChangedTwice
  <2>13. QED
    BY <1>3, <2>1, <2>12 DEF r, t
<1>4. CASE x.c[c].usock \in {"IDLE", "STOPPING"}
  BY <1>4 DEF AcceptedStop
<1>5. QED
  BY <1>2, <1>3, <1>4

-----------------------------------------------------------------------------
(* Steps of one connection.                                                  *)

\* An endpoint whose queues are in order.
Good(x) ==
    ListenTyped(x) /\ Distinct(x.events) /\ TasksOK(x.tasks, x.usock, x.poll, Closing(x))

\* From x to y only c has changed, which has the record r and the events A now.
Step(x, y, c, r, A) ==
    /\ Good(y) /\ Apart(x, y) /\ y.failed = x.failed /\ y.kind = x.kind /\ y.file = x.file
    /\ y.c[c] = r /\ \A d \in Conn \ {c} : y.c[d] = x.c[d]
    /\ Only(x.events, y.events, c) /\ Mine(y.events, c) = A

\* One step after the other.
LEMMA StepTwice ==
  ASSUME NEW x, NEW y, NEW z, NEW c \in Conn, NEW r, NEW s, NEW A, NEW B,
         Step(x, y, c, r, A), Step(y, z, c, s, B)
  PROVE  Step(x, z, c, s, B)
<1>1. Only(x.events, z.events, c)
  BY OnlyTwice DEF Step
<1>2. Apart(x, z)
  BY DEF Step, Apart
<1>3. QED
  BY <1>1, <1>2 DEF Step

\* A change that keeps the queues in order is a step.
LEMMA ChangedStep ==
  ASSUME NEW x, NEW y, NEW c \in Conn, NEW r, NEW q, NEW t, Good(x),
         Changed(x, y, c, r, q, t), r \in ConnRecord, t \in Seq(ListenerTasks),
         Only(x.events, q, c),
         \/ r.usock = "STOPPING" /\ TasksOK(t, x.usock, x.poll, Closing(x) \cup {c})
         \/ r.usock # "STOPPING" /\ TasksOK(t, x.usock, x.poll, Closing(x) \ {c})
  PROVE  Step(x, y, c, r, Mine(q, c))
<1>1. q \in Seq(ListenEvent) /\ Distinct(q) /\ ListenTyped(x)
  BY DEF Only, Good
<1>2. ListenTyped(y)
  BY <1>1, ChangedTyped
<1>3. /\ y.c[c] = r /\ \A d \in Conn \ {c} : y.c[d] = x.c[d]
  BY <1>1 DEF Changed, ListenTyped
<1>4. /\ y.events = q /\ y.tasks = t /\ y.usock = x.usock /\ y.poll = x.poll
      /\ Apart(x, y) /\ y.failed = x.failed /\ y.kind = x.kind /\ y.file = x.file
  BY DEF Changed, Apart
<1>5. /\ r.usock = "STOPPING" => Closing(y) = Closing(x) \cup {c}
      /\ r.usock # "STOPPING" => Closing(y) = Closing(x) \ {c}
  BY <1>3 DEF Closing
<1>6. TasksOK(y.tasks, y.usock, y.poll, Closing(y))
  BY <1>4, <1>5
<1>7. QED
  BY <1>1, <1>2, <1>3, <1>4, <1>6 DEF Step, Good

\* Nothing happens.
LEMMA StepNone ==
  ASSUME NEW x, NEW c \in Conn, Good(x)
  PROVE  Step(x, x, c, x.c[c], Mine(x.events, c))
BY DEF Step, Good, Apart, Only, ListenTyped

\* The usock is being closed, or not, as before.
LEMMA ClosingKept ==
  ASSUME NEW x, NEW c \in Conn, Good(x), NEW r,
         r.usock = "STOPPING" <=> x.c[c].usock = "STOPPING"
  PROVE  \/ r.usock = "STOPPING" /\ TasksOK(x.tasks, x.usock, x.poll, Closing(x) \cup {c})
         \/ r.usock # "STOPPING" /\ TasksOK(x.tasks, x.usock, x.poll, Closing(x) \ {c})
<1>1. CASE r.usock = "STOPPING"
  <2>1. Closing(x) \cup {c} = Closing(x)
    BY <1>1 DEF Closing
  <2>2. QED
    BY <1>1, <2>1 DEF Good
<1>2. CASE r.usock # "STOPPING"
  <2>1. Closing(x) \ {c} = Closing(x)
    BY <1>2 DEF Closing
  <2>2. QED
    BY <1>2, <2>1 DEF Good
<1>3. QED
  BY <1>1, <1>2

\* An event of c is taken.
LEMMA StepRest ==
  ASSUME NEW x, NEW c \in Conn, Good(x), x.events # <<>>, Concerns(Head(x.events), c)
  PROVE  Step(x, [x EXCEPT !.events = Tail(@)], c, x.c[c], Mine(x.events, c) \ {Head(x.events)})
<1> DEFINE y == [x EXCEPT !.events = Tail(@)]
           q == Tail(x.events)
<1>1. ListenTyped(x) /\ x.events \in Seq(ListenEvent) /\ Distinct(x.events)
      /\ x.c[c] \in ConnRecord /\ x.tasks \in Seq(ListenerTasks)
  BY DEF Good, ListenTyped
<1>2. Changed(x, y, c, x.c[c], q, x.tasks)
  BY <1>1, ChangeRest
<1>3. Only(x.events, q, c) /\ Mine(q, c) = Mine(x.events, c) \ {Head(x.events)}
  BY <1>1, EventTaken
<1> HIDE DEF y, q
<1>4. \/ x.c[c].usock = "STOPPING" /\ TasksOK(x.tasks, x.usock, x.poll, Closing(x) \cup {c})
      \/ x.c[c].usock # "STOPPING" /\ TasksOK(x.tasks, x.usock, x.poll, Closing(x) \ {c})
  BY ClosingKept
<1>5. Step(x, y, c, x.c[c], Mine(q, c))
  BY <1>1, <1>2, <1>3, <1>4, ChangedStep
<1>6. QED
  BY <1>3, <1>5 DEF y

\* An event of c comes.
LEMMA StepRaise ==
  ASSUME NEW x, NEW c \in Conn, Good(x), NEW e \in ListenEvent, Concerns(e, c),
         e \notin Mine(x.events, c)
  PROVE  Step(x, Raise(x, e), c, x.c[c], Mine(x.events, c) \cup {e})
<1> DEFINE y == Raise(x, e)
           q == Append(x.events, e)
<1>1. ListenTyped(x) /\ x.events \in Seq(ListenEvent) /\ Distinct(x.events)
      /\ x.c[c] \in ConnRecord /\ x.tasks \in Seq(ListenerTasks)
  BY DEF Good, ListenTyped
<1>2. Changed(x, y, c, x.c[c], q, x.tasks)
  BY <1>1, ChangeRaise
<1>3. Only(x.events, q, c) /\ Mine(q, c) = Mine(x.events, c) \cup {e}
  BY <1>1, EventAdded
<1> HIDE DEF y, q
<1>4. \/ x.c[c].usock = "STOPPING" /\ TasksOK(x.tasks, x.usock, x.poll, Closing(x) \cup {c})
      \/ x.c[c].usock # "STOPPING" /\ TasksOK(x.tasks, x.usock, x.poll, Closing(x) \ {c})
  BY ClosingKept
<1>5. Step(x, y, c, x.c[c], Mine(q, c))
  BY <1>1, <1>2, <1>3, <1>4, ChangedStep
<1>6. QED
  BY <1>3, <1>5 DEF y

\* The connection, its session or its usock has another state.
LEMMA StepState ==
  ASSUME NEW x, NEW c \in Conn, Good(x), NEW s
  PROVE  /\ [x.c[c] EXCEPT !.state = s] \in ConnRecord =>
               Step(x, [x EXCEPT !.c[c].state = s], c, [x.c[c] EXCEPT !.state = s],
                    Mine(x.events, c))
         /\ [x.c[c] EXCEPT !.session = s] \in ConnRecord =>
               Step(x, [x EXCEPT !.c[c].session = s], c, [x.c[c] EXCEPT !.session = s],
                    Mine(x.events, c))
         /\ [x.c[c] EXCEPT !.usock = s] \in ConnRecord /\ x.c[c].usock # "STOPPING"
            /\ s # "STOPPING" =>
               Step(x, [x EXCEPT !.c[c].usock = s], c, [x.c[c] EXCEPT !.usock = s],
                    Mine(x.events, c))
<1>1. ListenTyped(x) /\ x.events \in Seq(ListenEvent) /\ Distinct(x.events)
      /\ x.c[c] \in ConnRecord /\ x.tasks \in Seq(ListenerTasks)
  BY DEF Good, ListenTyped
<1>2. Only(x.events, x.events, c)
  BY <1>1 DEF Only
<1>3. ASSUME NEW y, NEW r \in ConnRecord, Changed(x, y, c, r, x.events, x.tasks),
             r.usock = "STOPPING" <=> x.c[c].usock = "STOPPING"
      PROVE  Step(x, y, c, r, Mine(x.events, c))
  <2>1. \/ r.usock = "STOPPING" /\ TasksOK(x.tasks, x.usock, x.poll, Closing(x) \cup {c})
        \/ r.usock # "STOPPING" /\ TasksOK(x.tasks, x.usock, x.poll, Closing(x) \ {c})
    BY <1>3, ClosingKept
  <2>2. QED
    BY <1>1, <1>2, <1>3, <2>1, ChangedStep
<1>4. /\ [x.c[c] EXCEPT !.state = s].usock = x.c[c].usock
      /\ [x.c[c] EXCEPT !.session = s].usock = x.c[c].usock
      /\ [x.c[c] EXCEPT !.usock = s].usock = s
  BY <1>1 DEF ConnRecord
<1>5. /\ Changed(x, [x EXCEPT !.c[c].state = s], c, [x.c[c] EXCEPT !.state = s],
                 x.events, x.tasks)
      /\ Changed(x, [x EXCEPT !.c[c].usock = s], c, [x.c[c] EXCEPT !.usock = s],
                 x.events, x.tasks)
      /\ Changed(x, [x EXCEPT !.c[c].session = s], c, [x.c[c] EXCEPT !.session = s],
                 x.events, x.tasks)
  BY <1>1, ChangeState
<1>6. QED
  BY <1>3, <1>4, <1>5

\* Stopping the session.
LEMMA StepServedStop ==
  ASSUME NEW x, NEW c \in Conn, Good(x), NEW s, NEW u, NEW n, NEW v,
         x.c[c] = Rec(s, u, n, v), Ev(c, "SESSION", "STOPPED") \notin Mine(x.events, c)
  PROVE  /\ n = "HANDSHAKE" =>
               Step(x, ServedStop(x, c), c, Rec(s, u, "STOPPING", v), Mine(x.events, c))
         /\ n \in {"ACTIVE", "DONE"} =>
               Step(x, ServedStop(x, c), c, Rec(s, u, "IDLE", v),
                    Mine(x.events, c) \cup {Ev(c, "SESSION", "STOPPED")})
         /\ n \in {"IDLE", "STOPPING"} => ServedStop(x, c) = x
<1> DEFINE e == Ev(c, "SESSION", "STOPPED")
<1>1. ListenTyped(x) /\ x.events \in Seq(ListenEvent) /\ Distinct(x.events)
      /\ x.c[c] \in ConnRecord /\ x.tasks \in Seq(ListenerTasks)
  BY DEF Good, ListenTyped
<1>2. /\ x.c[c].session = n /\ x.c[c].usock = u
      /\ [x.c[c] EXCEPT !.session = "IDLE"] = Rec(s, u, "IDLE", v)
      /\ [x.c[c] EXCEPT !.session = "STOPPING"] = Rec(s, u, "STOPPING", v)
      /\ \A w : Rec(s, u, w, v).usock = u
  BY DEF Rec
<1>3. e \in ListenEvent /\ Concerns(e, c)
  BY ConnEvents
<1>4. Only(x.events, x.events, c) /\ Only(x.events, Append(x.events, e), c)
      /\ Mine(Append(x.events, e), c) = Mine(x.events, c) \cup {e}
  BY <1>1, <1>3, EventAdded DEF Only
<1>5. ASSUME NEW w \in {"IDLE", "STOPPING"} PROVE Rec(s, u, w, v) \in ConnRecord
  BY <1>1 DEF Rec, ConnRecord
<1>6. ASSUME NEW w \in {"IDLE", "STOPPING"}, NEW q, Only(x.events, q, c),
             Changed(x, ServedStop(x, c), c, Rec(s, u, w, v), q, x.tasks)
      PROVE  Step(x, ServedStop(x, c), c, Rec(s, u, w, v), Mine(q, c))
  <2> DEFINE r == Rec(s, u, w, v)
  <2>1. r \in ConnRecord /\ (r.usock = "STOPPING" <=> x.c[c].usock = "STOPPING")
    BY <1>2, <1>5
  <2> HIDE DEF r
  <2>2. \/ r.usock = "STOPPING" /\ TasksOK(x.tasks, x.usock, x.poll, Closing(x) \cup {c})
        \/ r.usock # "STOPPING" /\ TasksOK(x.tasks, x.usock, x.poll, Closing(x) \ {c})
    BY <2>1, ClosingKept
  <2>3. Changed(x, ServedStop(x, c), c, r, q, x.tasks)
    BY <1>6 DEF r
  <2>4. Step(x, ServedStop(x, c), c, r, Mine(q, c))
    BY <1>1, <1>6, <2>1, <2>2, <2>3, ChangedStep
  <2>5. QED
    BY <2>4 DEF r
<1> HIDE DEF e
<1>7. /\ x.c[c].session = "HANDSHAKE" =>
               Changed(x, ServedStop(x, c), c, Rec(s, u, "STOPPING", v), x.events, x.tasks)
      /\ x.c[c].session \in {"ACTIVE", "DONE"} =>
               Changed(x, ServedStop(x, c), c, Rec(s, u, "IDLE", v), Append(x.events, e), x.tasks)
      /\ x.c[c].session \in {"IDLE", "STOPPING"} => ServedStop(x, c) = x
  BY <1>1, <1>2, ServedStopChanges DEF e
<1>8. CASE n = "HANDSHAKE"
  BY <1>2, <1>4, <1>6, <1>7, <1>8
<1>9. CASE n \in {"ACTIVE", "DONE"}
  BY <1>2, <1>4, <1>6, <1>7, <1>9 DEF e
<1>10. CASE n \in {"IDLE", "STOPPING"}
  BY <1>2, <1>7, <1>10
<1>11. QED
  BY <1>8, <1>9, <1>10

\* Stopping the usock.
LEMMA StepAcceptedStop ==
  ASSUME NEW x, NEW c \in Conn, Good(x), NEW s, NEW u, NEW n, NEW v,
         x.c[c] = Rec(s, u, n, v), Mine(x.events, c) = {}
  PROVE  /\ u = "DONE" => Step(x, AcceptedStop(x, c), c, Rec(s, "IDLE", n, v),
                               {Ev(c, "ACCEPTED", "STOPPED")})
         /\ u = "ACTIVE" => Step(x, AcceptedStop(x, c), c, Rec(s, "STOPPING", n, v),
                                 {Ev(c, "ACCEPTED", "SHUTDOWN")})
         /\ u \in {"IDLE", "STOPPING"} => AcceptedStop(x, c) = x
<1>1. ListenTyped(x) /\ x.events \in Seq(ListenEvent) /\ Distinct(x.events)
      /\ x.c[c] \in ConnRecord /\ x.tasks \in Seq(ListenerTasks)
      /\ TasksOK(x.tasks, x.usock, x.poll, Closing(x))
  BY DEF Good, ListenTyped
<1>2. /\ x.c[c].usock = u
      /\ [x.c[c] EXCEPT !.usock = "IDLE"] = Rec(s, "IDLE", n, v)
      /\ [x.c[c] EXCEPT !.usock = "STOPPING"] = Rec(s, "STOPPING", n, v)
      /\ \A w : Rec(s, w, n, v).usock = w
  BY DEF Rec
<1>3. ASSUME NEW t \in {"STOPPED", "SHUTDOWN"}
      PROVE  /\ Only(x.events, Append(x.events, Ev(c, "ACCEPTED", t)), c)
             /\ Mine(Append(x.events, Ev(c, "ACCEPTED", t)), c) = {Ev(c, "ACCEPTED", t)}
  <2> DEFINE e == Ev(c, "ACCEPTED", t)
  <2>1. e \in ListenEvent /\ Concerns(e, c)
    BY ConnEvents
  <2>2. e \notin Mine(x.events, c) /\ Mine(x.events, c) \cup {e} = {e}
    OBVIOUS
  <2> HIDE DEF e
  <2>3. Only(x.events, Append(x.events, e), c)
        /\ Mine(Append(x.events, e), c) = Mine(x.events, c) \cup {e}
    BY <1>1, <2>1, <2>2, EventAdded
  <2>4. QED
    BY <2>2, <2>3 DEF e
<1>4. ASSUME NEW w \in {"IDLE", "STOPPING"} PROVE Rec(s, w, n, v) \in ConnRecord
  BY <1>1 DEF Rec, ConnRecord
<1>5. CASE u = "DONE"
  <2> DEFINE e == Ev(c, "ACCEPTED", "STOPPED")
             r == Rec(s, "IDLE", n, v)
             y == AcceptedStop(x, c)
             q == Append(x.events, e)
  <2>1. Changed(x, y, c, r, q, x.tasks)
    <3>1. Changed(x, y, c, [x.c[c] EXCEPT !.usock = "IDLE"], q, x.tasks)
      <4>1. x.c[c].usock = "DONE"
        BY <1>2, <1>5
      <4>2. QED
        BY <1>1, <4>1, AcceptedStopChanges
    <3>2. QED
      BY <1>2, <3>1
  <2>2. r \in ConnRecord /\ r.usock = "IDLE"
    BY <1>2, <1>4
  <2>3. Only(x.events, q, c) /\ Mine(q, c) = {e}
    BY <1>3
  <2> HIDE DEF e, r, y, q
  <2>4. r.usock # "STOPPING" /\ TasksOK(x.tasks, x.usock, x.poll, Closing(x) \ {c})
    BY <1>2, <1>5, <2>2, ClosingKept
  <2>5. Step(x, y, c, r, Mine(q, c))
    BY <1>1, <2>1, <2>2, <2>3, <2>4, ChangedStep
  <2>6. QED
    BY <1>5, <2>3, <2>5 DEF e, r, y
<1>6. CASE u = "ACTIVE"
  <2> DEFINE e == Ev(c, "ACCEPTED", "SHUTDOWN")
             r == Rec(s, "STOPPING", n, v)
             y == AcceptedStop(x, c)
             q == Append(x.events, e)
             t == Append(x.tasks, <<c, "STOP">>)
  <2>1. Changed(x, y, c, r, q, t)
    BY <1>1, <1>2, <1>6, AcceptedStopChanges
  <2>2. r \in ConnRecord /\ r.usock = "STOPPING"
    BY <1>2, <1>4
  <2>3. Only(x.events, q, c) /\ Mine(q, c) = {e}
    BY <1>3
  <2>4. Closing(x) \in SUBSET Conn /\ c \in Conn \ Closing(x)
    BY <1>2, <1>6 DEF Closing
  <2>5. t \in Seq(ListenerTasks) /\ TasksOK(t, x.usock, x.poll, Closing(x) \cup {c})
    BY <1>1, <2>4, TasksClose
  <2> HIDE DEF e, r, y, q, t
  <2>6. Step(x, y, c, r, Mine(q, c))
    BY <1>1, <2>1, <2>2, <2>3, <2>5, ChangedStep
  <2>7. QED
    BY <1>6, <2>3, <2>6 DEF e, r, y
<1>7. CASE u \in {"IDLE", "STOPPING"}
  BY <1>1, <1>2, <1>7, AcceptedStopChanges
<1>8. QED
  BY <1>5, <1>6, <1>7

\* A step leads to an endpoint of the same types.
LEMMA StepGood ==
  ASSUME NEW x, NEW y, NEW c \in Conn, NEW r, NEW A, Step(x, y, c, r, A)
  PROVE  Good(y) /\ ListenTyped(y) /\ r = y.c[c] /\ A = Mine(y.events, c)
BY DEF Step, Good

\* The connection, its session or its usock has another state, by fields.
LEMMA StepRec ==
  ASSUME NEW x, NEW c \in Conn, Good(x), NEW s, NEW u, NEW n, NEW v, NEW w,
         x.c[c] = Rec(s, u, n, v)
  PROVE  /\ Rec(w, u, n, v) \in ConnRecord =>
               Step(x, [x EXCEPT !.c[c].state = w], c, Rec(w, u, n, v), Mine(x.events, c))
         /\ Rec(s, u, w, v) \in ConnRecord =>
               Step(x, [x EXCEPT !.c[c].session = w], c, Rec(s, u, w, v), Mine(x.events, c))
         /\ Rec(s, w, n, v) \in ConnRecord /\ u # "STOPPING" /\ w # "STOPPING" =>
               Step(x, [x EXCEPT !.c[c].usock = w], c, Rec(s, w, n, v), Mine(x.events, c))
<1>1. /\ [x.c[c] EXCEPT !.state = w] = Rec(w, u, n, v)
      /\ [x.c[c] EXCEPT !.session = w] = Rec(s, u, w, v)
      /\ [x.c[c] EXCEPT !.usock = w] = Rec(s, w, n, v)
      /\ x.c[c].usock = u
  BY DEF Rec
<1>2. ASSUME [x.c[c] EXCEPT !.state = w] \in ConnRecord
      PROVE  Step(x, [x EXCEPT !.c[c].state = w], c, [x.c[c] EXCEPT !.state = w], Mine(x.events, c))
  BY <1>2, StepState
<1>3. ASSUME [x.c[c] EXCEPT !.session = w] \in ConnRecord
      PROVE  Step(x, [x EXCEPT !.c[c].session = w], c, [x.c[c] EXCEPT !.session = w],
                  Mine(x.events, c))
  BY <1>3, StepState
<1>4. ASSUME [x.c[c] EXCEPT !.usock = w] \in ConnRecord, x.c[c].usock # "STOPPING", w # "STOPPING"
      PROVE  Step(x, [x EXCEPT !.c[c].usock = w], c, [x.c[c] EXCEPT !.usock = w],
                  Mine(x.events, c))
  BY <1>4, StepState
<1> DEFINE a == [x EXCEPT !.c[c].state = w]
           b == [x EXCEPT !.c[c].session = w]
           d == [x EXCEPT !.c[c].usock = w]
           p == [x.c[c] EXCEPT !.state = w]
           q == [x.c[c] EXCEPT !.session = w]
           t == [x.c[c] EXCEPT !.usock = w]
<1>5. /\ p = Rec(w, u, n, v) /\ q = Rec(s, u, w, v) /\ t = Rec(s, w, n, v)
      /\ p \in ConnRecord => Step(x, a, c, p, Mine(x.events, c))
      /\ q \in ConnRecord => Step(x, b, c, q, Mine(x.events, c))
      /\ t \in ConnRecord /\ x.c[c].usock # "STOPPING" /\ w # "STOPPING" =>
            Step(x, d, c, t, Mine(x.events, c))
  BY <1>1, <1>2, <1>3, <1>4
<1> HIDE DEF a, b, d, p, q, t
<1>6. QED
  <2>1. /\ Rec(w, u, n, v) \in ConnRecord => Step(x, a, c, Rec(w, u, n, v), Mine(x.events, c))
        /\ Rec(s, u, w, v) \in ConnRecord => Step(x, b, c, Rec(s, u, w, v), Mine(x.events, c))
        /\ Rec(s, w, n, v) \in ConnRecord /\ u # "STOPPING" /\ w # "STOPPING" =>
              Step(x, d, c, Rec(s, w, n, v), Mine(x.events, c))
    BY <1>1, <1>5
  <2>2. QED
    BY <2>1 DEF a, b, d

\* The connection is stopped, and tells the endpoint.
LEMMA StepTell ==
  ASSUME NEW x, NEW c \in Conn, Good(x), x.c[c] = Rec("STOPPING", "IDLE", "IDLE", NULL),
         Mine(x.events, c) = {}
  PROVE  /\ Step(x, Raise([ReturnListener(x, c) EXCEPT !.c[c].state = "IDLE"], Ev("ep", c, "STOPPED")),
                 c, Rec("IDLE", "IDLE", "IDLE", NULL), {Ev("ep", c, "STOPPED")})
         /\ AcceptedIdle(x, c)
<1> DEFINE y == [x EXCEPT !.c[c].state = "IDLE"]
           r == Rec("IDLE", "IDLE", "IDLE", NULL)
           e == Ev("ep", c, "STOPPED")
<1>1. x.c[c].saved = NULL /\ x.c[c].usock = "IDLE"
      /\ [x.c[c] EXCEPT !.state = "IDLE"] = Rec("IDLE", "IDLE", "IDLE", NULL)
  BY DEF Rec
<1>2. ReturnListener(x, c) = x
  BY <1>1 DEF ReturnListener
<1>3. r \in ConnRecord
  BY RecTyped
<1>4. Step(x, y, c, r, {})
  <2>1. Step(x, y, c, r, Mine(x.events, c))
    BY <1>3, StepRec DEF r
  <2>2. QED
    BY <2>1
<1>5. e \in ListenEvent /\ Concerns(e, c)
  BY ConnEvents
<1> HIDE DEF y, r, e
<1>6. Good(y) /\ y.c[c] = r /\ Mine(y.events, c) = {}
  BY <1>4, StepGood
<1>7. Step(y, Raise(y, e), c, r, {} \cup {e})
  BY <1>5, <1>6, StepRaise
<1>8. {} \cup {e} = {e}
  OBVIOUS
<1>9. Step(x, Raise(y, e), c, r, {e})
  BY <1>4, <1>7, <1>8, StepTwice
<1>10. AcceptedIdle(x, c)
  <2>1. ListenTyped(x)
    BY DEF Good
  <2>2. QED
    BY <1>1, <2>1, IdleByEvents
<1>11. QED
  BY <1>2, <1>9, <1>10 DEF y, r, e

\* nn_a*_shutdown: the connection comes to one of the states in which it ends.
LEMMA StepFinish ==
  ASSUME NEW x, NEW c \in Conn, Good(x), NEW s, NEW u, NEW n,
         x.c[c] = Rec(s, u, n, NULL),
         \/ Hangs(c, x.c[c], Mine(x.events, c))
         \/ Quits(c, x.c[c], Mine(x.events, c), "STOPPING_SESSION_FINAL")
         \/ /\ s = "STOPPING_SESSION_FINAL" /\ n = "IDLE" /\ Mine(x.events, c) = {}
            /\ u \in {"ACTIVE", "DONE", "IDLE", "STOPPING"}
         \/ s = "STOPPING" /\ u \in {"STOPPING", "IDLE"} /\ n = "IDLE" /\ Mine(x.events, c) = {}
  PROVE  \E r, A : /\ Step(x, ConnFinish(x, c), c, r, A) /\ Ending(c, r, A)
                   /\ u = "IDLE" => Ended(c, r, A)
<1>1. /\ x.c[c].state = s /\ x.c[c].usock = u /\ x.c[c].session = n /\ x.c[c].saved = NULL
      /\ [x.c[c] EXCEPT !.state = "STOPPING"] = Rec("STOPPING", u, n, NULL)
      /\ ListenTyped(x)
  BY DEF Rec, Good
<1>2. ServedIdle(x, c) <=> n = "IDLE" /\ Ev(c, "SESSION", "STOPPED") \notin Mine(x.events, c)
  BY <1>1, IdleByEvents
<1>3. ASSUME s = "STOPPING_SESSION_FINAL", ~ServedIdle(x, c)
      PROVE  ConnFinish(x, c) = x
  BY <1>1, <1>3 DEF ConnFinish
<1>4. CASE Hangs(c, x.c[c], Mine(x.events, c))
  <2>1. s = "STOPPING_SESSION_FINAL" /\ n = "STOPPING" /\ u = "ACTIVE"
    BY <1>4 DEF Hangs, Rec
  <2>2. ConnFinish(x, c) = x
    BY <1>2, <1>3, <2>1
  <2>3. Step(x, x, c, x.c[c], Mine(x.events, c))
    BY StepNone
  <2>4. QED
    BY <1>4, <2>1, <2>2, <2>3 DEF Ending
<1>5. CASE Quits(c, x.c[c], Mine(x.events, c), "STOPPING_SESSION_FINAL")
  <2>1. s = "STOPPING_SESSION_FINAL" /\ u # "IDLE"
        /\ Ev(c, "SESSION", "STOPPED") \in Mine(x.events, c)
    BY <1>5 DEF Quits, Rec
  <2>2. ConnFinish(x, c) = x
    BY <1>2, <1>3, <2>1
  <2>3. Step(x, x, c, x.c[c], Mine(x.events, c))
    BY StepNone
  <2>4. QED
    BY <1>5, <2>1, <2>2, <2>3 DEF Ending
<1>6. ASSUME NEW y, Good(y), Step(x, y, c, Rec("STOPPING", u, "IDLE", NULL), {}), u \in {"STOPPING", "IDLE"},
             ConnFinish(x, c) =
                IF y.c[c].state = "STOPPING" /\ AcceptedIdle(y, c)
                THEN Raise([ReturnListener(y, c) EXCEPT !.c[c].state = "IDLE"],
                           Ev("ep", c, "STOPPED"))
                ELSE y
      PROVE  \E r, A : /\ Step(x, ConnFinish(x, c), c, r, A) /\ Ending(c, r, A)
                       /\ u = "IDLE" => Ended(c, r, A)
  <2>1. y.c[c] = Rec("STOPPING", u, "IDLE", NULL) /\ Mine(y.events, c) = {} /\ ListenTyped(y)
    BY <1>6, StepGood
  <2>2. y.c[c].state = "STOPPING" /\ y.c[c].usock = u
    BY <2>1, RecFields
  <2>3. CASE u = "STOPPING"
    <3>1. ~AcceptedIdle(y, c)
      BY <2>1, <2>2, <2>3, IdleByEvents
    <3>2. ConnFinish(x, c) = y
      BY <1>6, <3>1
    <3>3. Ending(c, Rec("STOPPING", u, "IDLE", NULL), {})
      BY <2>3 DEF Ending, Closes
    <3>4. QED
      BY <1>6, <2>3, <3>2, <3>3
  <2>4. CASE u = "IDLE"
    <3> DEFINE z == Raise([ReturnListener(y, c) EXCEPT !.c[c].state = "IDLE"], Ev("ep", c, "STOPPED"))
               r == Rec("IDLE", "IDLE", "IDLE", NULL)
               A == {Ev("ep", c, "STOPPED")}
    <3>1. Step(y, z, c, r, A) /\ AcceptedIdle(y, c)
      BY <1>6, <2>1, <2>4, StepTell
    <3>2. ConnFinish(x, c) = z
      BY <1>6, <2>2, <3>1
    <3>3. Ended(c, r, A)
      BY DEF Ended
    <3> HIDE DEF z, r, A
    <3>4. Step(x, z, c, r, A)
      BY <1>6, <3>1, StepTwice
    <3>5. QED
      BY <3>2, <3>3, <3>4 DEF Ending
  <2>5. QED
    BY <1>6, <2>3, <2>4
<1>7. CASE /\ s = "STOPPING_SESSION_FINAL" /\ n = "IDLE" /\ Mine(x.events, c) = {}
           /\ u \in {"ACTIVE", "DONE", "IDLE", "STOPPING"}
  <2> DEFINE w == [x EXCEPT !.c[c].state = "STOPPING"]
             y == AcceptedStop(w, c)
  <2>1. Rec("STOPPING", u, "IDLE", NULL) \in ConnRecord
    BY <1>7, RecTyped
  <2>2. Step(x, w, c, Rec("STOPPING", u, "IDLE", NULL), {})
    <3>1. Step(x, w, c, Rec("STOPPING", u, "IDLE", NULL), Mine(x.events, c))
      <4>1. x.c[c] = Rec("STOPPING_SESSION_FINAL", u, "IDLE", NULL)
        BY <1>7
      <4>2. QED
        BY <2>1, <4>1, StepRec
    <3>2. QED
      BY <1>7, <3>1
  <2>3. ConnFinish(x, c) =
           IF y.c[c].state = "STOPPING" /\ AcceptedIdle(y, c)
           THEN Raise([ReturnListener(y, c) EXCEPT !.c[c].state = "IDLE"],
                           Ev("ep", c, "STOPPED"))
           ELSE y
    <3>1. ServedIdle(x, c)
      BY <1>2, <1>7
    <3>2. QED
      BY <1>1, <1>7, <3>1 DEF ConnFinish
  <2> HIDE DEF w
  <2>4. Good(w) /\ w.c[c] = Rec("STOPPING", u, "IDLE", NULL) /\ Mine(w.events, c) = {}
    BY <2>2, StepGood
  <2>5. CASE u = "ACTIVE"
    <3> DEFINE r == Rec("STOPPING", "STOPPING", "IDLE", NULL)
               A == {Ev(c, "ACCEPTED", "SHUTDOWN")}
    <3>1. Step(w, y, c, r, A)
      BY <2>4, <2>5, StepAcceptedStop
    <3>2. Ending(c, r, A)
      BY DEF Ending, Closes
    <3>3. r.usock = "STOPPING"
      BY RecFields
    <3> HIDE DEF y, r, A
    <3>4. Step(x, y, c, r, A) /\ y.c[c] = r /\ ListenTyped(y)
      BY <2>2, <3>1, StepTwice, StepGood
    <3>5. ~AcceptedIdle(y, c)
      BY <3>3, <3>4, IdleByEvents
    <3>6. QED
      BY <2>3, <2>5, <3>2, <3>4, <3>5
  <2>6. CASE u = "DONE"
    <3> DEFINE r == Rec("STOPPING", "IDLE", "IDLE", NULL)
               A == {Ev(c, "ACCEPTED", "STOPPED")}
    <3>1. Step(w, y, c, r, A)
      BY <2>4, <2>6, StepAcceptedStop
    <3>2. Ending(c, r, A)
      BY DEF Ending, Closed
    <3>3. Ev(c, "ACCEPTED", "STOPPED") \in A
      OBVIOUS
    <3> HIDE DEF y, r, A
    <3>4. Step(x, y, c, r, A) /\ Mine(y.events, c) = A /\ ListenTyped(y)
      BY <2>2, <3>1, StepTwice, StepGood
    <3>5. ~AcceptedIdle(y, c)
      BY <3>3, <3>4, IdleByEvents
    <3>6. QED
      BY <2>3, <2>6, <3>2, <3>4, <3>5
  <2>7. CASE u \in {"IDLE", "STOPPING"}
    <3>1. y = w
      BY <2>4, <2>7, StepAcceptedStop
    <3> HIDE DEF y
    <3>2. QED
      BY <1>6, <2>2, <2>3, <2>4, <2>7, <3>1
  <2>8. QED
    BY <1>7, <2>5, <2>6, <2>7
<1>8. CASE s = "STOPPING" /\ u \in {"STOPPING", "IDLE"} /\ n = "IDLE" /\ Mine(x.events, c) = {}
  <2>1. ConnFinish(x, c) =
           IF x.c[c].state = "STOPPING" /\ AcceptedIdle(x, c)
           THEN Raise([ReturnListener(x, c) EXCEPT !.c[c].state = "IDLE"], Ev("ep", c, "STOPPED"))
           ELSE x
    BY <1>1, <1>8 DEF ConnFinish
  <2>2. Step(x, x, c, Rec("STOPPING", u, "IDLE", NULL), {})
    BY <1>8, StepNone
  <2>3. QED
    BY <1>6, <1>8, <2>1, <2>2
<1>9. QED
  BY <1>4, <1>5, <1>7, <1>8

\* nn_a*_stop of an accepted connection.
LEMMA StepStop ==
  ASSUME NEW x, NEW c \in Conn, Good(x), Mine(x.events, c) = {},
         \/ Runs(c, x.c[c], {}) \/ Closes(c, x.c[c], {}, "STOPPING_USOCK")
         \/ x.c[c] = Rec("DONE", "IDLE", "IDLE", NULL)
  PROVE  \E r, A : /\ Step(x, ConnStop(x, c), c, r, A) /\ Ending(c, r, A)
                   /\ x.c[c].state = "DONE" => Ended(c, r, A)
<1> DEFINE F == "STOPPING_SESSION_FINAL"
           y == ServedStop(x, c)
           z == [y EXCEPT !.c[c].state = F]
<1>1. PICK s, u, n : x.c[c] = Rec(s, u, n, NULL) /\ <<s, u, n>> \in
         {<<"ACTIVE", "ACTIVE", "HANDSHAKE">>, <<"ACTIVE", "ACTIVE", "ACTIVE">>,
          <<"STOPPING_USOCK", "STOPPING", "IDLE">>, <<"DONE", "IDLE", "IDLE">>}
  BY DEF Runs, Closes
<1>2. /\ x.c[c].state = s /\ x.c[c].usock = u /\ x.c[c].session = n
  BY <1>1, RecFields
<1>3. ConnStop(x, c) = ConnFinish(z, c)
  BY <1>1, <1>2 DEF ConnStop
<1>4. ASSUME NEW k, NEW A, Step(x, y, c, Rec(s, u, k, NULL), A), Rec(F, u, k, NULL) \in ConnRecord
      PROVE  /\ Step(x, z, c, Rec(F, u, k, NULL), A)
             /\ Good(z) /\ z.c[c] = Rec(F, u, k, NULL) /\ Mine(z.events, c) = A
  <2>1. Good(y) /\ y.c[c] = Rec(s, u, k, NULL) /\ Mine(y.events, c) = A
    BY <1>4, StepGood
  <2> HIDE DEF y
  <2>3. Step(y, z, c, Rec(F, u, k, NULL), A)
    <3>1. Step(y, z, c, Rec(F, u, k, NULL), Mine(y.events, c))
      BY <1>4, <2>1, StepRec
    <3>2. QED
      BY <2>1, <3>1
  <2> HIDE DEF z, F
  <2>4. Step(x, z, c, Rec(F, u, k, NULL), A)
    BY <1>4, <2>3, StepTwice
  <2>5. QED
    BY <2>4, StepGood
<1>5. ASSUME NEW k, NEW A, Step(x, z, c, Rec(F, u, k, NULL), A),
             \E r, B : /\ Step(z, ConnFinish(z, c), c, r, B) /\ Ending(c, r, B)
                       /\ u = "IDLE" => Ended(c, r, B)
      PROVE  \E r, B : /\ Step(x, ConnStop(x, c), c, r, B) /\ Ending(c, r, B)
                       /\ x.c[c].state = "DONE" => Ended(c, r, B)
  <2>1. PICK r, B : /\ Step(z, ConnFinish(z, c), c, r, B) /\ Ending(c, r, B)
                    /\ u = "IDLE" => Ended(c, r, B)
    BY <1>5
  <2> HIDE DEF z, F
  <2>2. Step(x, ConnFinish(z, c), c, r, B)
    BY <1>5, <2>1, StepTwice
  <2>3. x.c[c].state = "DONE" => u = "IDLE"
    BY <1>1, <1>2
  <2>4. QED
    BY <1>3, <2>1, <2>2, <2>3
<1>6. Ev(c, "SESSION", "STOPPED") \notin Mine(x.events, c)
  OBVIOUS
<1>7. CASE n = "HANDSHAKE"
  <2>1. u = "ACTIVE" /\ Rec(F, u, "STOPPING", NULL) \in ConnRecord
    BY <1>1, <1>7, RecTyped
  <2>2. Step(x, y, c, Rec(s, u, "STOPPING", NULL), {})
    <3>1. x.c[c] = Rec(s, u, "HANDSHAKE", NULL)
      BY <1>1, <1>7
    <3>2. Step(x, y, c, Rec(s, u, "STOPPING", NULL), Mine(x.events, c))
      BY <1>6, <3>1, StepServedStop
    <3>3. QED
      BY <3>2
  <2> HIDE DEF y
  <2>3. /\ Step(x, z, c, Rec(F, u, "STOPPING", NULL), {})
        /\ Good(z) /\ z.c[c] = Rec(F, u, "STOPPING", NULL) /\ Mine(z.events, c) = {}
    BY <1>4, <2>1, <2>2 DEF y
  <2> HIDE DEF z
  <2>4. Hangs(c, z.c[c], Mine(z.events, c))
    BY <2>1, <2>3 DEF Hangs
  <2>5. \E r, B : /\ Step(z, ConnFinish(z, c), c, r, B) /\ Ending(c, r, B)
                  /\ u = "IDLE" => Ended(c, r, B)
    BY <2>3, <2>4, StepFinish
  <2>6. QED
    BY <1>5, <2>3, <2>5 DEF z, y
<1>8. CASE n = "ACTIVE"
  <2> DEFINE A == {Ev(c, "SESSION", "STOPPED")}
  <2>1. u = "ACTIVE" /\ Rec(F, u, "IDLE", NULL) \in ConnRecord
    BY <1>1, <1>8, RecTyped
  <2>2. {} \cup {Ev(c, "SESSION", "STOPPED")} = A
    OBVIOUS
  <2>3. Step(x, y, c, Rec(s, u, "IDLE", NULL), A)
    BY <1>1, <1>6, <1>8, <2>2, StepServedStop
  <2> HIDE DEF y, A
  <2>4. /\ Step(x, z, c, Rec(F, u, "IDLE", NULL), A)
        /\ Good(z) /\ z.c[c] = Rec(F, u, "IDLE", NULL) /\ Mine(z.events, c) = A
    BY <1>4, <2>1, <2>3 DEF y
  <2> HIDE DEF z
  <2>5. Quits(c, z.c[c], Mine(z.events, c), F)
    BY <2>1, <2>4 DEF Quits, A
  <2>6. \E r, B : /\ Step(z, ConnFinish(z, c), c, r, B) /\ Ending(c, r, B)
                  /\ u = "IDLE" => Ended(c, r, B)
    BY <2>4, <2>5, StepFinish
  <2>7. QED
    BY <1>5, <2>4, <2>6 DEF z, y
<1>9. CASE n = "IDLE"
  <2>1. u \in {"IDLE", "STOPPING"} /\ Rec(F, u, "IDLE", NULL) \in ConnRecord
    BY <1>1, <1>9, RecTyped
  <2>2. y = x
    BY <1>1, <1>6, <1>9, StepServedStop
  <2>3. Step(x, y, c, Rec(s, u, "IDLE", NULL), {})
    BY <1>1, <1>9, <2>2, StepNone
  <2> HIDE DEF y
  <2>4. /\ Step(x, z, c, Rec(F, u, "IDLE", NULL), {})
        /\ Good(z) /\ z.c[c] = Rec(F, u, "IDLE", NULL) /\ Mine(z.events, c) = {}
    BY <1>4, <2>1, <2>3 DEF y
  <2> HIDE DEF z
  <2>5. \E r, B : /\ Step(z, ConnFinish(z, c), c, r, B) /\ Ending(c, r, B)
                  /\ u = "IDLE" => Ended(c, r, B)
    BY <2>1, <2>4, StepFinish
  <2>6. QED
    BY <1>5, <2>4, <2>5 DEF z, y
<1>10. QED
  BY <1>1, <1>7, <1>8, <1>9

-----------------------------------------------------------------------------
(* Whose step it is.                                                         *)

\* The queues of an endpoint that listens are in order.
LEMMA ListensGood ==
  ASSUME NEW x, Listens(x)
  PROVE  Good(x) /\ x.conns \in Seq(Conn) /\ Range(x.conns) \subseteq Conn
         /\ x.events \in Seq(ListenEvent) /\ x.tasks \in Seq(ListenerTasks)
         /\ Closing(x) \subseteq Conn
         /\ TasksOK(x.tasks, x.usock, x.poll, Closing(x)) /\ Distinct(x.events)
<1>1. ListenTyped(x) /\ Bound2(x)
  BY DEF Listens
<1>2. Good(x)
  BY <1>1 DEF Good, Bound2, Members
<1>3. QED
  BY <1>1, <1>2 DEF Good, ListenTyped, Range, Closing

\* A queue of different events, which are all the same one.
LEMMA FewEvents ==
  ASSUME NEW S, NEW q \in Seq(S), Distinct(q), NEW e, Range(q) \subseteq {e}
  PROVE  Len(q) <= 1
<1>1. SUFFICES ASSUME Len(q) \in Nat, Len(q) > 1 PROVE FALSE
  OBVIOUS
<1>2. 1 \in DOMAIN q /\ 2 \in DOMAIN q
  BY <1>1
<1>3. q[1] \in Range(q) /\ q[2] \in Range(q)
  BY <1>2 DEF Range
<1>4. q[1] = q[2]
  BY <1>3
<1>5. QED
  BY <1>2, <1>4 DEF Distinct

\* An accepted connection has one event at most.
LEMMA ServedOne ==
  ASSUME NEW c, NEW r, NEW A, NEW ep, Served(c, r, A, ep) \/ Ending(c, r, A)
  PROVE  \E e : A \subseteq {e}
BY DEF Served, Ending, Runs, Broken, Quits, Closes, Closed, Fails, Forgotten, Ended, Hangs

\* A step of an accepted connection while nobody else has events.
LEMMA StepListens ==
  ASSUME NEW x, NEW y, NEW c \in Conn, NEW r, NEW A, Listens(x), c \in Range(x.conns),
         Step(x, y, c, r, A),
         \/ /\ x.ep \in {"ACTIVE", "STOPPING_CONN"}
            /\ x.events = <<>> \/ \E e \in ListenEvent : x.events = <<e>> /\ Concerns(e, c)
            /\ Served(c, r, A, x.ep)
         \/ x.ep = "STOPPING_CONNS" /\ Ending(c, r, A)
  PROVE  Listens(y)
<1>1. ListenTyped(x) /\ Bound2(x) /\ Good(x) /\ ~x.failed
  BY ListensGood DEF Listens
<1>2. /\ Good(y) /\ Apart(x, y) /\ y.failed = x.failed /\ y.kind = x.kind /\ y.file = x.file
      /\ y.c[c] = r /\ \A d \in Conn \ {c} : y.c[d] = x.c[d]
      /\ Only(x.events, y.events, c) /\ Mine(y.events, c) = A
  BY DEF Step
<1>3. /\ y.ep = x.ep /\ ListenTyped(y) /\ TasksOK(y.tasks, y.usock, y.poll, Closing(y))
      /\ Distinct(y.events) /\ y.events \in Seq(ListenEvent)
  BY <1>2 DEF Apart, Good, ListenTyped
<1>4. ASSUME x.events = <<>> \/ \E e \in ListenEvent : x.events = <<e>> /\ Concerns(e, c),
             Served(c, r, A, x.ep)
      PROVE  Len(y.events) <= 1
  <2>1. PICK e : A \subseteq {e}
    BY <1>4, ServedOne
  <2>2. \A f \in Range(x.events) : Concerns(f, c)
    BY <1>4 DEF Range
  <2>3. Range(y.events) \subseteq A
    BY <1>2, <2>2 DEF Only, Mine
  <2>4. QED
    BY <1>3, <2>1, <2>3, FewEvents
<1>5. Bound2(y)
  <2>1. CASE x.ep = "STOPPING_CONNS" /\ Ending(c, r, A)
    BY <1>1, <1>2, <1>3, <2>1, ServedStep
  <2>2. CASE /\ x.ep \in {"ACTIVE", "STOPPING_CONN"}
             /\ x.events = <<>> \/ \E e \in ListenEvent : x.events = <<e>> /\ Concerns(e, c)
             /\ Served(c, r, A, x.ep)
    <3>1. Len(y.events) <= 1
      BY <1>4, <2>2
    <3>2. Served(c, y.c[c], Mine(y.events, c), y.ep)
      BY <1>2, <1>3, <2>2
    <3>3. QED
      BY <1>1, <1>2, <1>3, <2>2, <3>1, <3>2, ServedStep
  <2>3. QED
    BY <2>1, <2>2
<1>6. QED
  BY <1>1, <1>2, <1>3, <1>5 DEF Listens

\* The events of the connection that waits for a peer.
LEMMA WaitingEvents ==
  ASSUME NEW x, NEW c \in Conn, Waiting(x, c)
  PROVE  \/ Waits(x, c) \/ Cancels(x, c)
         \/ /\ Greets(x, c) \/ Lacks(x, c) \/ Hands(x, c) \/ Cancelled(x, c) \/ Returned(x, c)
            /\ \E e \in ListenEvent : x.events = <<e>> /\ Concerns(e, c)
<1>1. /\ Ev(c, "ACCEPTED", "ACCEPTED") \in ListenEvent
      /\ Concerns(Ev(c, "ACCEPTED", "ACCEPTED"), c)
      /\ Ev(c, "LISTENER", "ACCEPT_ERROR") \in ListenEvent
      /\ Concerns(Ev(c, "LISTENER", "ACCEPT_ERROR"), c)
      /\ Ev("ep", c, "ACCEPTED") \in ListenEvent /\ Concerns(Ev("ep", c, "ACCEPTED"), c)
      /\ Ev(c, "ACCEPTED", "STOPPED") \in ListenEvent /\ Concerns(Ev(c, "ACCEPTED", "STOPPED"), c)
      /\ Ev("ep", c, "STOPPED") \in ListenEvent /\ Concerns(Ev("ep", c, "STOPPED"), c)
  BY ConnEvents
<1>2. QED
  BY <1>1 DEF Waiting, Greets, Lacks, Hands, Cancelled, Returned

\* Whose event is handled.
LEMMA WhoseEvent ==
  ASSUME NEW x, Listens(x), x.events # <<>>, NEW c \in Conn, Concerns(Head(x.events), c)
  PROVE  \/ /\ c = x.conn /\ Accepting(x) /\ x.events = <<Head(x.events)>>
            /\ Greets(x, c) \/ Lacks(x, c) \/ Hands(x, c) \/ Cancelled(x, c) \/ Returned(x, c)
         \/ /\ c \in Range(x.conns) /\ c # x.conn /\ x.ep \in {"ACTIVE", "STOPPING_CONN"}
            /\ Accepting(x) /\ x.events = <<Head(x.events)>> /\ Head(x.events) \in ListenEvent
            /\ Mine(x.events, c) = {Head(x.events)}
            /\ Served(c, x.c[c], {Head(x.events)}, x.ep)
         \/ /\ c \in Range(x.conns) /\ x.ep = "STOPPING_CONNS" /\ Leaving(x)
            /\ Mine(x.events, c) = {Head(x.events)}
            /\ Ending(c, x.c[c], {Head(x.events)})
<1> DEFINE e == Head(x.events)
<1>1. /\ x.events \in Seq(ListenEvent) /\ Distinct(x.events) /\ e \in ListenEvent
      /\ e \in Range(x.events) /\ e \in Mine(x.events, c)
  BY ListensGood, TakeHead DEF Mine
<1>2. /\ ~Concerns(Ev("ep", "USOCK", "STOPPED"), c) /\ ~Concerns(Ev("sock", "EP", "STOPPED"), c)
      /\ Ev("ep", "USOCK", "STOPPED") \in ListenEvent
      /\ Ev("sock", "EP", "STOPPED") \in ListenEvent
  BY ConnEvents
<1>3. c = x.conn \/ c \in Range(x.conns)
  <2>1. PICK d \in Conn : (d = x.conn \/ d \in Range(x.conns)) /\ Concerns(e, d)
    BY <1>1, <1>2 DEF Listens, Bound2, Members
  <2>2. c = d
    BY <1>1, <2>1, OneConcern
  <2>3. QED
    BY <2>1, <2>2
<1>4. x.conn \notin Range(x.conns) /\ NULL \notin Conn
  BY ConnNames DEF Listens, Bound2, Members
<1>5. CASE Accepting(x)
  <2>1. Len(x.events) <= 1 /\ x.events = <<e>>
    <3>1. Len(x.events) <= 1
      BY <1>5 DEF Accepting
    <3>2. PICK f \in ListenEvent : x.events = <<f>>
      BY <1>1, <3>1, AtMostOne
    <3>3. QED
      BY <3>1, <3>2
  <2>2. Mine(x.events, c) = {e}
    <3> HIDE DEF e
    <3>1. Range(x.events) = {e}
      BY <2>1 DEF Range
    <3>2. QED
      BY <1>1, <3>1 DEF Mine
  <2>3. CASE c = x.conn
    <3>1. Waiting(x, c)
      BY <1>5, <2>3 DEF Accepting
    <3>2. ~Waits(x, c) /\ ~Cancels(x, c)
      BY <2>2 DEF Waits, Cancels
    <3>3. QED
      BY <1>5, <2>1, <2>3, <3>1, <3>2, WaitingEvents
  <2>4. CASE c \in Range(x.conns)
    <3>1. Served(c, x.c[c], {e}, x.ep)
      BY <1>5, <2>2, <2>4 DEF Accepting
    <3>2. x.ep \in {"ACTIVE", "STOPPING_CONN"}
      BY <1>5 DEF Accepting, Waiting, Waits, Greets, Lacks, Hands, Cancels, Cancelled, Returned
    <3>3. QED
      BY <1>1, <1>4, <1>5, <2>1, <2>2, <2>4, <3>1, <3>2
  <2>5. QED
    BY <1>3, <2>3, <2>4
<1>6. CASE x.conn = NULL /\ (Unbinding(x) \/ Leaving(x) \/ Gone(x))
  <2>1. c \in Range(x.conns)
    BY <1>3, <1>4, <1>6
  <2>2. ~Unbinding(x)
    BY <1>2, EventAlone DEF Unbinding
  <2>3. ~Gone(x)
    BY <2>1 DEF Gone, Range
  <2>4. Leaving(x) /\ Ending(c, x.c[c], Mine(x.events, c))
    BY <1>6, <2>1, <2>2, <2>3 DEF Leaving
  <2>5. Mine(x.events, c) = {e}
    BY <1>1, <2>4, ServedOne
  <2>6. QED
    BY <2>1, <2>4, <2>5 DEF Leaving
<1>7. QED
  BY <1>5, <1>6 DEF Listens, Bound2

-----------------------------------------------------------------------------
(* The steps of an accepted connection.                                      *)

\* Events differ when their fields do.
LEMMA EvFields ==
  ASSUME NEW a, NEW b, NEW t, NEW d, NEW f, NEW g
  PROVE  /\ Ev(a, b, t) = Ev(d, f, g) <=> a = d /\ b = f /\ t = g
         /\ Ev(a, b, t).to = a /\ Ev(a, b, t).src = b /\ Ev(a, b, t).type = t
BY DEF Ev

\* The waiting connection is in none of the states of an accepted one.
LEMMA WaitingStates ==
  ASSUME NEW x, NEW c \in Conn, Waiting(x, c)
  PROVE  /\ x.c[c].state \in {"ACCEPTING", "ACTIVE", "STOPPING", "IDLE"}
         /\ x.c[c].usock # "STOPPING" /\ x.c[c].session # "STOPPING"
         /\ x.c[c].state = "ACTIVE" \/ x.c[c].session = "HANDSHAKE" => Hands(x, c)
BY DEF Waiting, Waits, Greets, Lacks, Hands, Cancels, Cancelled, Returned, Rec

\* The event of an accepted connection is taken.
LEMMA RestServed ==
  ASSUME NEW c \in Conn, Listens(m), m.events # <<>>, Concerns(Head(m.events), c), c # m.conn
  PROVE  /\ c \in Range(m.conns) /\ Step(m, Rest, c, m.c[c], {})
         /\ \/ /\ m.ep \in {"ACTIVE", "STOPPING_CONN"} /\ Accepting(m)
               /\ m.events = <<Head(m.events)>> /\ Head(m.events) \in ListenEvent
               /\ Served(c, m.c[c], {Head(m.events)}, m.ep)
            \/ /\ m.ep = "STOPPING_CONNS" /\ Ending(c, m.c[c], {Head(m.events)})
<1>1. Step(m, Rest, c, m.c[c], Mine(m.events, c) \ {Head(m.events)})
  BY ListensGood, StepRest DEF Rest
<1>2. /\ c \in Range(m.conns) /\ Mine(m.events, c) = {Head(m.events)}
      /\ \/ /\ m.ep \in {"ACTIVE", "STOPPING_CONN"} /\ Accepting(m)
            /\ m.events = <<Head(m.events)>> /\ Head(m.events) \in ListenEvent
            /\ Served(c, m.c[c], {Head(m.events)}, m.ep)
         \/ /\ m.ep = "STOPPING_CONNS" /\ Ending(c, m.c[c], {Head(m.events)})
  BY WhoseEvent
<1>3. Mine(m.events, c) \ {Head(m.events)} = {}
  BY <1>2
<1>4. QED
  BY <1>1, <1>2, <1>3

\* And handled by it.
LEMMA HandledListens ==
  ASSUME NEW c \in Conn, Listens(m), m.events # <<>>, Concerns(Head(m.events), c), c # m.conn,
         NEW r, NEW A, Step(Rest, m', c, r, A),
         Served(c, m.c[c], {Head(m.events)}, m.ep) => Served(c, r, A, m.ep),
         Ending(c, m.c[c], {Head(m.events)}) => Ending(c, r, A)
  PROVE  Listens(m')
<1>1. /\ c \in Range(m.conns) /\ Step(m, Rest, c, m.c[c], {})
      /\ \/ /\ m.ep \in {"ACTIVE", "STOPPING_CONN"}
            /\ m.events = <<Head(m.events)>> /\ Head(m.events) \in ListenEvent
            /\ Served(c, m.c[c], {Head(m.events)}, m.ep)
         \/ /\ m.ep = "STOPPING_CONNS" /\ Ending(c, m.c[c], {Head(m.events)})
  BY RestServed
<1>2. Step(m, m', c, r, A)
  BY <1>1, StepTwice
<1>3. QED
  BY <1>1, <1>2, StepListens

\* ServiceFailed: the session is stopped.
LEMMA ServiceFailedListens ==
  ASSUME NEW c \in Conn, NEW result \in {"ERROR", "CLOSE_HANDSHAKE"}, Listens(m),
         ServiceFailed(c, result)
  PROVE  Listens(m')
<1> DEFINE e == Head(m.events)
           x == [Rest EXCEPT !.c[c].state = "STOPPING_SESSION"]
<1>1. /\ m.events # <<>> /\ e = Ev(c, "SESSION", result) /\ m.c[c].state = "ACTIVE"
      /\ m' = ServedStop(x, c)
  BY DEF ServiceFailed, On, Session
<1>2. Concerns(e, c)
  BY <1>1, EvFields DEF Concerns
<1>3. c # m.conn
  <2>1. c # "ep" /\ c # "SESSION"
    BY ConnNames
  <2>2. ~(Greets(m, c) \/ Lacks(m, c) \/ Hands(m, c) \/ Cancelled(m, c) \/ Returned(m, c))
    BY <1>1, <2>1, EvFields DEF Greets, Lacks, Hands, Cancelled, Returned
  <2>3. m.conn \notin Range(m.conns)
    BY DEF Listens, Bound2, Members
  <2>4. QED
    BY <1>1, <1>2, <2>2, <2>3, WhoseEvent
<1>4. ~Ending(c, m.c[c], {e})
  BY <1>1 DEF Ending, Hangs, Quits, Closes, Closed, Ended, Rec
<1>5. Served(c, m.c[c], {e}, m.ep) /\ Step(m, Rest, c, m.c[c], {})
  BY <1>1, <1>2, <1>3, <1>4, RestServed
<1>6. PICK u \in {"ACTIVE", "DONE"} : m.c[c] = Rec("ACTIVE", u, "DONE", NULL)
  <2>1. {e} # {}
    OBVIOUS
  <2> HIDE DEF e
  <2>2. ~Runs(c, m.c[c], {e})
    BY <2>1 DEF Runs
  <2>3. Broken(c, m.c[c], {e})
    BY <1>1, <1>5, <2>2 DEF Served, Quits, Closes, Closed, Fails, Forgotten, Ended, Rec
  <2>4. QED
    BY <2>3 DEF Broken
<1>7. Step(Rest, x, c, Rec("STOPPING_SESSION", u, "DONE", NULL), {})
  <2>1. Good(Rest) /\ Rest.c[c] = Rec("ACTIVE", u, "DONE", NULL) /\ Mine(Rest.events, c) = {}
    BY <1>5, <1>6, StepGood
  <2>2. Rec("STOPPING_SESSION", u, "DONE", NULL) \in ConnRecord
    BY RecTyped
  <2>3. Step(Rest, x, c, Rec("STOPPING_SESSION", u, "DONE", NULL), Mine(Rest.events, c))
    BY <2>1, <2>2, StepRec
  <2>4. QED
    BY <2>1, <2>3
<1> HIDE DEF e, x
<1>8. Step(x, m', c, Rec("STOPPING_SESSION", u, "IDLE", NULL), {Ev(c, "SESSION", "STOPPED")})
  <2>1. Good(x) /\ x.c[c] = Rec("STOPPING_SESSION", u, "DONE", NULL) /\ Mine(x.events, c) = {}
    BY <1>7, StepGood
  <2>2. Step(x, ServedStop(x, c), c, Rec("STOPPING_SESSION", u, "IDLE", NULL),
             Mine(x.events, c) \cup {Ev(c, "SESSION", "STOPPED")})
    BY <2>1, StepServedStop
  <2>3. QED
    BY <1>1, <2>1, <2>2
<1>9. Step(Rest, m', c, Rec("STOPPING_SESSION", u, "IDLE", NULL), {Ev(c, "SESSION", "STOPPED")})
  BY <1>7, <1>8, StepTwice
<1>10. Served(c, Rec("STOPPING_SESSION", u, "IDLE", NULL), {Ev(c, "SESSION", "STOPPED")}, m.ep)
  BY DEF Served, Quits
<1>11. QED
  BY <1>1, <1>2, <1>3, <1>4, <1>9, <1>10, HandledListens DEF e

\* ServiceStopped: the usock is stopped.
LEMMA ServiceStoppedListens ==
  ASSUME NEW c \in Conn, Listens(m), ServiceStopped(c)
  PROVE  Listens(m')
<1> DEFINE e == Head(m.events)
           x == [Rest EXCEPT !.c[c].state = "STOPPING_USOCK"]
<1>1. /\ m.events # <<>> /\ e = Ev(c, "SESSION", "STOPPED") /\ m.c[c].state = "STOPPING_SESSION"
      /\ m' = AcceptedStop(x, c)
  BY DEF ServiceStopped, On, Session
<1>2. Concerns(e, c)
  BY <1>1, EvFields DEF Concerns
<1>3. c # m.conn
  BY <1>1, WaitingStates, ConnNames DEF Listens, Bound2, Accepting
<1>4. ~Ending(c, m.c[c], {e})
  BY <1>1 DEF Ending, Hangs, Quits, Closes, Closed, Ended, Rec
<1>5. Served(c, m.c[c], {e}, m.ep) /\ Step(m, Rest, c, m.c[c], {})
  BY <1>1, <1>2, <1>3, <1>4, RestServed
<1>6. PICK u \in {"ACTIVE", "DONE"} : m.c[c] = Rec("STOPPING_SESSION", u, "IDLE", NULL)
  BY <1>1, <1>5 DEF Served, Runs, Broken, Quits, Closes, Closed, Fails, Forgotten, Ended, Rec
<1>7. Step(Rest, x, c, Rec("STOPPING_USOCK", u, "IDLE", NULL), {})
  <2>1. Good(Rest) /\ Rest.c[c] = Rec("STOPPING_SESSION", u, "IDLE", NULL)
        /\ Mine(Rest.events, c) = {}
    BY <1>5, <1>6, StepGood
  <2>2. Rec("STOPPING_USOCK", u, "IDLE", NULL) \in ConnRecord
    BY RecTyped
  <2>3. Step(Rest, x, c, Rec("STOPPING_USOCK", u, "IDLE", NULL), Mine(Rest.events, c))
    BY <2>1, <2>2, StepRec
  <2>4. QED
    BY <2>1, <2>3
<1> HIDE DEF e, x
<1>8. Good(x) /\ x.c[c] = Rec("STOPPING_USOCK", u, "IDLE", NULL) /\ Mine(x.events, c) = {}
  BY <1>7, StepGood
<1>9. CASE u = "DONE"
  <2>1. Step(x, m', c, Rec("STOPPING_USOCK", "IDLE", "IDLE", NULL), {Ev(c, "ACCEPTED", "STOPPED")})
    BY <1>1, <1>8, <1>9, StepAcceptedStop
  <2>2. Step(Rest, m', c, Rec("STOPPING_USOCK", "IDLE", "IDLE", NULL), {Ev(c, "ACCEPTED", "STOPPED")})
    BY <1>7, <2>1, StepTwice
  <2>3. Served(c, Rec("STOPPING_USOCK", "IDLE", "IDLE", NULL), {Ev(c, "ACCEPTED", "STOPPED")}, m.ep)
    BY DEF Served, Closed
  <2>4. QED
    BY <1>1, <1>2, <1>3, <1>4, <2>2, <2>3, HandledListens DEF e
<1>10. CASE u = "ACTIVE"
  <2>1. Step(x, m', c, Rec("STOPPING_USOCK", "STOPPING", "IDLE", NULL), {Ev(c, "ACCEPTED", "SHUTDOWN")})
    BY <1>1, <1>8, <1>10, StepAcceptedStop
  <2>2. Step(Rest, m', c, Rec("STOPPING_USOCK", "STOPPING", "IDLE", NULL),
             {Ev(c, "ACCEPTED", "SHUTDOWN")})
    BY <1>7, <2>1, StepTwice
  <2>3. Served(c, Rec("STOPPING_USOCK", "STOPPING", "IDLE", NULL), {Ev(c, "ACCEPTED", "SHUTDOWN")}, m.ep)
    BY DEF Served, Closes
  <2>4. QED
    BY <1>1, <1>2, <1>3, <1>4, <2>2, <2>3, HandledListens DEF e
<1>11. QED
  BY <1>9, <1>10

\* AcceptedStopped: the endpoint is told that the connection has failed.
LEMMA AcceptedStoppedListens ==
  ASSUME NEW c \in Conn, Listens(m), AcceptedStopped(c)
  PROVE  Listens(m')
<1> DEFINE e == Head(m.events)
<1>1. /\ m.events # <<>> /\ m.c[c].state = "STOPPING_USOCK"
      /\ \/ e = Ev(c, "ACCEPTED", "SHUTDOWN") /\ m' = Rest
         \/ /\ e = Ev(c, "ACCEPTED", "STOPPED")
            /\ m' = Raise([Rest EXCEPT !.c[c].state = "DONE"], Ev("ep", c, "ERROR"))
  BY DEF AcceptedStopped, On
<1>2. Concerns(e, c)
  BY <1>1, EvFields DEF Concerns
<1>3. c # m.conn
  BY <1>1, WaitingStates, ConnNames DEF Listens, Bound2, Accepting
<1>4. ~Ending(c, m.c[c], {e})
  BY <1>1 DEF Ending, Hangs, Quits, Closes, Closed, Ended, Rec
<1>5. Served(c, m.c[c], {e}, m.ep) /\ Step(m, Rest, c, m.c[c], {})
  BY <1>1, <1>2, <1>3, <1>4, RestServed
<1>6. CASE e = Ev(c, "ACCEPTED", "SHUTDOWN") /\ m' = Rest
  <2>1. m.c[c] = Rec("STOPPING_USOCK", "STOPPING", "IDLE", NULL)
    <3>1. "SHUTDOWN" # "STOPPED" /\ {e} # {}
      OBVIOUS
    <3>2. e # Ev(c, "ACCEPTED", "STOPPED")
      BY <1>6, <3>1, EvFields
    <3> HIDE DEF e
    <3>3. QED
      BY <1>1, <1>5, <3>2 DEF Served, Runs, Broken, Quits, Closes, Closed, Fails, Forgotten,
         Ended, Rec
  <2>2. Step(Rest, Rest, c, Rec("STOPPING_USOCK", "STOPPING", "IDLE", NULL), {})
    BY <1>5, <2>1, StepGood, StepNone
  <2>3. Served(c, Rec("STOPPING_USOCK", "STOPPING", "IDLE", NULL), {}, m.ep)
    BY DEF Served, Closes
  <2>4. QED
    BY <1>1, <1>2, <1>3, <1>4, <1>6, <2>2, <2>3, HandledListens
<1>7. CASE /\ e = Ev(c, "ACCEPTED", "STOPPED")
           /\ m' = Raise([Rest EXCEPT !.c[c].state = "DONE"], Ev("ep", c, "ERROR"))
  <2> DEFINE x == [Rest EXCEPT !.c[c].state = "DONE"]
             r == Rec("DONE", "IDLE", "IDLE", NULL)
             f == Ev("ep", c, "ERROR")
  <2>1. m.c[c] = Rec("STOPPING_USOCK", "IDLE", "IDLE", NULL)
    <3>1. "SHUTDOWN" # "STOPPED" /\ {e} # {}
      OBVIOUS
    <3>2. e # Ev(c, "ACCEPTED", "SHUTDOWN")
      BY <1>7, <3>1, EvFields
    <3> HIDE DEF e
    <3>3. QED
      BY <1>1, <1>5, <3>1, <3>2 DEF Served, Runs, Broken, Quits, Closes, Closed, Fails,
         Forgotten, Ended, Rec
  <2>2. Good(Rest) /\ Rest.c[c] = Rec("STOPPING_USOCK", "IDLE", "IDLE", NULL)
        /\ Mine(Rest.events, c) = {}
    BY <1>5, <2>1, StepGood
  <2>3. r \in ConnRecord /\ f \in ListenEvent /\ Concerns(f, c)
    BY RecTyped, ConnEvents
  <2>4. Step(Rest, x, c, r, Mine(Rest.events, c))
    BY <2>2, <2>3, StepRec
  <2>5. Served(c, r, {f}, m.ep)
    BY DEF Served, Fails
  <2> HIDE DEF x, r, f
  <2>6. Good(x) /\ x.c[c] = r /\ Mine(x.events, c) = {}
    BY <2>2, <2>4, StepGood
  <2>7. Step(x, Raise(x, f), c, r, {} \cup {f})
    BY <2>3, <2>6, StepRaise
  <2>8. Step(Rest, m', c, r, {f})
    <3>1. {} \cup {f} = {f} /\ m' = Raise(x, f)
      BY <1>7 DEF x, f
    <3>2. QED
      BY <2>4, <2>7, <3>1, StepTwice
  <2>9. QED
    BY <1>1, <1>2, <1>3, <1>4, <2>5, <2>8, HandledListens
<1>8. QED
  BY <1>1, <1>6, <1>7

\* Between two events an accepted connection has none.
LEMMA OutsideServed ==
  ASSUME NEW c \in Conn, Listens(m), Outside, c # m.conn, m.c[c] # NoConn
  PROVE  /\ c \in Range(m.conns) /\ Mine(m.events, c) = {} /\ m.events = <<>>
         /\ \/ m.ep \in {"ACTIVE", "STOPPING_CONN"} /\ Served(c, m.c[c], {}, m.ep)
            \/ m.ep = "STOPPING_CONNS" /\ Ending(c, m.c[c], {})
<1>1. m.events = <<>>
  BY DEF Outside
<1>2. Mine(m.events, c) = {}
  BY <1>1, EventNone
<1>3. c \in Range(m.conns)
  BY DEF Listens, Bound2, Members
<1>4. CASE Accepting(m)
  <2>1. m.ep \in {"ACTIVE", "STOPPING_CONN"}
    BY <1>4 DEF Accepting, Waiting, Waits, Greets, Lacks, Hands, Cancels, Cancelled, Returned
  <2>2. QED
    BY <1>1, <1>2, <1>3, <1>4, <2>1 DEF Accepting
<1>5. CASE Unbinding(m) \/ Leaving(m) \/ Gone(m)
  <2>1. ~Unbinding(m) /\ ~Gone(m)
    BY <1>1, <1>3 DEF Unbinding, Gone, Range
  <2>2. QED
    BY <1>1, <1>2, <1>3, <1>5, <2>1 DEF Leaving
<1>6. QED
  BY <1>4, <1>5 DEF Listens, Bound2

\* A step of an accepted connection between two events.
LEMMA OutsideListens ==
  ASSUME NEW c \in Conn, Listens(m), Outside, c # m.conn, m.c[c] # NoConn,
         NEW r, NEW A, Step(m, m', c, r, A),
         Served(c, m.c[c], {}, m.ep) => Served(c, r, A, m.ep),
         Ending(c, m.c[c], {}) => Ending(c, r, A)
  PROVE  Listens(m')
<1>1. /\ c \in Range(m.conns) /\ Mine(m.events, c) = {} /\ m.events = <<>>
      /\ \/ m.ep \in {"ACTIVE", "STOPPING_CONN"} /\ Served(c, m.c[c], {}, m.ep)
         \/ m.ep = "STOPPING_CONNS" /\ Ending(c, m.c[c], {})
  BY OutsideServed
<1>2. QED
  BY <1>1, StepListens

\* The waiting connection between two events.
LEMMA OutsideWaits ==
  ASSUME NEW c \in Conn, Listens(m), Outside, c = m.conn
  PROVE  Accepting(m) /\ (Waits(m, c) \/ Cancels(m, c))
<1>1. m.events = <<>> /\ NULL \notin Conn
  BY ConnNames DEF Outside
<1>2. Accepting(m) /\ Waiting(m, c)
  BY <1>1 DEF Listens, Bound2, Accepting
<1>3. QED
  BY <1>1, <1>2 DEF Waiting, Greets, Lacks, Hands, Cancelled, Returned

\* A session runs, and nothing but it.
LEMMA RunningServed ==
  ASSUME NEW c \in Conn, Listens(m), Outside, m.c[c].session \in {"HANDSHAKE", "ACTIVE"}
  PROVE  /\ c # m.conn /\ m.c[c] # NoConn /\ Runs(c, m.c[c], {}) /\ Mine(m.events, c) = {}
         /\ ~Ending(c, m.c[c], {})
         /\ \E n \in {"HANDSHAKE", "ACTIVE"} : m.c[c] = Rec("ACTIVE", "ACTIVE", n, NULL)
<1>1. c # m.conn
  BY OutsideWaits DEF Waits, Cancels, Rec
<1>2. m.c[c] # NoConn
  BY DEF NoConn
<1>3. ~Ending(c, m.c[c], {})
  BY DEF Ending, Hangs, Quits, Closes, Closed, Ended, Rec
<1>4. Served(c, m.c[c], {}, m.ep) /\ Mine(m.events, c) = {}
  BY <1>1, <1>2, <1>3, OutsideServed
<1>5. Runs(c, m.c[c], {})
  BY <1>4 DEF Served, Runs, Broken, Quits, Closes, Closed, Fails, Forgotten, Ended, Rec
<1>6. QED
  BY <1>1, <1>2, <1>3, <1>4, <1>5 DEF Runs

\* HandshakeDone: the session goes on.
LEMMA HandshakeDoneListens ==
  ASSUME NEW c \in Conn, Listens(m), HandshakeDone(c)
  PROVE  Listens(m')
<1> DEFINE r == Rec("ACTIVE", "ACTIVE", "ACTIVE", NULL)
<1>1. Outside /\ m.c[c].session = "HANDSHAKE" /\ m' = [m EXCEPT !.c[c].session = "ACTIVE"]
  BY DEF HandshakeDone
<1>2. /\ c # m.conn /\ m.c[c] # NoConn /\ Mine(m.events, c) = {}
      /\ ~Ending(c, m.c[c], {})
  BY <1>1, RunningServed
<1>3. PICK n : m.c[c] = Rec("ACTIVE", "ACTIVE", n, NULL)
  BY <1>1, RunningServed
<1>4. r \in ConnRecord
  BY RecTyped
<1>5. Step(m, m', c, r, Mine(m.events, c))
  BY <1>1, <1>3, <1>4, ListensGood, StepRec
<1>6. Served(c, r, {}, m.ep)
  BY DEF Served, Runs
<1> HIDE DEF r
<1>7. Step(m, m', c, r, {})
  BY <1>2, <1>5
<1>8. QED
  BY <1>1, <1>2, <1>6, <1>7, OutsideListens

\* ServiceEnds: it fails.
LEMMA ServiceEndsListens ==
  ASSUME NEW c \in Conn, Listens(m), ServiceEnds(c)
  PROVE  Listens(m')
<1>1. PICK t \in {"ERROR", "CLOSE_HANDSHAKE"}, u \in {"ACTIVE", "DONE"} :
         m' = Raise([m EXCEPT !.c[c].session = "DONE", !.c[c].usock = u], Ev(c, "SESSION", t))
  BY DEF ServiceEnds, Session
<1>2. Outside /\ m.c[c].session \in {"HANDSHAKE", "ACTIVE"}
  BY DEF ServiceEnds
<1>3. /\ c # m.conn /\ m.c[c] # NoConn /\ Mine(m.events, c) = {}
      /\ ~Ending(c, m.c[c], {})
  BY <1>2, RunningServed
<1>4. PICK n : m.c[c] = Rec("ACTIVE", "ACTIVE", n, NULL)
  BY <1>2, RunningServed
<1> DEFINE x == [m EXCEPT !.c[c].session = "DONE"]
           y == [x EXCEPT !.c[c].usock = u]
           r == Rec("ACTIVE", u, "DONE", NULL)
           e == Ev(c, "SESSION", t)
<1>5. Rec("ACTIVE", "ACTIVE", "DONE", NULL) \in ConnRecord /\ r \in ConnRecord
      /\ e \in ListenEvent /\ Concerns(e, c)
  BY RecTyped, ConnEvents
<1>6. Step(m, x, c, Rec("ACTIVE", "ACTIVE", "DONE", NULL), {})
  <2>1. Step(m, x, c, Rec("ACTIVE", "ACTIVE", "DONE", NULL), Mine(m.events, c))
    BY <1>4, <1>5, ListensGood, StepRec
  <2>2. QED
    BY <1>3, <2>1
<1>7. m' = Raise(y, e)
  <2>1. y = [m EXCEPT !.c[c].session = "DONE", !.c[c].usock = u]
    OBVIOUS
  <2>2. QED
    BY <1>1, <2>1
<1>8. Served(c, r, {e}, m.ep)
  BY DEF Served, Broken
<1> HIDE DEF x
<1>9. Step(x, y, c, r, {})
  <2>1. Good(x) /\ x.c[c] = Rec("ACTIVE", "ACTIVE", "DONE", NULL) /\ Mine(x.events, c) = {}
    BY <1>6, StepGood
  <2>2. u # "STOPPING" /\ "ACTIVE" # "STOPPING"
    OBVIOUS
  <2>3. Step(x, y, c, r, Mine(x.events, c))
    BY <1>5, <2>1, <2>2, StepRec
  <2>4. QED
    BY <2>1, <2>3
<1> HIDE DEF y, r, e
<1>10. Step(y, m', c, r, {e})
  <2>1. Good(y) /\ y.c[c] = r /\ Mine(y.events, c) = {}
    BY <1>9, StepGood
  <2>2. Step(y, Raise(y, e), c, r, {} \cup {e})
    BY <1>5, <2>1, StepRaise
  <2>3. {} \cup {e} = {e}
    OBVIOUS
  <2>4. QED
    BY <1>7, <2>2, <2>3
<1>11. Step(m, m', c, r, {e})
  BY <1>6, <1>9, <1>10, StepTwice
<1>12. QED
  BY <1>2, <1>3, <1>8, <1>11, OutsideListens

\* ServiceStops: a session that was stopped during its handshake has stopped.
LEMMA ServiceStopsListens ==
  ASSUME NEW c \in Conn, Listens(m), ServiceStops(c)
  PROVE  Listens(m')
<1> DEFINE x == [m EXCEPT !.c[c].session = "IDLE"]
           r == Rec("STOPPING_SESSION_FINAL", "ACTIVE", "IDLE", NULL)
           e == Ev(c, "SESSION", "STOPPED")
<1>1. Outside /\ m.c[c].session = "STOPPING" /\ m' = Raise(x, e)
  BY DEF ServiceStops, Session
<1>2. c # m.conn
  BY <1>1, OutsideWaits DEF Waits, Cancels, Rec
<1>3. m.c[c] # NoConn
  BY <1>1 DEF NoConn
<1>4. ~Served(c, m.c[c], {}, m.ep)
  BY <1>1 DEF Served, Runs, Broken, Quits, Closes, Closed, Fails, Forgotten, Ended, Rec
<1>5. Ending(c, m.c[c], {}) /\ Mine(m.events, c) = {}
  BY <1>1, <1>2, <1>3, <1>4, OutsideServed
<1>6. m.c[c] = Rec("STOPPING_SESSION_FINAL", "ACTIVE", "STOPPING", NULL)
  BY <1>1, <1>5 DEF Ending, Hangs, Quits, Closes, Closed, Ended, Rec
<1>7. r \in ConnRecord /\ e \in ListenEvent /\ Concerns(e, c)
  BY RecTyped, ConnEvents
<1>8. Step(m, x, c, r, Mine(m.events, c))
  BY <1>6, <1>7, ListensGood, StepRec
<1>9. Ending(c, r, {e})
  BY DEF Ending, Quits
<1> HIDE DEF x, r, e
<1>10. Good(x) /\ x.c[c] = r /\ Mine(x.events, c) = {}
  BY <1>5, <1>8, StepGood
<1>11. Step(x, Raise(x, e), c, r, {} \cup {e})
  BY <1>7, <1>10, StepRaise
<1>12. Step(m, m', c, r, {e})
  <2>1. {} \cup {e} = {e}
    OBVIOUS
  <2>2. QED
    BY <1>1, <1>8, <1>11, <2>1, StepTwice
<1>13. QED
  BY <1>1, <1>2, <1>3, <1>4, <1>9, <1>12, OutsideListens

\* ConnFailed: the endpoint stops the connection, which stops at once.
LEMMA ConnFailedListens ==
  ASSUME NEW c \in Conn, Listens(m), ConnFailed(c)
  PROVE  Listens(m')
<1> DEFINE e == Head(m.events)
<1>1. /\ m.events # <<>> /\ e = Ev("ep", c, "ERROR") /\ m.ep = "ACTIVE" /\ m' = ConnStop(Rest, c)
  BY DEF ConnFailed, On
<1>2. Concerns(e, c)
  BY <1>1, EvFields DEF Concerns
<1>3. c # m.conn
  <2>1. c # "ep"
    BY ConnNames
  <2>2. ~(Greets(m, c) \/ Lacks(m, c) \/ Hands(m, c) \/ Cancelled(m, c) \/ Returned(m, c))
    BY <1>1, <2>1, EvFields DEF Greets, Lacks, Hands, Cancelled, Returned
  <2>3. m.conn \notin Range(m.conns)
    BY DEF Listens, Bound2, Members
  <2>4. QED
    BY <1>1, <1>2, <2>2, <2>3, WhoseEvent
<1>4. Served(c, m.c[c], {e}, m.ep) /\ Step(m, Rest, c, m.c[c], {})
  BY <1>1, <1>2, <1>3, RestServed
<1>5. m.c[c] = Rec("DONE", "IDLE", "IDLE", NULL)
  <2>1. c # "ep" /\ {e} # {}
    BY ConnNames
  <2>2. \A t : e # Ev(c, "SESSION", t) /\ e # Ev(c, "ACCEPTED", t)
    BY <1>1, <2>1, EvFields
  <2>3. e # Ev("ep", c, "STOPPED")
    BY <1>1, EvFields
  <2> HIDE DEF e
  <2>4. QED
    BY <1>4, <2>1, <2>2, <2>3
    DEF Served, Runs, Broken, Quits, Closes, Closed, Fails, Forgotten, Ended
<1>6. ~Ending(c, m.c[c], {e})
  BY <1>5 DEF Ending, Hangs, Quits, Closes, Closed, Ended, Rec
<1>7. PICK r, A : Step(Rest, m', c, r, A) /\ Ended(c, r, A)
  <2>1. Good(Rest) /\ Rest.c[c] = Rec("DONE", "IDLE", "IDLE", NULL) /\ Mine(Rest.events, c) = {}
    BY <1>4, <1>5, StepGood
  <2>2. Rest.c[c].state = "DONE"
    BY <2>1, RecFields
  <2>3. QED
    BY <1>1, <2>1, <2>2, StepStop
<1>8. Served(c, r, A, m.ep)
  BY <1>1, <1>7 DEF Served
<1>9. QED
  BY <1>1, <1>2, <1>3, <1>6, <1>7, <1>8, HandledListens

-----------------------------------------------------------------------------
(* The steps of the connection that waits for a peer.                        *)

\* A record with the fields of a bound endpoint.
Formed(y) == y = [f \in ListenFields |-> y[f]]

\* The waiting connection gets another record.
Waiter(x, y, r) ==
    /\ Formed(y) /\ y.failed = x.failed /\ y.kind = x.kind /\ y.file = x.file /\ y.conn = x.conn
    /\ y.conns = x.conns
    /\ y.c = [x.c EXCEPT ![x.conn] = r]

\* A step of the waiting connection alone keeps the endpoint listening.
LEMMA WaitingListens ==
  ASSUME NEW x, NEW y, Listens(x), Accepting(x), NEW r \in ConnRecord,
         Waiter(x, y, r),
         y.ep = x.ep \/ (x.events = <<>> /\ x.ep = "ACTIVE" /\ y.ep = "STOPPING_CONN"),
         y.tasks \in Seq(ListenerTasks), TasksOK(y.tasks, y.usock, y.poll, Closing(x)),
         Only(x.events, y.events, x.conn), Len(y.events) <= 1, Waiting(y, x.conn)
  PROVE  Listens(y)
<1>1. /\ x.conn \in Conn /\ Waiting(x, x.conn) /\ Len(x.events) <= 1
      /\ \A c \in Range(x.conns) : Served(c, x.c[c], Mine(x.events, c), x.ep)
  BY DEF Accepting
<1>2. /\ ListenTyped(x) /\ Members(x) /\ ~x.failed /\ x.events \in Seq(ListenEvent)
      /\ Range(x.conns) \subseteq Conn
  BY ListensGood DEF Listens, Bound2, ListenTyped
<1>3. /\ y.events \in Seq(ListenEvent) /\ Distinct(y.events)
      /\ \A d \in Conn \ {x.conn} : Mine(y.events, d) = Mine(x.events, d)
      /\ \A e \in Range(y.events) : e \in Range(x.events) \/ Concerns(e, x.conn)
  BY DEF Only
<1>4. /\ y.c[x.conn] = r /\ \A d \in Conn \ {x.conn} : y.c[d] = x.c[d]
      /\ y.failed = x.failed /\ y.kind = x.kind /\ y.file = x.file /\ y.conn = x.conn
      /\ y.conns = x.conns
  BY <1>1, <1>2 DEF ListenTyped, Waiter
<1>5. ListenTyped(y)
  BY <1>1, <1>2, <1>3 DEF ListenTyped, Formed, Waiter
<1>6. Closing(y) = Closing(x)
  <2>1. x.c[x.conn].usock # "STOPPING" /\ y.c[x.conn].usock # "STOPPING"
    BY <1>1, WaitingStates
  <2>2. QED
    BY <1>4, <2>1 DEF Closing
<1>7. Members(y)
  <2>1. \A d \in Conn : d = y.conn \/ d \in Range(y.conns) \/ y.c[d] = NoConn
    BY <1>2, <1>4 DEF Members
  <2>2. ASSUME NEW e \in Range(y.events)
        PROVE  \E d \in Conn : (d = y.conn \/ d \in Range(y.conns)) /\ Concerns(e, d)
    <3>1. CASE Concerns(e, x.conn)
      BY <1>1, <1>4, <3>1
    <3>2. CASE e \in Range(x.events)
      <4>1. x.ep \notin {"STOPPING_USOCK", "IDLE"}
        BY <1>1 DEF Waiting, Waits, Greets, Lacks, Hands, Cancels, Cancelled, Returned
      <4>2. QED
        BY <1>2, <1>4, <3>2, <4>1 DEF Members
    <3>3. QED
      BY <1>3, <3>1, <3>2
  <2>3. Distinct(y.conns) /\ y.conn \notin Range(y.conns)
    BY <1>2, <1>4 DEF Members
  <2>4. QED
    BY <1>3, <2>1, <2>2, <2>3 DEF Members
<1>8. ASSUME NEW c \in Range(y.conns)
      PROVE  Served(c, y.c[c], Mine(y.events, c), y.ep)
  <2>1. c \in Conn \ {x.conn}
    BY <1>2, <1>4, <1>8 DEF Members
  <2>2. y.c[c] = x.c[c] /\ Mine(y.events, c) = Mine(x.events, c)
    BY <1>3, <1>4, <2>1
  <2>3. Served(c, x.c[c], Mine(x.events, c), x.ep)
    BY <1>1, <1>4, <1>8
  <2>4. CASE y.ep = x.ep
    BY <2>2, <2>3, <2>4
  <2>5. CASE x.events = <<>> /\ x.ep = "ACTIVE" /\ y.ep = "STOPPING_CONN"
    <3>1. Mine(x.events, c) = {}
      BY <2>5, EventNone
    <3>2. ~Ended(c, x.c[c], Mine(x.events, c))
      BY <3>1 DEF Ended
    <3>3. QED
      BY <2>2, <2>3, <3>2 DEF Served
  <2>6. QED
    BY <2>4, <2>5
<1>9. Accepting(y)
  BY <1>1, <1>4, <1>8 DEF Accepting
<1>10. QED
  BY <1>2, <1>4, <1>5, <1>6, <1>7, <1>9 DEF Listens, Bound2

\* Its event is the only one.
LEMMA WaitingAlone ==
  ASSUME NEW c \in Conn, Listens(m), m.events # <<>>, Concerns(Head(m.events), c),
         c \notin Range(m.conns)
  PROVE  /\ c = m.conn /\ Accepting(m) /\ m.events = <<Head(m.events)>>
         /\ Greets(m, c) \/ Lacks(m, c) \/ Hands(m, c) \/ Cancelled(m, c) \/ Returned(m, c)
BY WhoseEvent

\* Its event is replaced, taken or comes.
LEMMA EventReplaced ==
  ASSUME NEW c \in Conn, NEW e \in ListenEvent, NEW f \in ListenEvent, Concerns(e, c), Concerns(f, c)
  PROVE  /\ Only(<<e>>, <<f>>, c) /\ Only(<<e>>, <<>>, c) /\ Only(<<>>, <<f>>, c)
         /\ Only(<<>>, <<>>, c)
<1>1. /\ \A d \in Conn \ {c} : ~Concerns(e, d) /\ ~Concerns(f, d)
  BY OneConcern
<1>2. /\ <<f>> \in Seq(ListenEvent) /\ Distinct(<<f>>) /\ Range(<<f>>) = {f}
      /\ \A d : Mine(<<f>>, d) = {g \in {f} : Concerns(g, d)}
      /\ \A d : Mine(<<e>>, d) = {g \in {e} : Concerns(g, d)}
      /\ <<>> \in Seq(ListenEvent) /\ Distinct(<<>>) /\ Range(<<>>) = {}
      /\ \A d : Mine(<<>>, d) = {}
  BY EventAlone, EventNone
<1>3. \A d \in Conn \ {c} : Mine(<<f>>, d) = {} /\ Mine(<<e>>, d) = {} /\ Mine(<<>>, d) = {}
  BY <1>1, <1>2
<1>4. QED
  BY <1>2, <1>3 DEF Only

\* The connection, its session or its usock has another state.
LEMMA ChangeRec ==
  ASSUME NEW x, ListenTyped(x), NEW c \in Conn, NEW s, NEW u, NEW n, NEW v, NEW w,
         x.c[c] = Rec(s, u, n, v)
  PROVE  /\ Changed(x, [x EXCEPT !.c[c].state = w], c, Rec(w, u, n, v), x.events, x.tasks)
         /\ Changed(x, [x EXCEPT !.c[c].session = w], c, Rec(s, u, w, v), x.events, x.tasks)
         /\ Changed(x, [x EXCEPT !.c[c].usock = w], c, Rec(s, w, n, v), x.events, x.tasks)
<1> DEFINE a == [x EXCEPT !.c[c].state = w]
           b == [x EXCEPT !.c[c].session = w]
           d == [x EXCEPT !.c[c].usock = w]
           p == [x.c[c] EXCEPT !.state = w]
           q == [x.c[c] EXCEPT !.session = w]
           t == [x.c[c] EXCEPT !.usock = w]
<1>1. p = Rec(w, u, n, v) /\ q = Rec(s, u, w, v) /\ t = Rec(s, w, n, v)
  BY DEF Rec
<1>2. /\ Changed(x, a, c, p, x.events, x.tasks) /\ Changed(x, b, c, q, x.events, x.tasks)
      /\ Changed(x, d, c, t, x.events, x.tasks)
  BY ChangeState
<1> HIDE DEF a, b, d, p, q, t
<1>3. /\ Changed(x, a, c, Rec(w, u, n, v), x.events, x.tasks)
      /\ Changed(x, b, c, Rec(s, u, w, v), x.events, x.tasks)
      /\ Changed(x, d, c, Rec(s, w, n, v), x.events, x.tasks)
  BY <1>1, <1>2
<1>4. QED
  BY <1>3 DEF a, b, d

\* The same, and what follows for the endpoint.
LEMMA ChangeTyped ==
  ASSUME NEW x, NEW y, ListenTyped(x), NEW c \in Conn, NEW r \in ConnRecord,
         Changed(x, y, c, r, x.events, x.tasks)
  PROVE  ListenTyped(y) /\ y.c[c] = r /\ y.events = x.events /\ y.tasks = x.tasks
<1>1. ListenTyped(y) /\ At(y, c, r, x.events, x.tasks)
  BY ChangedTyped DEF ListenTyped
<1>2. QED
  BY <1>1 DEF At

\* PeerAccepted: the listening usock goes back, the session starts.
LEMMA PeerAcceptedListens ==
  ASSUME NEW c \in Conn, Listens(m), PeerAccepted(c)
  PROVE  Listens(m')
<1> DEFINE e == Head(m.events)
           f == Ev("ep", c, "ACCEPTED")
           r == Rec("ACTIVE", "ACTIVE", "HANDSHAKE", NULL)
           x == [ReturnListener(Rest, c) EXCEPT !.c[c].usock = "ACTIVE", !.c[c].session = "HANDSHAKE",
                                                !.c[c].state = "ACTIVE"]
<1>1. /\ m.events # <<>> /\ e = Ev(c, "ACCEPTED", "ACCEPTED") /\ m.c[c].state = "ACCEPTING"
      /\ m' = Raise(x, f)
  BY DEF PeerAccepted, On
<1>2. Concerns(e, c) /\ e \in ListenEvent /\ f \in ListenEvent /\ Concerns(f, c)
      /\ f = Ev("ep", c, "ACCEPTED")
  BY <1>1, ConnEvents, EvFields
<1>3. c \notin Range(m.conns)
  <2>1. ~Served(c, m.c[c], {e}, m.ep) /\ ~Ending(c, m.c[c], {e})
    BY <1>1 DEF Served, Ending, Runs, Broken, Quits, Closes, Closed, Fails, Forgotten, Ended,
       Hangs, Rec
  <2>2. m.conn \notin Range(m.conns)
    BY DEF Listens, Bound2, Members
  <2>3. QED
    BY <1>1, <1>2, <2>1, <2>2, WhoseEvent
<1>4. /\ c = m.conn /\ Accepting(m) /\ m.events = <<e>>
      /\ Greets(m, c) \/ Lacks(m, c) \/ Hands(m, c) \/ Cancelled(m, c) \/ Returned(m, c)
  BY <1>1, <1>2, <1>3, WaitingAlone
<1>5. Greets(m, c)
  <2>1. c # "ep" /\ "ACCEPTED" # "LISTENER" /\ "ACCEPTED" # "STOPPED"
    BY ConnNames
  <2>2. e # Ev(c, "LISTENER", "ACCEPT_ERROR") /\ e # Ev("ep", c, "ACCEPTED")
        /\ e # Ev(c, "ACCEPTED", "STOPPED") /\ e # Ev("ep", c, "STOPPED")
    BY <1>1, <2>1, EvFields
  <2>3. QED
    BY <1>4, <2>2 DEF Lacks, Hands, Cancelled, Returned
<1>6. /\ m.ep = "ACTIVE" /\ m.c[c] = Rec("ACCEPTING", "ACCEPTED", "IDLE", "ep")
      /\ m.usock = "LISTENING" /\ Free(m) # {} /\ ListenTyped(m)
  BY <1>5 DEF Greets, Listens
<1> HIDE DEF e, f
<1>7. /\ Rest = [m EXCEPT !.events = <<>>] /\ Rest.c[c].saved = "ep" /\ "ep" # NULL
      /\ Rest.c = m.c
  <2>1. Tail(m.events) = <<>>
    BY <1>2, <1>4, EventAlone
  <2>2. Rest = [m EXCEPT !.events = <<>>] /\ Rest.c = m.c
    BY <1>6, <2>1 DEF Rest, ListenTyped, ListenFields
  <2>3. QED
    BY <1>6, <2>2, ConnNames DEF Rec
<1> DEFINE x1 == ReturnListener(Rest, c)
           x2 == [x1 EXCEPT !.c[c].usock = "ACTIVE"]
           x3 == [x2 EXCEPT !.c[c].session = "HANDSHAKE"]
           r1 == Rec("ACCEPTING", "ACCEPTED", "IDLE", NULL)
           r2 == Rec("ACCEPTING", "ACTIVE", "IDLE", NULL)
           r3 == Rec("ACCEPTING", "ACTIVE", "HANDSHAKE", NULL)
<1>8. /\ x1 = [m EXCEPT !.events = <<>>, !.owner = "ep", !.c = [m.c EXCEPT ![c] = r1]]
      /\ r1 \in ConnRecord /\ r2 \in ConnRecord /\ r3 \in ConnRecord /\ r \in ConnRecord
  <2>1. ReturnListener(Rest, c) = [Rest EXCEPT !.owner = "ep", !.c[c].saved = NULL]
    BY <1>7 DEF ReturnListener
  <2> DEFINE p == [m.c[c] EXCEPT !.saved = NULL]
  <2>2. p = r1
    <3>1. p = Rec("ACCEPTING", "ACCEPTED", "IDLE", NULL)
      BY <1>6 DEF Rec
    <3>2. QED
      BY <3>1
  <2>3. x1 = [Rest EXCEPT !.owner = "ep", !.c = [m.c EXCEPT ![c] = p]]
    BY <1>6, <1>7, <2>1 DEF ListenTyped, ListenFields
  <2>4. r1 \in ConnRecord /\ r2 \in ConnRecord /\ r3 \in ConnRecord /\ r \in ConnRecord
    BY RecTyped
  <2> HIDE DEF p, x1, r1
  <2>5. QED
    BY <1>6, <1>7, <2>2, <2>3, <2>4 DEF ListenTyped, ListenFields
<1>10. r2 \in ConnRecord /\ r3 \in ConnRecord /\ r \in ConnRecord
  BY <1>8
<1>9. /\ Formed(x1) /\ ListenTyped(x1) /\ x1.c = [m.c EXCEPT ![c] = r1] /\ x1.c[c] = r1
      /\ x1.failed = m.failed /\ x1.kind = m.kind /\ x1.file = m.file /\ x1.conn = m.conn
      /\ x1.conns = m.conns /\ x1.ep = m.ep
      /\ x1.tasks = m.tasks /\ x1.usock = m.usock /\ x1.poll = m.poll /\ x1.owner = "ep"
      /\ x1.events = <<>>
  <2> HIDE DEF x1, r1
  <2>1. QED
    BY <1>6, <1>8, EventNone DEF ListenTyped, ListenFields, Formed
<1>17. x = [x3 EXCEPT !.c[c].state = "ACTIVE"]
  BY DEF x
<1> HIDE DEF x1
<1>18. Changed(x1, x2, c, r2, x1.events, x1.tasks)
  BY <1>9, ChangeRec
<1>19. ListenTyped(x2) /\ x2.c[c] = r2 /\ x2.events = x1.events /\ x2.tasks = x1.tasks
  <2> HIDE DEF x2, r, r1, r2, r3, x
  <2>1. QED
    BY <1>9, <1>10, <1>18, ChangeTyped
<1> HIDE DEF x2
<1>20. Changed(x2, x3, c, r3, x2.events, x2.tasks)
  BY <1>19, ChangeRec
<1>21. ListenTyped(x3) /\ x3.c[c] = r3 /\ x3.events = x2.events /\ x3.tasks = x2.tasks
  <2> HIDE DEF x3, r3
  <2>1. QED
    BY <1>10, <1>19, <1>20, ChangeTyped
<1> HIDE DEF x3
<1>22. Changed(x3, x, c, r, x3.events, x3.tasks)
  BY <1>17, <1>21, ChangeRec DEF r
<1> HIDE DEF r, r1, r2, r3
<1>23. ListenTyped(x) /\ x.c[c] = r /\ x.events = x3.events /\ x.tasks = x3.tasks
  BY <1>10, <1>21, <1>22, ChangeTyped
<1>24. Changed(x, m', c, r, <<f>>, m.tasks)
  <2>1. Changed(x, Raise(x, f), c, x.c[c], Append(x.events, f), x.tasks)
    BY <1>23, ChangeRaise
  <2>4. x.events = <<>> /\ x.tasks = m.tasks
    BY <1>9, <1>19, <1>21, <1>23
  <2>2. Append(x.events, f) = <<f>> /\ x.tasks = m.tasks
    BY <2>4, EventNone
  <2>3. QED
    BY <1>1, <1>23, <2>1, <2>2
<1>25. Changed(x1, m', c, r, <<f>>, m.tasks)
  <2>1. x1.c \in [Conn -> ConnRecord] /\ x2.c \in [Conn -> ConnRecord]
        /\ x3.c \in [Conn -> ConnRecord]
    BY <1>9, <1>19, <1>21 DEF ListenTyped
  <2>2. Changed(x1, x3, c, r3, x2.events, x2.tasks)
    BY <1>18, <1>20, <2>1, ChangedTwice
  <2>3. Changed(x1, x, c, r, x3.events, x3.tasks)
    BY <1>22, <2>1, <2>2, ChangedTwice
  <2>4. QED
    BY <1>24, <2>1, <2>3, ChangedTwice
<1>26. /\ Formed(m') /\ m'.failed = m.failed /\ m'.kind = m.kind /\ m'.file = m.file
       /\ m'.conn = m.conn
      /\ m'.conns = m.conns /\ m'.c = [m.c EXCEPT ![c] = r] /\ m'.ep = m.ep
      /\ m'.tasks = m.tasks /\ m'.usock = m.usock /\ m'.poll = m.poll /\ m'.owner = "ep"
      /\ m'.events = <<f>>
  BY <1>6, <1>9, <1>25 DEF Changed, Apart, Formed, ListenTyped
<1>11. m'.c[c] = r /\ \A d \in Conn \ {c} : m'.c[d] = m.c[d]
  BY <1>6, <1>26 DEF ListenTyped
<1>12. Free(m') # {}
  <2>1. c \notin Free(m)
    BY <1>1 DEF Free
  <2>2. Free(m) \subseteq Free(m')
    BY <1>11, <2>1 DEF Free
  <2>3. QED
    BY <1>6, <2>2
<1>13. Waiting(m', c)
  BY <1>2, <1>6, <1>26, <1>11, <1>12 DEF Waiting, Hands, r
<1>14. Only(m.events, m'.events, c) /\ Len(m'.events) <= 1
  BY <1>2, <1>4, <1>26, EventReplaced, EventAlone
<1>15. m'.tasks \in Seq(ListenerTasks) /\ TasksOK(m'.tasks, m'.usock, m'.poll, Closing(m))
  BY <1>26, ListensGood
<1>16. QED
  <2>1. Waiter(m, m', r) /\ Only(m.events, m'.events, m.conn) /\ Waiting(m', m.conn)
    BY <1>4, <1>13, <1>14, <1>26 DEF Waiter
  <2>3. m'.ep = m.ep
    BY <1>26
  <2>2. QED
    BY <1>4, <1>10, <1>14, <1>15, <2>1, <2>3, WaitingListens

\* nn_usock_accept, of the connection that owns the listening usock.
LEMMA AcceptWaits ==
  ASSUME NEW x, NEW c \in Conn, ListenTyped(x), x.events = <<>>, x.conn = c, x.owner = c,
         x.usock \in {"LISTENING", "ACCEPTING_ERROR"}, x.ep = "ACTIVE",
         NEW u, x.c[c] = Rec("ACCEPTING", u, "IDLE", "ep"),
         TasksOK(x.tasks, x.usock, x.poll, Closing(x)),
         NEW r \in Accepted, MayAccept(x, r)
  PROVE  \E q \in ConnRecord :
            /\ Waiter(x, Accept(x, c, r), q) /\ Accept(x, c, r).ep = "ACTIVE"
            /\ Accept(x, c, r).tasks \in Seq(ListenerTasks)
            /\ TasksOK(Accept(x, c, r).tasks, Accept(x, c, r).usock, Accept(x, c, r).poll, Closing(x))
            /\ Only(<<>>, Accept(x, c, r).events, c) /\ Len(Accept(x, c, r).events) <= 1
            /\ Waiting(Accept(x, c, r), c)
<1> DEFINE z == Accept(x, c, r)
           q(v) == Rec("ACCEPTING", v, "IDLE", "ep")
           y1 == [x EXCEPT !.c[c].usock = "BEING_ACCEPTED"]
           y2 == [x EXCEPT !.c[c].usock = "ACCEPTED"]
<1>1. q("BEING_ACCEPTED") \in ConnRecord /\ q("ACCEPTED") \in ConnRecord
  BY RecTyped
<1>2. /\ Changed(x, y1, c, q("BEING_ACCEPTED"), x.events, x.tasks)
      /\ Changed(x, y2, c, q("ACCEPTED"), x.events, x.tasks)
  BY ChangeRec
<1>3. /\ Ev(c, "ACCEPTED", "ACCEPTED") \in ListenEvent
      /\ Concerns(Ev(c, "ACCEPTED", "ACCEPTED"), c)
      /\ Ev(c, "LISTENER", "ACCEPT_ERROR") \in ListenEvent
      /\ Concerns(Ev(c, "LISTENER", "ACCEPT_ERROR"), c)
      /\ c # "ep"
  BY ConnEvents, ConnNames
<1>4. /\ y1 = [f \in ListenFields |-> y1[f]] /\ y1.failed = x.failed /\ y1.kind = x.kind
      /\ y1.file = x.file /\ Apart(x, y1)
      /\ y1.c = [x.c EXCEPT ![c] = q("BEING_ACCEPTED")] /\ y1.events = <<>> /\ y1.tasks = x.tasks
      /\ y1.c[c] = q("BEING_ACCEPTED")
  BY <1>2 DEF Changed, ListenTyped
<1>5. /\ y2 = [f \in ListenFields |-> y2[f]] /\ y2.failed = x.failed /\ y2.kind = x.kind
      /\ y2.file = x.file /\ Apart(x, y2)
      /\ y2.c = [x.c EXCEPT ![c] = q("ACCEPTED")] /\ y2.events = <<>> /\ y2.tasks = x.tasks
      /\ y2.c[c] = q("ACCEPTED") /\ \A d \in Conn \ {c} : y2.c[d] = x.c[d]
  BY <1>2 DEF Changed, ListenTyped
<1>6. x.tasks \in Seq(ListenerTasks) /\ Closing(x) \in SUBSET Conn
  BY DEF ListenTyped, Closing
<1>7. CASE r = "peer"
  <2> DEFINE e == Ev(c, "ACCEPTED", "ACCEPTED")
             w == [y2 EXCEPT !.usock = "LISTENING", !.asock = NULL]
  <2>1. z = Raise(w, e)
    <3>1. w = [[x EXCEPT !.c[c].usock = "BEING_ACCEPTED", !.usock = "ACCEPTING"]
                 EXCEPT !.c[c].usock = "ACCEPTED", !.usock = "LISTENING", !.asock = NULL]
      BY DEF ListenTyped, ListenFields
    <3>2. QED
      BY <1>7, <3>1 DEF Accept
  <2> HIDE DEF z, y2
  <2> DEFINE b == w.aborted \/ \E i \in DOMAIN w.events : SameEvent(w.events[i], e)
  <2>2. z = [w EXCEPT !.events = Append(w.events, e), !.aborted = b]
    BY <2>1 DEF Raise
  <2>3. w.events = <<>> /\ Append(<<>>, e) = <<e>>
    BY <1>5, EventNone DEF ListenFields
  <2> HIDE DEF b, e, q
  <2>4. /\ Formed(z) /\ z.failed = x.failed /\ z.kind = x.kind /\ z.file = x.file
        /\ z.conn = x.conn /\ z.conns = x.conns
        /\ z.c = [x.c EXCEPT ![c] = q("ACCEPTED")] /\ z.ep = "ACTIVE" /\ z.tasks = x.tasks
        /\ z.usock = "LISTENING" /\ z.poll = x.poll /\ z.owner = c /\ z.events = <<e>>
        /\ z.c[c] = q("ACCEPTED") /\ \A d \in Conn \ {c} : z.c[d] = x.c[d]
    BY <1>5, <2>2, <2>3 DEF ListenFields, Formed, Apart
  <2>5. TasksOK(x.tasks, "LISTENING", x.poll, Closing(x))
    <3>1. {x.usock, "LISTENING"} \cap {"ACCEPTING", "CANCELLING"} = {}
      OBVIOUS
    <3>2. QED
      BY <1>6, <3>1, TasksSame
  <2>6. Free(z) # {}
    <3>1. x.c[c].state # "NONE"
      BY RecFields
    <3>2. Free(x) # {} /\ Free(x) \subseteq Free(z)
      BY <1>7, <2>4, <3>1 DEF MayAccept, Free
    <3>3. QED
      BY <3>2
  <2>7. Waiting(z, c)
    BY <2>4, <2>6 DEF Waiting, Greets, q, e
  <2>8. Only(<<>>, z.events, c) /\ Len(z.events) <= 1
    BY <1>3, <2>4, EventReplaced, EventAlone DEF e
  <2>9. Waiter(x, z, q("ACCEPTED"))
    BY <2>4 DEF Waiter
  <2>10. QED
    BY <1>1, <1>6, <2>4, <2>5, <2>7, <2>8, <2>9 DEF z
<1>8. CASE r = "resource" /\ ~x.errnum
  <2> DEFINE e == Ev(c, "LISTENER", "ACCEPT_ERROR")
             w == [y1 EXCEPT !.asock = c, !.usock = "ACCEPTING_ERROR", !.errnum = TRUE]
  <2>1. z = Raise(w, e)
    <3>1. w = [[x EXCEPT !.c[c].usock = "BEING_ACCEPTED", !.usock = "ACCEPTING"]
                 EXCEPT !.asock = c, !.usock = "ACCEPTING_ERROR", !.errnum = TRUE]
      BY DEF ListenTyped, ListenFields
    <3>2. z = ListenerEvent(w, "ACCEPT_ERROR")
      BY <1>8, <3>1 DEF Accept
    <3>3. w.owner = c
      BY <1>4 DEF Apart, ListenFields
    <3> HIDE DEF w, z
    <3>4. QED
      BY <1>3, <3>2, <3>3 DEF ListenerEvent
  <2> HIDE DEF z, y1
  <2> DEFINE b == w.aborted \/ \E i \in DOMAIN w.events : SameEvent(w.events[i], e)
  <2>2. z = [w EXCEPT !.events = Append(w.events, e), !.aborted = b]
    BY <2>1 DEF Raise
  <2>3. w.events = <<>> /\ Append(<<>>, e) = <<e>>
    BY <1>4, EventNone DEF ListenFields
  <2> HIDE DEF b, e, q
  <2>4. /\ Formed(z) /\ z.failed = x.failed /\ z.kind = x.kind /\ z.file = x.file
        /\ z.conn = x.conn /\ z.conns = x.conns
        /\ z.c = [x.c EXCEPT ![c] = q("BEING_ACCEPTED")] /\ z.ep = "ACTIVE" /\ z.tasks = x.tasks
        /\ z.usock = "ACCEPTING_ERROR" /\ z.poll = x.poll /\ z.owner = c /\ z.asock = c
        /\ z.events = <<e>> /\ z.c[c] = q("BEING_ACCEPTED")
    BY <1>4, <2>2, <2>3 DEF ListenFields, Formed, Apart
  <2>5. TasksOK(x.tasks, "ACCEPTING_ERROR", x.poll, Closing(x))
    <3>1. {x.usock, "ACCEPTING_ERROR"} \cap {"ACCEPTING", "CANCELLING"} = {}
      OBVIOUS
    <3>2. QED
      BY <1>6, <3>1, TasksSame
  <2>6. Waiting(z, c)
    BY <2>4 DEF Waiting, Lacks, q, e
  <2>7. Only(<<>>, z.events, c) /\ Len(z.events) <= 1
    BY <1>3, <2>4, EventReplaced, EventAlone DEF e
  <2>8. Waiter(x, z, q("BEING_ACCEPTED"))
    BY <2>4 DEF Waiter
  <2>9. QED
    BY <1>1, <1>6, <2>4, <2>5, <2>6, <2>7, <2>8 DEF z
<1>9. CASE ~(r = "peer") /\ ~(r = "resource" /\ ~x.errnum)
  <2> DEFINE t == <<"listener", "ACCEPT">>
             w == [y1 EXCEPT !.asock = c, !.usock = "ACCEPTING"]
  <2>1. z = Execute(w, "listener", "ACCEPT")
    <3>1. w = [[x EXCEPT !.c[c].usock = "BEING_ACCEPTED", !.usock = "ACCEPTING"] EXCEPT !.asock = c]
      BY DEF ListenTyped, ListenFields
    <3>2. QED
      BY <1>9, <3>1 DEF Accept
  <2> HIDE DEF z, y1
  <2> DEFINE b == w.aborted \/ \E i \in DOMAIN w.tasks : w.tasks[i] = t
  <2>2. z = [w EXCEPT !.tasks = Append(w.tasks, t), !.aborted = b]
    BY <2>1 DEF Execute
  <2>3. w.tasks = x.tasks
    BY <1>4 DEF ListenFields
  <2> HIDE DEF b, t, q
  <2>4. /\ Formed(z) /\ z.failed = x.failed /\ z.kind = x.kind /\ z.file = x.file
        /\ z.conn = x.conn /\ z.conns = x.conns
        /\ z.c = [x.c EXCEPT ![c] = q("BEING_ACCEPTED")] /\ z.ep = "ACTIVE"
        /\ z.tasks = Append(x.tasks, t)
        /\ z.usock = "ACCEPTING" /\ z.poll = x.poll /\ z.owner = c /\ z.asock = c
        /\ z.events = <<>> /\ z.c[c] = q("BEING_ACCEPTED")
    BY <1>4, <2>2, <2>3 DEF ListenFields, Formed, Apart
  <2>5. /\ Append(x.tasks, t) \in Seq(ListenerTasks)
        /\ TasksOK(Append(x.tasks, t), "ACCEPTING", x.poll, Closing(x))
    BY <1>6, TasksListener DEF t
  <2>6. Waiting(z, c)
    BY <2>4, EventNone DEF Waiting, Waits, q
  <2>7. Only(<<>>, z.events, c) /\ Len(z.events) <= 1
    <3>1. Only(<<>>, <<>>, c)
      BY <1>3, EventReplaced
    <3>2. z.events = <<>> /\ Len(<<>>) = 0
      BY <2>4, EventNone
    <3>3. QED
      BY <3>1, <3>2
  <2>8. Waiter(x, z, q("BEING_ACCEPTED"))
    BY <2>4 DEF Waiter
  <2>9. QED
    BY <1>1, <2>4, <2>5, <2>6, <2>7, <2>8 DEF z
<1>10. QED
  BY <1>7, <1>8, <1>9

\* The only event is taken.
LEMMA RestEmpty ==
  ASSUME NEW e \in ListenEvent, Listens(m), m.events = <<e>>
  PROVE  /\ ListenTyped(Rest) /\ Formed(Rest) /\ Rest.events = <<>>
         /\ Rest.ep = m.ep /\ Rest.failed = m.failed /\ Rest.kind = m.kind /\ Rest.file = m.file
         /\ Rest.usock = m.usock /\ Rest.owner = m.owner /\ Rest.asock = m.asock
         /\ Rest.poll = m.poll /\ Rest.conn = m.conn /\ Rest.conns = m.conns /\ Rest.c = m.c
         /\ Rest.tasks = m.tasks
<1>1. Tail(m.events) = <<>> /\ <<>> \in Seq(ListenEvent)
  BY EventAlone, EventNone
<1>2. Rest = [m EXCEPT !.events = <<>>] /\ ListenTyped(m)
  BY <1>1 DEF Rest, Listens
<1>3. QED
  BY <1>1, <1>2 DEF ListenTyped, ListenFields, Formed

\* AcceptFailed: the connection tries again.
LEMMA AcceptFailedListens ==
  ASSUME NEW c \in Conn, NEW r \in Accepted, Listens(m), AcceptFailed(c, r)
  PROVE  Listens(m')
<1> DEFINE e == Head(m.events)
<1>1. /\ m.events # <<>> /\ e = Ev(c, "LISTENER", "ACCEPT_ERROR") /\ m.c[c].state = "ACCEPTING"
      /\ MayAccept(m, r) /\ m' = Accept(Rest, c, r)
  BY DEF AcceptFailed, On
<1>2. Concerns(e, c) /\ e \in ListenEvent
  BY <1>1, ConnEvents
<1>3. c \notin Range(m.conns)
  <2>1. ~Served(c, m.c[c], {e}, m.ep) /\ ~Ending(c, m.c[c], {e})
    BY <1>1 DEF Served, Ending, Runs, Broken, Quits, Closes, Closed, Fails, Forgotten, Ended,
       Hangs, Rec
  <2>2. m.conn \notin Range(m.conns)
    BY DEF Listens, Bound2, Members
  <2>3. QED
    BY <1>1, <1>2, <2>1, <2>2, WhoseEvent
<1>4. /\ c = m.conn /\ Accepting(m) /\ m.events = <<e>>
      /\ Greets(m, c) \/ Lacks(m, c) \/ Hands(m, c) \/ Cancelled(m, c) \/ Returned(m, c)
  BY <1>1, <1>2, <1>3, WaitingAlone
<1>5. Lacks(m, c)
  <2>1. c # "ep" /\ "ACCEPTED" # "LISTENER"
    BY ConnNames
  <2>2. e # Ev(c, "ACCEPTED", "ACCEPTED") /\ e # Ev("ep", c, "ACCEPTED")
        /\ e # Ev(c, "ACCEPTED", "STOPPED") /\ e # Ev("ep", c, "STOPPED")
    BY <1>1, <2>1, EvFields
  <2>3. QED
    BY <1>4, <2>2 DEF Greets, Hands, Cancelled, Returned
<1> HIDE DEF e
<1>6. /\ m.ep = "ACTIVE" /\ m.c[c] = Rec("ACCEPTING", "BEING_ACCEPTED", "IDLE", "ep")
      /\ m.usock = "ACCEPTING_ERROR" /\ m.owner = c
  BY <1>5 DEF Lacks
<1>7. /\ ListenTyped(Rest) /\ Formed(Rest) /\ Rest.events = <<>> /\ Rest.ep = m.ep
      /\ Rest.failed = m.failed /\ Rest.kind = m.kind /\ Rest.file = m.file
      /\ Rest.usock = m.usock /\ Rest.owner = m.owner
      /\ Rest.poll = m.poll /\ Rest.conn = m.conn /\ Rest.conns = m.conns /\ Rest.c = m.c
      /\ Rest.tasks = m.tasks
  BY <1>2, <1>4, RestEmpty
<1>8. Closing(Rest) = Closing(m) /\ MayAccept(Rest, r)
  BY <1>1, <1>7 DEF Closing, MayAccept, Free
<1>9. TasksOK(Rest.tasks, Rest.usock, Rest.poll, Closing(Rest))
  BY <1>7, <1>8, ListensGood
<1>10. PICK q \in ConnRecord :
            /\ Waiter(Rest, m', q) /\ m'.ep = "ACTIVE"
            /\ m'.tasks \in Seq(ListenerTasks)
            /\ TasksOK(m'.tasks, m'.usock, m'.poll, Closing(Rest))
            /\ Only(<<>>, m'.events, c) /\ Len(m'.events) <= 1 /\ Waiting(m', c)
  <2>1. Rest.conn = c /\ Rest.owner = c /\ Rest.usock \in {"LISTENING", "ACCEPTING_ERROR"}
        /\ Rest.ep = "ACTIVE" /\ Rest.c[c] = Rec("ACCEPTING", "BEING_ACCEPTED", "IDLE", "ep")
    BY <1>4, <1>6, <1>7
  <2> HIDE DEF Rest
  <2>2. QED
    BY <1>1, <1>7, <1>8, <1>9, <2>1, AcceptWaits
<1>11. Waiter(m, m', q)
  BY <1>7, <1>10 DEF Waiter
<1>12. Only(m.events, m'.events, c)
  <2>1. Only(m.events, <<>>, c)
    BY <1>2, <1>4, EventReplaced
  <2>2. QED
    BY <1>10, <2>1, OnlyTwice
<1>13. QED
  <2>1. TasksOK(m'.tasks, m'.usock, m'.poll, Closing(m)) /\ m'.ep = m.ep
        /\ Only(m.events, m'.events, m.conn) /\ Waiting(m', m.conn)
    BY <1>4, <1>6, <1>8, <1>10, <1>12
  <2>2. QED
    BY <1>4, <1>10, <1>11, <2>1, WaitingListens

\* nn_b*_start_accepting.
LEMMA StartListens ==
  ASSUME NEW x, ListenTyped(x), ~x.failed, x.ep = "ACTIVE", x.conn = NULL, x.owner = "ep",
         x.usock = "LISTENING", x.events = <<>>, Distinct(x.conns), Free(x) # {},
         x.file = "own" => x.kind = "ipc",
         \A c \in Conn : c \in Range(x.conns) \/ x.c[c] = NoConn,
         \A c \in Range(x.conns) : Served(c, x.c[c], {}, "ACTIVE"),
         TasksOK(x.tasks, x.usock, x.poll, Closing(x)),
         NEW r \in Accepted, NEW y \in StartAccepting(x, r)
  PROVE  Listens(y)
<1> DEFINE c == CHOOSE d \in Free(x) : TRUE
           q == Rec("ACCEPTING", "IDLE", "IDLE", "ep")
           z == [x EXCEPT !.conn = c, !.owner = c,
                          !.c[c] = [NoConn EXCEPT !.state = "ACCEPTING", !.saved = x.owner]]
<1>1. c \in Conn /\ x.c[c].state = "NONE"
  BY DEF Free
<1>2. y = Accept(z, c, r) /\ MayAccept(z, r)
  BY DEF StartAccepting
<1>3. [NoConn EXCEPT !.state = "ACCEPTING", !.saved = x.owner] = q
  <2>1. [NoConn EXCEPT !.state = "ACCEPTING", !.saved = "ep"] = Rec("ACCEPTING", "IDLE", "IDLE", "ep")
    <3>1. [NoConn EXCEPT !.state = "ACCEPTING"] = Rec("ACCEPTING", "IDLE", "IDLE", NULL)
      BY DEF NoConn, Rec
    <3>2. ASSUME NEW n, n = Rec("ACCEPTING", "IDLE", "IDLE", NULL)
          PROVE  [n EXCEPT !.saved = "ep"] = Rec("ACCEPTING", "IDLE", "IDLE", "ep")
      BY <3>2 DEF Rec
    <3>3. [NoConn EXCEPT !.state = "ACCEPTING", !.saved = "ep"]
             = [[NoConn EXCEPT !.state = "ACCEPTING"] EXCEPT !.saved = "ep"]
      OBVIOUS
    <3>4. QED
      BY <3>1, <3>2, <3>3
  <2>2. QED
    BY <2>1
<1>4. q \in ConnRecord
  BY RecTyped
<1>5. c \notin Range(x.conns) /\ Range(x.conns) \subseteq Conn
  <2>1. \A d \in Range(x.conns) : x.c[d].state # "NONE"
    BY DEF Served, Runs, Broken, Quits, Closes, Closed, Fails, Forgotten, Ended, Rec
  <2>2. Range(x.conns) \subseteq Conn
    BY DEF ListenTyped, Range
  <2> HIDE DEF c
  <2>3. QED
    BY <1>1, <2>1, <2>2
<1> DEFINE k == [x.c EXCEPT ![c] = q]
<1>6. z = [x EXCEPT !.conn = c, !.owner = c, !.c = k]
  BY <1>3
<1> HIDE DEF c, q, z
<1>7. k \in [Conn -> ConnRecord] /\ k[c] = q /\ \A d \in Conn \ {c} : k[d] = x.c[d]
  BY <1>1, <1>4 DEF ListenTyped
<1> HIDE DEF k
<1>8. /\ Formed(z) /\ z.failed = x.failed /\ z.kind = x.kind /\ z.file = x.file /\ z.conn = c
      /\ z.owner = c /\ z.ep = "ACTIVE"
      /\ z.conns = x.conns /\ z.c = k /\ z.events = <<>> /\ z.tasks = x.tasks
      /\ z.usock = "LISTENING" /\ z.poll = x.poll
  BY <1>6 DEF ListenTyped, ListenFields, Formed
<1>9. ListenTyped(z)
  BY <1>1, <1>7, <1>8 DEF ListenTyped, Formed
<1>10. Closing(z) = Closing(x)
  <2>1. x.c[c].usock # "STOPPING" /\ z.c[c].usock # "STOPPING"
    <3>1. x.c[c] = NoConn
      BY <1>1, <1>5
    <3>2. QED
      BY <1>7, <1>8, <3>1 DEF NoConn, Rec, q
  <2>2. QED
    BY <1>7, <1>8, <2>1 DEF Closing
<1>11. PICK p \in ConnRecord :
            /\ Waiter(z, y, p) /\ y.ep = "ACTIVE"
            /\ y.tasks \in Seq(ListenerTasks)
            /\ TasksOK(y.tasks, y.usock, y.poll, Closing(z))
            /\ Only(<<>>, y.events, c) /\ Len(y.events) <= 1 /\ Waiting(y, c)
  <2>1. z.c[c] = Rec("ACCEPTING", "IDLE", "IDLE", "ep")
        /\ TasksOK(z.tasks, z.usock, z.poll, Closing(z))
    BY <1>7, <1>8, <1>10 DEF q
  <2>2. z.usock \in {"LISTENING", "ACCEPTING_ERROR"}
    BY <1>8
  <2>3. QED
    BY <1>1, <1>2, <1>8, <1>9, <2>1, <2>2, AcceptWaits
<1>12. /\ y.failed = x.failed /\ y.kind = x.kind /\ y.file = x.file /\ y.conn = c
       /\ y.conns = x.conns /\ y.c = [k EXCEPT ![c] = p]
       /\ Formed(y) /\ y.events \in Seq(ListenEvent) /\ Distinct(y.events)
       /\ \A d \in Conn \ {c} : Mine(y.events, d) = {}
       /\ \A e \in Range(y.events) : Concerns(e, c)
  BY <1>8, <1>11, EventNone DEF Waiter, Only
<1>13. \A d \in Conn \ {c} : y.c[d] = x.c[d]
  BY <1>7, <1>12
<1>14. ListenTyped(y)
  <2>1. y.c \in [Conn -> ConnRecord] /\ y.conn \in Conn \cup {NULL} /\ y.conns \in Seq(Conn)
    BY <1>1, <1>7, <1>12 DEF ListenTyped
  <2>2. QED
    BY <1>11, <1>12, <2>1 DEF ListenTyped, Formed
<1>15. Closing(y) = Closing(x)
  <2>1. y.c[c].usock # "STOPPING" /\ x.c[c].usock # "STOPPING"
    <3>1. x.c[c] = NoConn
      BY <1>1, <1>5
    <3>2. QED
      BY <1>1, <1>11, <3>1, WaitingStates DEF NoConn
  <2>2. QED
    BY <1>13, <2>1 DEF Closing
<1>16. Members(y)
  <2>1. \A d \in Conn : d = y.conn \/ d \in Range(y.conns) \/ y.c[d] = NoConn
    BY <1>12, <1>13
  <2>2. \A e \in Range(y.events) :
           \E d \in Conn : (d = y.conn \/ d \in Range(y.conns)) /\ Concerns(e, d)
    BY <1>1, <1>12
  <2>3. Distinct(y.conns) /\ y.conn \notin Range(y.conns)
    BY <1>5, <1>12
  <2>4. QED
    BY <1>12, <2>1, <2>2, <2>3 DEF Members
<1>17. ASSUME NEW d \in Range(y.conns)
       PROVE  Served(d, y.c[d], Mine(y.events, d), y.ep)
  <2>1. d \in Conn \ {c} /\ d \in Range(x.conns)
    BY <1>5, <1>12, <1>17
  <2>2. y.c[d] = x.c[d] /\ Mine(y.events, d) = {} /\ y.ep = "ACTIVE"
    BY <1>11, <1>12, <1>13, <2>1
  <2>3. Served(d, x.c[d], {}, "ACTIVE")
    BY <2>1
  <2>4. QED
    BY <2>2, <2>3
<1>18. Accepting(y)
  BY <1>1, <1>11, <1>12, <1>17 DEF Accepting
<1>19. TasksOK(y.tasks, y.usock, y.poll, Closing(y))
  BY <1>10, <1>11, <1>15
<1>20. QED
  BY <1>12, <1>14, <1>16, <1>18, <1>19 DEF Listens, Bound2

\* ConnAccepted: the connection is an accepted one, the next one waits.
LEMMA ConnAcceptedListens ==
  ASSUME NEW c \in Conn, NEW r \in Accepted, Listens(m), ConnAccepted(c, r)
  PROVE  Listens(m')
<1> DEFINE e == Head(m.events)
           x == [Rest EXCEPT !.conn = NULL, !.conns = Append(@, c)]
<1>1. /\ m.events # <<>> /\ e = Ev("ep", c, "ACCEPTED") /\ m.ep = "ACTIVE"
      /\ (m.kind = "tcp" /\ m.conn # c) \/ m' \in StartAccepting(x, r)
  BY DEF ConnAccepted, On
<1>2. Concerns(e, c) /\ e \in ListenEvent
  BY <1>1, ConnEvents
<1>3. c \notin Range(m.conns)
  <2>1. c # "ep" /\ {e} # {}
    BY ConnNames
  <2>2. \A t : e # Ev(c, "SESSION", t) /\ e # Ev(c, "ACCEPTED", t)
    BY <1>1, <2>1, EvFields
  <2>3. e # Ev("ep", c, "STOPPED") /\ e # Ev("ep", c, "ERROR")
    BY <1>1, EvFields
  <2> HIDE DEF e
  <2>4. ~Served(c, m.c[c], {e}, m.ep) /\ ~Ending(c, m.c[c], {e})
    BY <2>1, <2>2, <2>3
    DEF Served, Ending, Runs, Broken, Quits, Closes, Closed, Fails, Forgotten, Ended, Hangs
  <2>5. m.conn \notin Range(m.conns)
    BY DEF Listens, Bound2, Members
  <2>6. QED
    BY <1>1, <1>2, <2>4, <2>5, WhoseEvent DEF e
<1>4. /\ c = m.conn /\ Accepting(m) /\ m.events = <<e>>
      /\ Greets(m, c) \/ Lacks(m, c) \/ Hands(m, c) \/ Cancelled(m, c) \/ Returned(m, c)
  BY <1>1, <1>2, <1>3, WaitingAlone
<1>5. Hands(m, c)
  <2>1. c # "ep"
    BY ConnNames
  <2>2. e # Ev(c, "LISTENER", "ACCEPT_ERROR") /\ e # Ev(c, "ACCEPTED", "ACCEPTED")
        /\ e # Ev(c, "ACCEPTED", "STOPPED") /\ e # Ev("ep", c, "STOPPED")
    BY <1>1, <2>1, EvFields
  <2>3. QED
    BY <1>4, <2>2 DEF Greets, Lacks, Cancelled, Returned
<1> HIDE DEF e
<1>6. /\ m.c[c] = Rec("ACTIVE", "ACTIVE", "HANDSHAKE", NULL) /\ m.usock = "LISTENING"
      /\ m.owner = "ep" /\ Free(m) # {}
  BY <1>5 DEF Hands
<1>7. /\ ListenTyped(Rest) /\ Formed(Rest) /\ Rest.events = <<>> /\ Rest.ep = m.ep
      /\ Rest.failed = m.failed /\ Rest.kind = m.kind /\ Rest.file = m.file
      /\ Rest.usock = m.usock /\ Rest.owner = m.owner
      /\ Rest.poll = m.poll /\ Rest.conn = m.conn /\ Rest.conns = m.conns /\ Rest.c = m.c
      /\ Rest.tasks = m.tasks
  BY <1>2, <1>4, RestEmpty
<1>8. /\ m.conns \in Seq(Conn) /\ Distinct(m.conns) /\ ~m.failed /\ Range(m.conns) \subseteq Conn
      /\ m.file = "own" => m.kind = "ipc"
      /\ \A d \in Conn : d = c \/ d \in Range(m.conns) \/ m.c[d] = NoConn
  BY <1>4, ListensGood DEF Listens, Bound2, Members
<1> DEFINE q == Append(m.conns, c)
<1>9. q \in Seq(Conn) /\ Distinct(q) /\ Range(q) = Range(m.conns) \cup {c}
  BY <1>3, <1>8, AddLast
<1>10. x = [Rest EXCEPT !.conn = NULL, !.conns = q]
  BY <1>7
<1> HIDE DEF q, x, Rest
<1>11. /\ ListenTyped(x) /\ x.failed = m.failed /\ x.kind = m.kind /\ x.file = m.file
       /\ x.ep = "ACTIVE" /\ x.conn = NULL
       /\ x.owner = "ep" /\ x.usock = "LISTENING" /\ x.events = <<>> /\ x.conns = q
       /\ x.c = m.c /\ x.tasks = m.tasks /\ x.poll = m.poll
  BY <1>1, <1>6, <1>7, <1>9, <1>10 DEF ListenTyped, ListenFields, Formed
<1>12. /\ Closing(x) = Closing(m) /\ Free(x) = Free(m)
  BY <1>11 DEF Closing, Free
<1>13. TasksOK(x.tasks, x.usock, x.poll, Closing(x))
  BY <1>6, <1>11, <1>12, ListensGood
<1>14. \A d \in Conn : d \in Range(x.conns) \/ x.c[d] = NoConn
  BY <1>8, <1>9, <1>11
<1>15. ASSUME NEW d \in Range(x.conns) PROVE Served(d, x.c[d], {}, "ACTIVE")
  <2>1. CASE d = c
    <3>1. Runs(c, m.c[c], {})
      BY <1>6 DEF Runs
    <3>2. QED
      BY <1>11, <2>1, <3>1 DEF Served
  <2>2. CASE d # c
    <3>1. d \in Range(m.conns) /\ d \in Conn
      BY <1>8, <1>9, <1>11, <1>15, <2>2
    <3>2. Served(d, m.c[d], Mine(m.events, d), "ACTIVE")
      BY <1>1, <1>4, <3>1 DEF Accepting
    <3>3. ~Concerns(e, d)
      BY <1>2, <2>2, <3>1, OneConcern
    <3>4. Mine(m.events, d) = {}
      <4>1. Mine(<<e>>, d) = {f \in {e} : Concerns(f, d)}
        BY <1>2, EventAlone
      <4>2. QED
        BY <1>4, <3>3, <4>1
    <3>5. QED
      BY <1>11, <3>2, <3>4
  <2>3. QED
    BY <2>1, <2>2
<1>16. m' \in StartAccepting(x, r)
  BY <1>1, <1>4
<1>17. QED
  BY <1>6, <1>8, <1>9, <1>11, <1>12, <1>13, <1>14, <1>15, <1>16, StartListens

\* PeerArrives: a peer, or none that could be accepted.
LEMMA PeerArrivesListens ==
  ASSUME Listens(m), PeerArrives
  PROVE  Listens(m')
<1> DEFINE c == m.conn
<1>1. Outside /\ m.poll = {"FD", "IN"} /\ m.usock # "CANCELLING" /\ m.events = <<>>
  BY DEF PeerArrives, Outside
<1>2. m.usock = "ACCEPTING"
  <2>1. m.poll # {}
    BY <1>1
  <2>2. QED
    BY <1>1, <2>1, ListensGood DEF TasksOK
<1>3. Accepting(m) /\ c \in Conn
  BY <1>2 DEF Listens, Bound2, Accepting
<1>4. Waits(m, c)
  BY <1>1, <1>2, <1>3, OutsideWaits DEF Cancels
<1> HIDE DEF c
<1>5. /\ m.ep = "ACTIVE" /\ m.owner = c /\ m.asock = c /\ c = m.conn
      /\ m.c[c] = Rec("ACCEPTING", "BEING_ACCEPTED", "IDLE", "ep")
  BY <1>4 DEF Waits, c
<1>6. /\ ListenTyped(m) /\ TasksOK(m.tasks, m.usock, m.poll, Closing(m))
      /\ m.tasks \in Seq(ListenerTasks) /\ Closing(m) \in SUBSET Conn /\ c # "ep"
  BY <1>3, ListensGood, ConnNames DEF Listens
<1>7. /\ Ev(c, "ACCEPTED", "ACCEPTED") \in ListenEvent
      /\ Concerns(Ev(c, "ACCEPTED", "ACCEPTED"), c)
      /\ Ev(c, "LISTENER", "ACCEPT_ERROR") \in ListenEvent
      /\ Concerns(Ev(c, "LISTENER", "ACCEPT_ERROR"), c)
  BY <1>3, ConnEvents
<1>8. CASE /\ Free(m) # {}
           /\ m' = Raise([m EXCEPT !.c[m.asock].usock = "ACCEPTED", !.asock = NULL, !.poll = {},
                                   !.usock = "LISTENING"],
                         Ev(m.asock, "ACCEPTED", "ACCEPTED"))
  <2> DEFINE e == Ev(c, "ACCEPTED", "ACCEPTED")
             r == Rec("ACCEPTING", "ACCEPTED", "IDLE", "ep")
             x == [m EXCEPT !.c[c].usock = "ACCEPTED"]
             w == [x EXCEPT !.asock = NULL, !.poll = {}, !.usock = "LISTENING"]
             b == w.aborted \/ \E i \in DOMAIN w.events : SameEvent(w.events[i], e)
  <2>1. Changed(m, x, c, r, m.events, m.tasks)
    BY <1>3, <1>5, <1>6, ChangeRec
  <2>2. r \in ConnRecord
    BY RecTyped
  <2>3. m' = Raise(w, e)
    BY <1>5, <1>8
  <2>4. /\ x = [f \in ListenFields |-> x[f]] /\ x.failed = m.failed /\ x.kind = m.kind
        /\ x.file = m.file /\ Apart(m, x)
        /\ x.c = [m.c EXCEPT ![c] = r] /\ x.events = <<>> /\ x.tasks = m.tasks
        /\ x.c[c] = r /\ \A d \in Conn \ {c} : x.c[d] = m.c[d]
    BY <1>1, <1>3, <1>6, <2>1 DEF Changed, ListenTyped
  <2> HIDE DEF x, r
  <2>5. w.events = <<>> /\ Append(<<>>, e) = <<e>>
    BY <2>4, EventNone DEF ListenFields
  <2>6. m' = [w EXCEPT !.events = Append(w.events, e), !.aborted = b]
    BY <2>3 DEF Raise
  <2> HIDE DEF b, e
  <2>7. /\ Formed(m') /\ m'.failed = m.failed /\ m'.kind = m.kind /\ m'.file = m.file
        /\ m'.conn = m.conn /\ m'.conns = m.conns
        /\ m'.c = [m.c EXCEPT ![c] = r] /\ m'.ep = m.ep /\ m'.tasks = m.tasks
        /\ m'.usock = "LISTENING" /\ m'.poll = {} /\ m'.owner = c /\ m'.events = <<e>>
        /\ m'.c[c] = r /\ \A d \in Conn \ {c} : m'.c[d] = m.c[d]
    BY <1>5, <2>4, <2>5, <2>6 DEF ListenFields, Formed, Apart
  <2>8. TasksOK(m.tasks, "LISTENING", {}, Closing(m))
    BY <1>1, <1>2, <1>6, TasksPeer
  <2>9. Free(m') # {}
    <3>1. m.c[c].state # "NONE"
      BY <1>5, RecFields
    <3>2. Free(m) \subseteq Free(m')
      BY <2>7, <3>1 DEF Free
    <3>3. QED
      BY <1>8, <3>2
  <2>10. Waiting(m', c)
    BY <1>5, <2>7, <2>9 DEF Waiting, Greets, r, e
  <2>11. Only(m.events, m'.events, c) /\ Len(m'.events) <= 1
    BY <1>1, <1>3, <1>7, <2>7, EventReplaced, EventAlone DEF e
  <2>12. Waiter(m, m', r) /\ m'.tasks \in Seq(ListenerTasks)
         /\ TasksOK(m'.tasks, m'.usock, m'.poll, Closing(m)) /\ m'.ep = m.ep
    BY <1>5, <1>6, <2>7, <2>8 DEF Waiter
  <2>13. Only(m.events, m'.events, m.conn) /\ Waiting(m', m.conn)
    BY <1>5, <2>10, <2>11
  <2>14. QED
    BY <1>3, <2>2, <2>11, <2>12, <2>13, WaitingListens
<1>9. CASE m' = ListenerEvent([m EXCEPT !.errnum = TRUE, !.usock = "ACCEPTING_ERROR", !.poll = {}],
                              "ACCEPT_ERROR")
  <2> DEFINE e == Ev(c, "LISTENER", "ACCEPT_ERROR")
             w == [m EXCEPT !.errnum = TRUE, !.usock = "ACCEPTING_ERROR", !.poll = {}]
             b == w.aborted \/ \E i \in DOMAIN w.events : SameEvent(w.events[i], e)
  <2>1. /\ w.events = <<>> /\ Append(<<>>, e) = <<e>> /\ w.owner = c
    BY <1>1, <1>5, <1>6, EventNone DEF ListenTyped, ListenFields
  <2> HIDE DEF w
  <2>2. m' = Raise(w, e)
    BY <1>6, <1>9, <2>1 DEF ListenerEvent, w
  <2>3. m' = [w EXCEPT !.events = Append(w.events, e), !.aborted = b]
    BY <2>2 DEF Raise
  <2> HIDE DEF b, e
  <2>4. /\ Formed(m') /\ m'.failed = m.failed /\ m'.kind = m.kind /\ m'.file = m.file
        /\ m'.conn = m.conn /\ m'.conns = m.conns
        /\ m'.c = m.c /\ m'.ep = m.ep /\ m'.tasks = m.tasks /\ m'.asock = c
        /\ m'.usock = "ACCEPTING_ERROR" /\ m'.poll = {} /\ m'.owner = c /\ m'.events = <<e>>
    BY <1>5, <1>6, <2>1, <2>3 DEF ListenTyped, ListenFields, Formed, w
  <2>5. TasksOK(m.tasks, "ACCEPTING_ERROR", {}, Closing(m))
    BY <1>1, <1>2, <1>6, TasksPeer
  <2>6. Waiting(m', c)
    BY <1>5, <2>4 DEF Waiting, Lacks, e
  <2>7. Only(m.events, m'.events, c) /\ Len(m'.events) <= 1
    BY <1>1, <1>3, <1>7, <2>4, EventReplaced, EventAlone DEF e
  <2>8. m.c = [m.c EXCEPT ![c] = m.c[c]] /\ m.c[c] \in ConnRecord
    BY <1>3, <1>6 DEF ListenTyped
  <2>9. Waiter(m, m', m.c[c]) /\ m'.tasks \in Seq(ListenerTasks)
         /\ TasksOK(m'.tasks, m'.usock, m'.poll, Closing(m)) /\ m'.ep = m.ep
    BY <1>5, <1>6, <2>4, <2>5, <2>8 DEF Waiter
  <2>10. Only(m.events, m'.events, m.conn) /\ Waiting(m', m.conn)
    BY <1>5, <2>6, <2>7
  <2>11. QED
    BY <1>3, <2>7, <2>8, <2>9, <2>10, WaitingListens
<1>10. QED
  BY <1>2, <1>8, <1>9 DEF PeerArrives

\* The worker closes the usock of an accepted connection.
LEMMA ClosedListens ==
  ASSUME NEW c \in Conn, Listens(m), Outside, m.tasks # <<>>, c \in Closing(m),
         TasksOK(Tail(m.tasks), m.usock, m.poll, Closing(m) \ {c}),
         Tail(m.tasks) \in Seq(ListenerTasks),
         m' = AcceptedTask([m EXCEPT !.tasks = Tail(@)], c)
  PROVE  Listens(m')
<1> DEFINE t == Tail(m.tasks)
           e == Ev(c, "ACCEPTED", "STOPPED")
           x == [m EXCEPT !.tasks = Tail(@)]
           y == [x EXCEPT !.c[c].usock = "IDLE"]
<1>1. /\ m.events = <<>> /\ m.c[c].usock = "STOPPING" /\ ListenTyped(m) /\ Good(m)
  BY ListensGood DEF Outside, Closing, Listens
<1>2. c # m.conn
  BY <1>1, OutsideWaits DEF Waits, Cancels, Rec
<1>3. m.c[c] # NoConn
  BY <1>1 DEF NoConn
<1>4. \/ m.ep \in {"ACTIVE", "STOPPING_CONN"} /\ Served(c, m.c[c], {}, m.ep)
      \/ m.ep = "STOPPING_CONNS" /\ Ending(c, m.c[c], {})
  BY <1>2, <1>3, OutsideServed
<1>5. PICK s \in {"STOPPING_USOCK", "STOPPING"} :
         /\ m.c[c] = Rec(s, "STOPPING", "IDLE", NULL)
         /\ s = "STOPPING_USOCK" => ~Ending(c, m.c[c], {})
         /\ s = "STOPPING" => ~Served(c, m.c[c], {}, m.ep)
  <2>1. CASE Served(c, m.c[c], {}, m.ep)
    <3>1. m.c[c] = Rec("STOPPING_USOCK", "STOPPING", "IDLE", NULL)
      BY <1>1, <2>1 DEF Served, Runs, Broken, Quits, Closes, Closed, Fails, Forgotten, Ended, Rec
    <3>2. ~Ending(c, m.c[c], {})
      BY <3>1 DEF Ending, Hangs, Quits, Closes, Closed, Ended, Rec
    <3>3. QED
      BY <3>1, <3>2
  <2>2. CASE Ending(c, m.c[c], {})
    <3>1. m.c[c] = Rec("STOPPING", "STOPPING", "IDLE", NULL)
      BY <1>1, <2>2 DEF Ending, Hangs, Quits, Closes, Closed, Ended, Rec
    <3>2. ~Served(c, m.c[c], {}, m.ep)
      BY <3>1 DEF Served, Runs, Broken, Quits, Closes, Closed, Fails, Forgotten, Ended, Rec
    <3>3. QED
      BY <3>1, <3>2
  <2>3. QED
    BY <1>4, <2>1, <2>2
<1> DEFINE r == Rec(s, "IDLE", "IDLE", NULL)
<1>6. r \in ConnRecord /\ r.usock # "STOPPING" /\ e \in ListenEvent /\ Concerns(e, c)
  <2>1. s \in {"NONE", "ACCEPTING", "ACTIVE", "STOPPING_SESSION", "STOPPING_USOCK", "DONE",
              "STOPPING_SESSION_FINAL", "STOPPING", "IDLE"}
    OBVIOUS
  <2>2. r \in ConnRecord
    BY <2>1 DEF Rec, ConnRecord
  <2>3. r.usock = "IDLE"
    BY DEF Rec
  <2>4. e \in ListenEvent /\ Concerns(e, c)
    BY ConnEvents
  <2>5. QED
    BY <2>2, <2>3, <2>4
<1>7. Changed(m, x, c, m.c[c], m.events, t)
  BY <1>1 DEF Changed, ListenTyped, Apart, ListenFields
<1>8. m' = Raise(y, e)
  <2>1. x.c[c].usock = "STOPPING"
    BY <1>1 DEF ListenTyped, ListenFields
  <2>2. QED
    BY <2>1 DEF AcceptedTask
<1> HIDE DEF t, e, x
<1>9. ListenTyped(x) /\ x.c[c] = Rec(s, "STOPPING", "IDLE", NULL) /\ x.events = m.events
      /\ x.tasks = t
  <2>1. m.c[c] \in ConnRecord /\ m.events \in Seq(ListenEvent)
    BY <1>1 DEF ListenTyped
  <2>2. ListenTyped(x) /\ At(x, c, m.c[c], m.events, t)
    BY <1>1, <1>7, <2>1, ChangedTyped DEF t
  <2>3. QED
    BY <1>5, <2>2 DEF At
<1>10. Changed(x, y, c, r, x.events, x.tasks)
  BY <1>9, ChangeRec
<1> HIDE DEF y, r
<1>11. ListenTyped(y) /\ y.c[c] = r /\ y.events = x.events /\ y.tasks = x.tasks
  BY <1>6, <1>9, <1>10, ChangeTyped
<1>12. Changed(m, m', c, r, <<e>>, t)
  <2>1. Changed(y, Raise(y, e), c, y.c[c], Append(y.events, e), y.tasks)
    BY <1>11, ChangeRaise
  <2>2. Append(y.events, e) = <<e>> /\ y.tasks = t /\ y.c[c] = r
    BY <1>1, <1>9, <1>11, EventNone
  <2>3. Changed(y, m', c, r, <<e>>, t)
    BY <1>8, <2>1, <2>2
  <2>4. m.c \in [Conn -> ConnRecord] /\ x.c \in [Conn -> ConnRecord]
        /\ y.c \in [Conn -> ConnRecord]
    BY <1>1, <1>9, <1>11 DEF ListenTyped
  <2>5. Changed(m, y, c, r, x.events, x.tasks)
    BY <1>7, <1>10, <2>4, ChangedTwice
  <2>6. QED
    BY <2>3, <2>4, <2>5, ChangedTwice
<1>13. Only(m.events, <<e>>, c) /\ Mine(<<e>>, c) = {e}
  <2>1. Only(<<>>, <<e>>, c)
    BY <1>6, EventReplaced
  <2>2. Mine(<<e>>, c) = {d \in {e} : Concerns(d, c)}
    BY <1>6, EventAlone
  <2>3. QED
    BY <1>1, <1>6, <2>1, <2>2
<1>14. Step(m, m', c, r, {e})
  <2>1. Step(m, m', c, r, Mine(<<e>>, c))
    BY <1>1, <1>6, <1>12, <1>13, ChangedStep DEF t
  <2>2. QED
    BY <1>13, <2>1
<1>15. /\ Served(c, m.c[c], {}, m.ep) => Served(c, r, {e}, m.ep)
       /\ Ending(c, m.c[c], {}) => Ending(c, r, {e})
  <2>1. CASE s = "STOPPING_USOCK"
    BY <1>5, <2>1 DEF Served, Closed, r, e
  <2>2. CASE s = "STOPPING"
    BY <1>5, <2>2 DEF Ending, Closed, r, e
  <2>3. QED
    BY <2>1, <2>2
<1>16. QED
  BY <1>2, <1>3, <1>14, <1>15, OutsideListens

\* ListenTask: the worker polls the listening usock, ceases to, or closes a usock.
LEMMA ListenTaskListens ==
  ASSUME Listens(m), ListenTask
  PROVE  Listens(m')
<1> DEFINE h == Head(m.tasks)
           t == Tail(m.tasks)
           x == [m EXCEPT !.tasks = Tail(@)]
           c == m.conn
<1>1. /\ Outside /\ m.tasks # <<>> /\ m.events = <<>>
      /\ m' = IF h[1] = "listener" THEN ListenerTask(x, h[2]) ELSE AcceptedTask(x, h[1])
  BY DEF ListenTask, Outside
<1>2. /\ ListenTyped(m) /\ TasksOK(m.tasks, m.usock, m.poll, Closing(m))
      /\ m.tasks \in Seq(ListenerTasks) /\ Closing(m) \in SUBSET Conn
  BY ListensGood DEF Listens
<1>3. /\ t \in Seq(ListenerTasks)
      /\ \/ \E d \in Closing(m) : h = <<d, "STOP">> /\ TasksOK(t, m.usock, m.poll, Closing(m) \ {d})
         \/ /\ h = <<"listener", "ACCEPT">> /\ m.usock \in {"ACCEPTING", "CANCELLING"}
            /\ TasksOK(t, m.usock, {"FD", "IN"}, Closing(m))
         \/ /\ h = <<"listener", "STOP">> /\ m.usock = "CANCELLING"
            /\ TasksOK(t, "LISTENING", {}, Closing(m))
  BY <1>1, <1>2, TasksTake
<1>4. ASSUME NEW d \in Closing(m), h = <<d, "STOP">>, TasksOK(t, m.usock, m.poll, Closing(m) \ {d})
      PROVE  Listens(m')
  <2>1. d \in Conn /\ d # "listener"
    BY <1>2, ConnNames
  <2>2. m' = AcceptedTask(x, d)
    BY <1>1, <1>4, <2>1
  <2>3. QED
    BY <1>1, <1>3, <1>4, <2>1, <2>2, ClosedListens
<1>5. ASSUME m.usock \in {"ACCEPTING", "CANCELLING"}
      PROVE  /\ Accepting(m) /\ c \in Conn /\ (Waits(m, c) \/ Cancels(m, c))
             /\ Only(m.events, <<>>, c) /\ Len(<<>>) = 0
  <2>1. Accepting(m) /\ c \in Conn
    BY <1>5 DEF Listens, Bound2, Accepting
  <2>2. Only(<<>>, <<>>, c)
    BY <2>1, ConnEvents, EventReplaced
  <2>3. QED
    BY <1>1, <2>1, <2>2, OutsideWaits, EventNone
<1>6. CASE /\ h = <<"listener", "ACCEPT">> /\ m.usock \in {"ACCEPTING", "CANCELLING"}
           /\ TasksOK(t, m.usock, {"FD", "IN"}, Closing(m))
  <2>1. m' = [x EXCEPT !.poll = {"FD", "IN"}]
    BY <1>1, <1>6 DEF ListenerTask
  <2> HIDE DEF c, t
  <2>2. /\ Formed(m') /\ m'.failed = m.failed /\ m'.kind = m.kind /\ m'.file = m.file
        /\ m'.conn = m.conn /\ m'.conns = m.conns
        /\ m'.c = m.c /\ m'.ep = m.ep /\ m'.tasks = t /\ m'.asock = m.asock
        /\ m'.usock = m.usock /\ m'.poll = {"FD", "IN"} /\ m'.owner = m.owner /\ m'.events = <<>>
    BY <1>1, <1>2, <2>1 DEF ListenTyped, ListenFields, Formed, t
  <2>3. Accepting(m) /\ c \in Conn /\ (Waits(m, c) \/ Cancels(m, c))
        /\ Only(m.events, <<>>, c) /\ Len(<<>>) = 0
    BY <1>5, <1>6
  <2>4. Waiting(m', c)
    BY <1>1, <2>2, <2>3 DEF Waiting, Waits, Cancels
  <2>5. m.c = [m.c EXCEPT ![c] = m.c[c]] /\ m.c[c] \in ConnRecord
    BY <1>2, <2>3 DEF ListenTyped
  <2>6. Waiter(m, m', m.c[c])
    BY <2>2, <2>5 DEF Waiter, c
  <2>7. /\ m'.tasks \in Seq(ListenerTasks) /\ TasksOK(m'.tasks, m'.usock, m'.poll, Closing(m))
        /\ Only(m.events, m'.events, m.conn) /\ Len(m'.events) <= 1 /\ Waiting(m', m.conn)
        /\ m'.ep = m.ep
    BY <1>3, <1>6, <2>2, <2>3, <2>4 DEF c
  <2>8. QED
    BY <2>3, <2>5, <2>6, <2>7, WaitingListens
<1>7. CASE /\ h = <<"listener", "STOP">> /\ m.usock = "CANCELLING"
           /\ TasksOK(t, "LISTENING", {}, Closing(m))
  <2> DEFINE e == Ev(c, "ACCEPTED", "STOPPED")
             r == Rec("STOPPING", "IDLE", "IDLE", "ep")
             y == [m EXCEPT !.c[c].usock = "IDLE"]
             w == [y EXCEPT !.tasks = t, !.poll = {}, !.usock = "LISTENING"]
             b == w.aborted \/ \E i \in DOMAIN w.events : SameEvent(w.events[i], e)
  <2>1. /\ Accepting(m) /\ c \in Conn /\ Only(m.events, <<>>, c)
        /\ Cancels(m, c)
    BY <1>5, <1>7 DEF Waits
  <2> HIDE DEF c
  <2>2. /\ m.ep = "STOPPING_CONN" /\ m.c[c] = Rec("STOPPING", "STOPPING_ACCEPT", "IDLE", "ep")
        /\ m.owner = c /\ m.asock = c /\ c = m.conn
    BY <2>1 DEF Cancels, c
  <2>3. Changed(m, y, c, r, m.events, m.tasks)
    BY <1>2, <2>1, <2>2, ChangeRec
  <2>4. r \in ConnRecord /\ e \in ListenEvent /\ Concerns(e, c)
    BY <2>1, RecTyped, ConnEvents
  <2>5. m' = Raise(w, e)
    <3>1. x.asock = c /\ x.usock = "CANCELLING"
      BY <1>2, <1>7, <2>2 DEF ListenTyped, ListenFields
    <3>2. m' = Raise([x EXCEPT !.poll = {}, !.usock = "LISTENING", !.c[c].usock = "IDLE"], e)
      <4>1. m' = ListenerTask(x, "STOP")
        BY <1>1, <1>7
      <4> HIDE DEF x, e
      <4>2. ListenerTask(x, "STOP") =
              Raise([x EXCEPT !.poll = {}, !.usock = "LISTENING", !.c[x.asock].usock = "IDLE"],
                    Ev(x.asock, "ACCEPTED", "STOPPED"))
        BY <3>1 DEF ListenerTask
      <4>3. QED
        BY <3>1, <4>1, <4>2 DEF e
    <3>3. w = [x EXCEPT !.poll = {}, !.usock = "LISTENING", !.c[c].usock = "IDLE"]
      BY <1>2 DEF ListenTyped, ListenFields
    <3>4. QED
      BY <3>2, <3>3
  <2>6. /\ y = [f \in ListenFields |-> y[f]] /\ y.failed = m.failed /\ y.kind = m.kind
        /\ y.file = m.file /\ Apart(m, y)
        /\ y.c = [m.c EXCEPT ![c] = r] /\ y.events = <<>>
        /\ y.c[c] = r
    BY <1>1, <1>2, <2>1, <2>3 DEF Changed, ListenTyped
  <2> HIDE DEF y, r, t
  <2>7. w.events = <<>> /\ Append(<<>>, e) = <<e>>
    BY <2>6, EventNone DEF ListenFields
  <2>8. m' = [w EXCEPT !.events = Append(w.events, e), !.aborted = b]
    BY <2>5 DEF Raise
  <2> HIDE DEF b, e
  <2>9. /\ Formed(m') /\ m'.failed = m.failed /\ m'.kind = m.kind /\ m'.file = m.file
        /\ m'.conn = m.conn /\ m'.conns = m.conns
        /\ m'.c = [m.c EXCEPT ![c] = r] /\ m'.ep = m.ep /\ m'.tasks = t
        /\ m'.usock = "LISTENING" /\ m'.poll = {} /\ m'.owner = c /\ m'.events = <<e>>
        /\ m'.c[c] = r
    BY <2>2, <2>6, <2>7, <2>8 DEF ListenFields, Formed, Apart
  <2>10. Waiting(m', c)
    BY <2>2, <2>9 DEF Waiting, Cancelled, r, e
  <2>11. Only(m.events, m'.events, c) /\ Len(m'.events) <= 1
    <3>1. Only(<<>>, <<e>>, c)
      BY <2>1, <2>4, EventReplaced
    <3>2. Len(<<e>>) = 1
      BY <2>4, EventAlone
    <3>3. m.events = <<>> /\ m'.events = <<e>>
      BY <1>1, <2>9
    <3>4. Len(m'.events) <= 1
      BY <3>2, <3>3
    <3>5. Only(m.events, m'.events, c)
      BY <3>1, <3>3
    <3>6. QED
      BY <3>4, <3>5
  <2>12. Waiter(m, m', r) /\ m'.tasks \in Seq(ListenerTasks)
         /\ TasksOK(m'.tasks, m'.usock, m'.poll, Closing(m)) /\ m'.ep = m.ep
    BY <1>3, <1>7, <2>2, <2>9 DEF Waiter
  <2>13. Only(m.events, m'.events, m.conn) /\ Waiting(m', m.conn)
    BY <2>2, <2>10, <2>11
  <2>14. QED
    BY <2>1, <2>4, <2>11, <2>12, <2>13, WaitingListens
<1>8. QED
  BY <1>3, <1>4, <1>6, <1>7

\* The worker is to cease to poll the listening usock.
Cancelling(x, y, c) ==
    /\ y.c = [x.c EXCEPT ![c] = Rec("STOPPING", "STOPPING_ACCEPT", "IDLE", "ep")]
    /\ y.usock = "CANCELLING" /\ y.tasks = Append(x.tasks, <<"listener", "STOP">>)
    /\ Formed(y) /\ \A f \in ListenFields \ {"c", "usock", "tasks", "aborted"} : y[f] = x[f]

\* nn_a*_stop of the connection that waits for a peer.
LEMMA WaiterStops ==
  ASSUME NEW x, NEW c \in Conn, ListenTyped(x), x.events = <<>>, x.usock = "ACCEPTING",
         x.c[c] = Rec("ACCEPTING", "BEING_ACCEPTED", "IDLE", "ep")
  PROVE  Cancelling(x, ConnStop(x, c), c)
<1> DEFINE F == "STOPPING_SESSION_FINAL"
           x1 == [x EXCEPT !.c[c].state = F]
           x2 == [x1 EXCEPT !.c[c].state = "STOPPING"]
           x3 == [x2 EXCEPT !.c[c].usock = "STOPPING_ACCEPT"]
           r1 == Rec(F, "BEING_ACCEPTED", "IDLE", "ep")
           r2 == Rec("STOPPING", "BEING_ACCEPTED", "IDLE", "ep")
           r3 == Rec("STOPPING", "STOPPING_ACCEPT", "IDLE", "ep")
           w == [x3 EXCEPT !.usock = "CANCELLING"]
           t == <<"listener", "STOP">>
           b == w.aborted \/ \E i \in DOMAIN w.tasks : w.tasks[i] = t
           y == [w EXCEPT !.tasks = Append(w.tasks, t), !.aborted = b]
<1>1. r1 \in ConnRecord /\ r2 \in ConnRecord /\ r3 \in ConnRecord
  BY RecTyped
<1>2. ConnStop(x, c) = ConnFinish(x1, c)
  <2>1. x.c[c].state = "ACCEPTING" /\ x.c[c].session = "IDLE"
    BY RecFields
  <2>2. ServedStop(x, c) = x
    BY <2>1 DEF ServedStop
  <2> HIDE DEF y, w, x3, x2
  <2>3. QED
    BY <2>1, <2>2 DEF ConnStop
<1>3. Changed(x, x1, c, r1, x.events, x.tasks)
  BY ChangeRec
<1> HIDE DEF x1, r1
<1>4. ListenTyped(x1) /\ x1.c[c] = r1 /\ x1.events = x.events /\ x1.tasks = x.tasks
  BY <1>1, <1>3, ChangeTyped
<1>5. Changed(x1, x2, c, r2, x1.events, x1.tasks)
  BY <1>4, ChangeRec DEF r1
<1> HIDE DEF x2, r2
<1>6. ListenTyped(x2) /\ x2.c[c] = r2 /\ x2.events = x1.events /\ x2.tasks = x1.tasks
  BY <1>1, <1>4, <1>5, ChangeTyped
<1>7. Changed(x2, x3, c, r3, x2.events, x2.tasks)
  BY <1>6, ChangeRec DEF r2
<1> HIDE DEF x3, r3
<1>8. ListenTyped(x3) /\ x3.c[c] = r3 /\ x3.events = x2.events /\ x3.tasks = x2.tasks
  BY <1>1, <1>6, <1>7, ChangeTyped
<1>9. /\ Changed(x, x2, c, r2, x1.events, x1.tasks) /\ Changed(x, x3, c, r3, x2.events, x2.tasks)
  <2>1. x.c \in [Conn -> ConnRecord] /\ x1.c \in [Conn -> ConnRecord]
        /\ x2.c \in [Conn -> ConnRecord]
    BY <1>4, <1>6 DEF ListenTyped
  <2>2. Changed(x, x2, c, r2, x1.events, x1.tasks)
    BY <1>3, <1>5, <2>1, ChangedTwice
  <2>3. QED
    BY <1>7, <2>1, <2>2, ChangedTwice
<1>10. /\ x2.usock = "ACCEPTING" /\ x3.usock = "ACCEPTING"
  BY <1>9 DEF Changed, Apart
<1>11. AcceptedStop(x2, c) = y
  <2>1. x2.c[c].usock = "BEING_ACCEPTED"
    BY <1>6 DEF r2, Rec
  <2>2. w = [x2 EXCEPT !.c[c].usock = "STOPPING_ACCEPT", !.usock = "CANCELLING"]
    BY <1>6 DEF x3, ListenTyped, ListenFields
  <2>3. AcceptedStop(x2, c) = Execute(w, "listener", "STOP")
    BY <1>10, <2>1, <2>2 DEF AcceptedStop
  <2> HIDE DEF w
  <2>4. QED
    BY <2>3 DEF Execute
<1> HIDE DEF b
<1>12. /\ Formed(y) /\ y.usock = "CANCELLING" /\ y.c = [x.c EXCEPT ![c] = r3]
       /\ y.c[c] = r3 /\ y.events = <<>>
       /\ y.tasks = Append(x.tasks, t)
  <2>1. x3.c = [x.c EXCEPT ![c] = r3] /\ x3.tasks = x.tasks
    BY <1>4, <1>6, <1>9 DEF Changed
  <2>2. x3.events = <<>>
    BY <1>4, <1>6, <1>8
  <2> HIDE DEF t
  <2>3. QED
    BY <1>8, <2>1, <2>2 DEF Formed, ListenTyped, ListenFields
<1>13. \A f \in ListenFields \ {"c", "usock", "tasks", "aborted"} : y[f] = x[f]
  <2>1. \A f \in ListenFields \ {"c", "usock", "tasks", "aborted"} : y[f] = x3[f]
    BY <1>8 DEF ListenTyped, ListenFields
  <2>2. \A f \in ListenFields \ {"c", "usock", "tasks", "aborted"} : x3[f] = x[f]
    <3>1. \A f \in ListenFields \ {"c"} : x1[f] = x[f]
      BY DEF ListenTyped, x1
    <3>2. \A f \in ListenFields \ {"c"} : x2[f] = x1[f]
      BY <1>4 DEF ListenTyped, x2
    <3>3. \A f \in ListenFields \ {"c"} : x3[f] = x2[f]
      BY <1>6 DEF ListenTyped, x3
    <3>4. QED
      BY <3>1, <3>2, <3>3
  <2>3. QED
    BY <2>1, <2>2
<1> HIDE DEF y
<1>14. ConnFinish(x1, c) = y
  <2>1. x1.c[c].state = F /\ x1.c[c].session = "IDLE"
    BY <1>4 DEF r1, Rec
  <2>2. ServedIdle(x1, c)
    BY <1>4, <2>1, IdleByEvents, EventNone
  <2>3. y.c[c].usock = "STOPPING_ACCEPT"
    BY <1>12 DEF r3, Rec
  <2>4. ~AcceptedIdle(y, c)
    BY <2>3 DEF AcceptedIdle
  <2>5. QED
    BY <1>11, <2>1, <2>2, <2>4 DEF ConnFinish, x2
<1>15. QED
  BY <1>2, <1>12, <1>13, <1>14 DEF r3, t, Cancelling

\* ListenStop: the connection that waits for a peer is stopped first.
LEMMA ListenStopListens ==
  ASSUME Listens(m), ListenStop
  PROVE  Listens(m')
<1> DEFINE c == m.conn
           r == Rec("STOPPING", "STOPPING_ACCEPT", "IDLE", "ep")
           x == [m EXCEPT !.ep = "STOPPING_CONN"]
           y == ConnStop(x, c)
<1>1. Outside /\ m.ep = "ACTIVE" /\ m.events = <<>>
  BY DEF ListenStop, Outside
<1>2. Accepting(m) /\ c \in Conn /\ c # NULL
  BY <1>1, ConnNames DEF Listens, Bound2, Accepting, Unbinding, Leaving, Gone
<1>3. Waits(m, c)
  BY <1>1, <1>2, OutsideWaits DEF Cancels
<1>4. m' = FinishBound(y)
  BY <1>2 DEF ListenStop
<1> HIDE DEF c
<1>5. /\ m.owner = c /\ m.asock = c /\ m.usock = "ACCEPTING" /\ c = m.conn
      /\ m.c[c] = Rec("ACCEPTING", "BEING_ACCEPTED", "IDLE", "ep")
  BY <1>3 DEF Waits, c
<1>6. /\ ListenTyped(m) /\ TasksOK(m.tasks, m.usock, m.poll, Closing(m))
      /\ m.tasks \in Seq(ListenerTasks) /\ Closing(m) \in SUBSET Conn
  BY ListensGood DEF Listens
<1>7. /\ ListenTyped(x) /\ x.events = <<>> /\ x.usock = "ACCEPTING" /\ x.c = m.c
      /\ x.ep = "STOPPING_CONN"
      /\ x.failed = m.failed /\ x.kind = m.kind /\ x.file = m.file /\ x.conn = c
      /\ x.conns = m.conns /\ x.poll = m.poll
      /\ x.owner = c /\ x.asock = c /\ x.tasks = m.tasks
  BY <1>1, <1>5, <1>6 DEF ListenTyped, ListenFields
<1> HIDE DEF x
<1>8. /\ y.c = [m.c EXCEPT ![c] = r] /\ y.usock = "CANCELLING"
      /\ y.tasks = Append(m.tasks, <<"listener", "STOP">>) /\ Formed(y)
      /\ \A f \in ListenFields \ {"c", "usock", "tasks", "aborted"} : y[f] = x[f]
  <2>1. x.c[c] = Rec("ACCEPTING", "BEING_ACCEPTED", "IDLE", "ep")
    BY <1>5, <1>7
  <2>2. Cancelling(x, y, c)
    BY <1>2, <1>7, <2>1, WaiterStops
  <2> HIDE DEF y
  <2>3. QED
    BY <1>7, <2>2 DEF Cancelling
<1> HIDE DEF y
<1>9. /\ y.failed = m.failed /\ y.kind = m.kind /\ y.file = m.file /\ y.conn = c
      /\ y.conns = m.conns /\ y.poll = m.poll
      /\ y.owner = c /\ y.asock = c /\ y.ep = "STOPPING_CONN" /\ y.events = <<>>
  BY <1>7, <1>8 DEF ListenFields
<1>10. r \in ConnRecord /\ r.state = "STOPPING"
  BY RecTyped, RecFields
<1> HIDE DEF r
<1>11. y.c[c] = r
  BY <1>2, <1>6, <1>8 DEF ListenTyped
<1>12. m' = y
  <2>1. ~ConnIdle(y, y.conn)
    BY <1>9, <1>10, <1>11 DEF ConnIdle, FsmIdle
  <2>2. FinishWaiting(y) = y
    BY <2>1 DEF FinishWaiting
  <2>3. FinishListening(y) = y
    BY <1>9 DEF FinishListening
  <2>4. QED
    BY <1>4, <2>2, <2>3 DEF FinishBound
<1>13. Waiting(y, c)
  <2>1. Mine(y.events, c) = {}
    BY <1>9, EventNone
  <2>2. QED
    BY <1>8, <1>9, <1>11, <2>1 DEF Waiting, Cancels, r
<1>14. y.tasks \in Seq(ListenerTasks) /\ TasksOK(y.tasks, y.usock, y.poll, Closing(m))
  <2>1. /\ Append(m.tasks, <<"listener", "STOP">>) \in Seq(ListenerTasks)
        /\ TasksOK(Append(m.tasks, <<"listener", "STOP">>), "CANCELLING", m.poll, Closing(m))
    BY <1>5, <1>6, TasksListener
  <2>2. QED
    BY <1>8, <1>9, <2>1
<1>15. Only(m.events, y.events, c) /\ Len(y.events) <= 1
  <2>1. Only(<<>>, <<>>, c)
    BY <1>2, ConnEvents, EventReplaced
  <2>2. y.events = <<>> /\ Len(<<>>) = 0
    BY <1>9, EventNone
  <2>3. QED
    BY <1>1, <2>1, <2>2
<1>16. Waiter(m, y, r)
  BY <1>5, <1>8, <1>9 DEF Waiter
<1>17. QED
  <2>1. Only(m.events, y.events, m.conn) /\ Waiting(y, m.conn)
    BY <1>5, <1>13, <1>15
  <2>2. y.ep = "STOPPING_CONN"
    BY <1>9
  <2>3. Listens(y)
    BY <1>1, <1>2, <1>10, <1>14, <1>15, <1>16, <2>1, <2>2, WaitingListens
  <2>4. QED
    BY <1>12, <2>3

\* ConnFinishing of an accepted connection.
LEMMA ServedFinishingListens ==
  ASSUME NEW c \in Conn, Listens(m), ConnFinishing(c), c # m.conn
  PROVE  Listens(m')
<1> DEFINE e == Head(m.events)
<1>1. /\ m.events # <<>> /\ e.to = c /\ m' = ConnFinish(Rest, c)
      /\ m.c[c].state \in {"STOPPING_SESSION_FINAL", "STOPPING"}
  BY DEF ConnFinishing, OnAny
<1>2. Concerns(e, c)
  BY <1>1 DEF Concerns
<1>3. Step(m, Rest, c, m.c[c], {})
  BY <1>1, <1>2, RestServed
<1>4. Ending(c, m.c[c], {e}) /\ ~Served(c, m.c[c], {e}, m.ep)
  <2>1. ~Served(c, m.c[c], {e}, m.ep)
    BY <1>1 DEF Served, Runs, Broken, Quits, Closes, Closed, Fails, Forgotten, Ended, Rec
  <2>2. Served(c, m.c[c], {e}, m.ep) \/ Ending(c, m.c[c], {e})
    BY <1>1, <1>2, RestServed
  <2>3. QED
    BY <2>1, <2>2
<1> HIDE DEF e
<1>5. \E s, u, n : /\ m.c[c] = Rec(s, u, n, NULL)
                   /\ \/ s = "STOPPING_SESSION_FINAL" /\ n = "IDLE" /\ u \in {"ACTIVE", "DONE"}
                      \/ s = "STOPPING" /\ u \in {"STOPPING", "IDLE"} /\ n = "IDLE"
  <2>1. ~Hangs(c, m.c[c], {e})
    BY DEF Hangs
  <2>2. ~Ended(c, m.c[c], {e})
    BY <1>1 DEF Ended, Rec
  <2>3. CASE Quits(c, m.c[c], {e}, "STOPPING_SESSION_FINAL")
    BY <2>3 DEF Quits
  <2>4. CASE Closes(c, m.c[c], {e}, "STOPPING")
    BY <2>4 DEF Closes
  <2>5. CASE Closed(c, m.c[c], {e}, "STOPPING")
    BY <2>5 DEF Closed
  <2>6. QED
    BY <1>4, <2>1, <2>2, <2>3, <2>4, <2>5 DEF Ending
<1> DEFINE x == Rest
<1> HIDE DEF x
<1>6. Good(x) /\ x.c[c] = m.c[c] /\ Mine(x.events, c) = {}
  BY <1>3, StepGood DEF x
<1>7. PICK s, u, n : /\ m.c[c] = Rec(s, u, n, NULL)
                     /\ \/ s = "STOPPING_SESSION_FINAL" /\ n = "IDLE" /\ u \in {"ACTIVE", "DONE"}
                        \/ s = "STOPPING" /\ u \in {"STOPPING", "IDLE"} /\ n = "IDLE"
  BY <1>5
<1>8. \E r, A : Step(x, ConnFinish(x, c), c, r, A) /\ Ending(c, r, A)
  <2>1. x.c[c] = Rec(s, u, n, NULL)
    BY <1>6, <1>7
  <2>2. \/ /\ s = "STOPPING_SESSION_FINAL" /\ n = "IDLE" /\ Mine(x.events, c) = {}
           /\ u \in {"ACTIVE", "DONE", "IDLE", "STOPPING"}
        \/ s = "STOPPING" /\ u \in {"STOPPING", "IDLE"} /\ n = "IDLE" /\ Mine(x.events, c) = {}
    BY <1>6, <1>7
  <2>3. QED
    BY <1>6, <2>1, <2>2, StepFinish
<1>9. PICK r, A : Step(x, ConnFinish(x, c), c, r, A) /\ Ending(c, r, A)
  BY <1>8
<1>10. Step(Rest, m', c, r, A)
  BY <1>1, <1>9 DEF x
<1>11. QED
  BY <1>1, <1>2, <1>4, <1>9, <1>10, HandledListens DEF e

\* ConnFinishing of the connection that waits: it returns the listening usock.
LEMMA WaiterFinishingListens ==
  ASSUME NEW c \in Conn, Listens(m), ConnFinishing(c), c = m.conn
  PROVE  Listens(m')
<1> DEFINE e == Head(m.events)
           f == Ev("ep", c, "STOPPED")
           r == Rec("IDLE", "IDLE", "IDLE", NULL)
           r1 == Rec("STOPPING", "IDLE", "IDLE", NULL)
           x == Rest
           x1 == ReturnListener(x, c)
           x2 == [x1 EXCEPT !.c[c].state = "IDLE"]
<1>1. /\ m.events # <<>> /\ e.to = c /\ m' = ConnFinish(x, c)
      /\ m.c[c].state \in {"STOPPING_SESSION_FINAL", "STOPPING"}
  BY DEF ConnFinishing, OnAny
<1>2. Concerns(e, c) /\ f \in ListenEvent /\ Concerns(f, c) /\ "ep" # NULL
  BY <1>1, ConnEvents, ConnNames DEF Concerns
<1>3. c \notin Range(m.conns)
  BY DEF Listens, Bound2, Members
<1>4. Accepting(m) /\ m.events = <<e>>
      /\ (Greets(m, c) \/ Lacks(m, c) \/ Hands(m, c) \/ Cancelled(m, c) \/ Returned(m, c))
  BY <1>1, <1>2, <1>3, WaitingAlone
<1>5. Cancelled(m, c)
  BY <1>1, <1>4 DEF Greets, Lacks, Hands, Returned, Rec
<1>6. /\ m.ep = "STOPPING_CONN" /\ m.c[c] = Rec("STOPPING", "IDLE", "IDLE", "ep")
      /\ m.usock = "LISTENING" /\ ListenTyped(m)
      /\ TasksOK(m.tasks, m.usock, m.poll, Closing(m)) /\ m.tasks \in Seq(ListenerTasks)
  BY <1>5, ListensGood DEF Cancelled, Listens
<1>7. e \in ListenEvent
  BY <1>4, <1>5, ConnEvents, EventAlone DEF Cancelled
<1> HIDE DEF e, f
<1>8. x = [m EXCEPT !.events = <<>>] /\ x.c = m.c /\ x.events = <<>>
  <2>1. Tail(m.events) = <<>>
    BY <1>4, <1>7, EventAlone
  <2>2. QED
    BY <1>6, <2>1 DEF Rest, ListenTyped, ListenFields
<1> HIDE DEF x
<1>9. x.c[c].state = "STOPPING" /\ x.c[c].usock = "IDLE" /\ x.c[c].saved = "ep"
  BY <1>6, <1>8, RecFields
<1>10. m' = Raise(x2, f)
  <2>1. ~(x.c[c].state = "STOPPING_SESSION_FINAL" /\ ServedIdle(x, c))
    BY <1>9
  <2>2. AcceptedIdle(x, c)
    <3>1. \A i \in DOMAIN x.events : x.events[i] # Ev(c, "ACCEPTED", "STOPPED")
      BY <1>8
    <3>2. QED
      BY <1>9, <3>1 DEF AcceptedIdle
  <2>3. QED
    BY <1>1, <1>9, <2>1, <2>2 DEF ConnFinish, f
<1>11. /\ r1 \in ConnRecord /\ r \in ConnRecord
  BY RecTyped
<1>12. /\ Formed(x1) /\ x1.c = [m.c EXCEPT ![c] = r1] /\ x1.owner = "ep" /\ x1.events = <<>>
       /\ x1.failed = m.failed /\ x1.kind = m.kind /\ x1.file = m.file /\ x1.conn = m.conn
       /\ x1.conns = m.conns /\ x1.ep = m.ep
       /\ x1.tasks = m.tasks /\ x1.usock = m.usock /\ x1.poll = m.poll
  <2> DEFINE p == [m.c[c] EXCEPT !.saved = NULL]
  <2>1. p = r1
    BY <1>6 DEF Rec
  <2>2. x1 = [x EXCEPT !.owner = "ep", !.c[c].saved = NULL]
    BY <1>2, <1>9 DEF ReturnListener
  <2>3. x1 = [x EXCEPT !.owner = "ep", !.c = [m.c EXCEPT ![c] = p]]
    BY <1>6, <1>8, <2>2 DEF ListenTyped, ListenFields
  <2> HIDE DEF p, r1, x1
  <2>4. x1 = [m EXCEPT !.events = <<>>, !.owner = "ep", !.c = [m.c EXCEPT ![c] = r1]]
    BY <1>6, <1>8, <2>1, <2>3 DEF ListenTyped, ListenFields
  <2>5. QED
    BY <1>6, <2>4 DEF ListenTyped, ListenFields, Formed
<1> HIDE DEF x1
<1>13. ListenTyped(x1) /\ x1.c[c] = r1
  <2> HIDE DEF r1
  <2>1. x1.c \in [Conn -> ConnRecord] /\ x1.c[c] = r1
    BY <1>6, <1>11, <1>12 DEF ListenTyped
  <2>2. QED
    BY <1>6, <1>12, <2>1, EventNone DEF ListenTyped, Formed
<1>14. Changed(x1, x2, c, r, x1.events, x1.tasks)
  BY <1>13, ChangeRec
<1> HIDE DEF x2, r, r1
<1>15. ListenTyped(x2) /\ x2.c[c] = r /\ x2.events = x1.events /\ x2.tasks = x1.tasks
  BY <1>11, <1>13, <1>14, ChangeTyped
<1>16. Changed(x1, m', c, r, <<f>>, m.tasks)
  <2>1. Changed(x2, Raise(x2, f), c, x2.c[c], Append(x2.events, f), x2.tasks)
    BY <1>15, ChangeRaise
  <2>2. Append(x2.events, f) = <<f>> /\ x2.tasks = m.tasks
    BY <1>12, <1>15, EventNone
  <2>3. Changed(x2, m', c, r, <<f>>, m.tasks)
    BY <1>10, <1>15, <2>1, <2>2
  <2>4. x1.c \in [Conn -> ConnRecord] /\ x2.c \in [Conn -> ConnRecord]
    BY <1>13, <1>15 DEF ListenTyped
  <2>5. QED
    BY <1>14, <2>3, <2>4, ChangedTwice
<1>17. /\ Formed(m') /\ m'.failed = m.failed /\ m'.kind = m.kind /\ m'.file = m.file
       /\ m'.conn = m.conn
       /\ m'.conns = m.conns /\ m'.c = [m.c EXCEPT ![c] = r] /\ m'.ep = m.ep
       /\ m'.tasks = m.tasks /\ m'.usock = m.usock /\ m'.poll = m.poll /\ m'.owner = "ep"
       /\ m'.events = <<f>>
  BY <1>6, <1>12, <1>16 DEF Changed, Apart, Formed, ListenTyped
<1>18. m'.c[c] = r
  BY <1>6, <1>17 DEF ListenTyped
<1>19. Waiting(m', c)
  BY <1>6, <1>17, <1>18 DEF Waiting, Returned, r, f
<1>20. Only(m.events, m'.events, c) /\ Len(m'.events) <= 1
  <2>1. Only(<<e>>, <<f>>, c)
    BY <1>2, <1>7, EventReplaced
  <2>2. Len(<<f>>) = 1
    BY <1>2, EventAlone
  <2>3. m.events = <<e>> /\ m'.events = <<f>>
    BY <1>4, <1>17
  <2>4. Len(m'.events) <= 1
    BY <2>2, <2>3
  <2>5. QED
    BY <2>1, <2>3, <2>4
<1>21. m'.tasks \in Seq(ListenerTasks) /\ TasksOK(m'.tasks, m'.usock, m'.poll, Closing(m))
  BY <1>6, <1>17
<1>22. QED
  <2>1. Waiter(m, m', r) /\ Only(m.events, m'.events, m.conn) /\ Waiting(m', m.conn)
        /\ m'.ep = m.ep
    BY <1>17, <1>19, <1>20 DEF Waiter
  <2>2. QED
    BY <1>4, <1>11, <1>20, <1>21, <2>1, WaitingListens

-----------------------------------------------------------------------------
(* The endpoint forgets a connection.                                        *)

\* Removing an element of a sequence.
LEMMA RemovedAt ==
  ASSUME NEW S, NEW q \in Seq(S), Distinct(q), NEW i \in DOMAIN q
  PROVE  /\ RemoveAt(q, i) \in Seq(S) /\ Distinct(RemoveAt(q, i))
         /\ Range(RemoveAt(q, i)) = Range(q) \ {q[i]}
<1> DEFINE n == Len(q)
           a == SubSeq(q, 1, i - 1)
           b == SubSeq(q, i + 1, n)
           r == a \o b
<1>1. n \in Nat /\ DOMAIN q = 1..n /\ i \in 1..n /\ \A k \in 1..n : q[k] \in S
  BY LenProperties
<1>2. /\ a \in Seq(S) /\ Len(a) = i - 1
      /\ \A k \in 1..i - 1 : a[k] = q[k]
  <2>1. 1 \in Int /\ i - 1 \in Int /\ \A k \in 1..i - 1 : q[k] \in S
    BY <1>1
  <2>2. /\ a \in Seq(S) /\ Len(a) = IF 1 <= i - 1 THEN (i - 1) - 1 + 1 ELSE 0
        /\ \A k \in 1..(i - 1) - 1 + 1 : a[k] = q[1 + k - 1]
    BY <2>1, SubSeqProperties
  <2> HIDE DEF a, n
  <2>3. Len(a) = i - 1
    BY <1>1, <2>2
  <2>4. (i - 1) - 1 + 1 = i - 1 /\ \A k \in 1..i - 1 : 1 + k - 1 = k
    BY <1>1
  <2>5. QED
    BY <2>2, <2>3, <2>4
<1>3. /\ b \in Seq(S) /\ Len(b) = n - i
      /\ \A k \in 1..n - i : b[k] = q[i + k]
  <2>1. i + 1 \in Int /\ n \in Int /\ \A k \in i + 1..n : q[k] \in S
    BY <1>1
  <2>2. /\ b \in Seq(S) /\ Len(b) = IF i + 1 <= n THEN n - (i + 1) + 1 ELSE 0
        /\ \A k \in 1..n - (i + 1) + 1 : b[k] = q[(i + 1) + k - 1]
    BY <2>1, SubSeqProperties
  <2> HIDE DEF b, n
  <2>3. Len(b) = n - i
    BY <1>1, <2>2
  <2>4. n - (i + 1) + 1 = n - i /\ \A k \in 1..n - i : (i + 1) + k - 1 = i + k
    BY <1>1
  <2>5. QED
    BY <2>2, <2>3, <2>4
<1> HIDE DEF a, b, n
<1>4. /\ r \in Seq(S) /\ Len(r) = n - 1
      /\ \A k \in 1..n - 1 : r[k] = IF k < i THEN q[k] ELSE q[k + 1]
  <2>1. /\ r \in Seq(S) /\ Len(r) = (i - 1) + (n - i)
        /\ \A k \in 1..(i - 1) + (n - i) : r[k] = IF k <= i - 1 THEN a[k] ELSE b[k - (i - 1)]
    <3>1. /\ r \in Seq(S) /\ Len(r) = Len(a) + Len(b)
          /\ \A k \in 1..Len(a) + Len(b) : r[k] = IF k <= Len(a) THEN a[k] ELSE b[k - Len(a)]
      <4>1. a \in Seq(S) /\ b \in Seq(S)
        BY <1>2, <1>3
      <4>2. QED
        BY <4>1, ConcatProperties
    <3> HIDE DEF r
    <3>2. Len(a) = i - 1 /\ Len(b) = n - i
      BY <1>2, <1>3
    <3>3. QED
      BY <3>1, <3>2
  <2> HIDE DEF r
  <2>2. (i - 1) + (n - i) = n - 1
    BY <1>1
  <2>3. ASSUME NEW k \in 1..n - 1
        PROVE  r[k] = IF k < i THEN q[k] ELSE q[k + 1]
    <3>1. r[k] = IF k <= i - 1 THEN a[k] ELSE b[k - (i - 1)]
      BY <2>1, <2>2
    <3>2. CASE k < i
      BY <1>1, <1>2, <3>1, <3>2
    <3>3. CASE ~(k < i)
      <4>1. k - (i - 1) \in 1..n - i /\ i + (k - (i - 1)) = k + 1 /\ ~(k <= i - 1)
        BY <1>1, <3>3
      <4>2. b[k - (i - 1)] = q[k + 1]
        BY <1>3, <4>1
      <4>3. QED
        BY <3>1, <3>3, <4>1, <4>2
    <3>4. QED
      BY <3>2, <3>3
  <2>4. QED
    BY <2>1, <2>2, <2>3
<1>5. DOMAIN r = 1..n - 1
  BY <1>4, LenProperties
<1> HIDE DEF r
<1> DEFINE p(k) == IF k < i THEN k ELSE k + 1
<1>6. \A k \in 1..n - 1 : p(k) \in 1..n /\ p(k) # i /\ r[k] = q[p(k)]
  BY <1>1, <1>4
<1>7. \A k, l \in 1..n - 1 : p(k) = p(l) => k = l
  BY <1>1
<1>8. \A k \in 1..n : k # i => \E l \in 1..n - 1 : p(l) = k
  <2> TAKE k \in 1..n
  <2>1. CASE k < i
    <3>1. k \in 1..n - 1 /\ p(k) = k
      BY <1>1, <2>1
    <3>2. QED
      BY <3>1
  <2>2. CASE k > i
    <3>1. k - 1 \in 1..n - 1 /\ p(k - 1) = k
      BY <1>1, <2>2
    <3>2. QED
      BY <3>1
  <2>3. QED
    BY <1>1, <2>1, <2>2
<1> HIDE DEF p
<1>9. Distinct(r)
  <2>1. ASSUME NEW k \in 1..n - 1, NEW l \in 1..n - 1, r[k] = r[l] PROVE k = l
    <3>1. q[p(k)] = q[p(l)] /\ p(k) \in DOMAIN q /\ p(l) \in DOMAIN q
      BY <1>1, <1>6, <2>1
    <3>2. QED
      BY <1>7, <3>1 DEF Distinct
  <2>2. QED
    BY <1>5, <2>1 DEF Distinct
<1>10. \A d \in Range(r) : d \in Range(q) /\ d # q[i]
  BY <1>1, <1>5, <1>6 DEF Range, Distinct
<1>11. \A d \in Range(q) : d # q[i] => d \in Range(r)
  <2> TAKE d \in Range(q)
  <2>1. PICK k \in 1..n : d = q[k]
    BY <1>1 DEF Range
  <2>2. ASSUME d # q[i] PROVE d \in Range(r)
    <3>1. PICK l \in 1..n - 1 : p(l) = k
      BY <1>8, <2>1, <2>2
    <3>2. r[l] = d
      BY <1>6, <2>1, <3>1
    <3>3. QED
      BY <1>5, <3>2 DEF Range
  <2>3. QED
    BY <2>2
<1>12. RemoveAt(q, i) = r
  BY DEF RemoveAt, r, a, b, n
<1>13. QED
  BY <1>4, <1>9, <1>10, <1>11, <1>12

\* RemoveConn.
Removed(x, y, c) ==
    /\ y.conns \in Seq(Conn) /\ Distinct(y.conns) /\ Range(y.conns) = Range(x.conns) \ {c}
    /\ y.c = [x.c EXCEPT ![c] = NoConn] /\ Formed(y)
    /\ \A f \in ListenFields \ {"c", "conns"} : y[f] = x[f]

\* It leaves everything else.
LEMMA ConnRemoved ==
  ASSUME NEW x, NEW c \in Conn, ListenTyped(x), Distinct(x.conns), c \in Range(x.conns)
  PROVE  Removed(x, RemoveConn(x, c), c)
<1> DEFINE i == CHOOSE i \in DOMAIN x.conns : x.conns[i] = c
           q == RemoveAt(x.conns, i)
           y == RemoveConn(x, c)
<1>1. i \in DOMAIN x.conns /\ x.conns[i] = c
  <2>1. \E k \in DOMAIN x.conns : x.conns[k] = c
    BY DEF Range
  <2>2. QED
    BY <2>1
<1>2. y = [x EXCEPT !.conns = q, !.c[c] = NoConn]
  BY DEF RemoveConn
<1> HIDE DEF i, y
<1>3. q \in Seq(Conn) /\ Distinct(q) /\ Range(q) = Range(x.conns) \ {c}
  <2>1. x.conns \in Seq(Conn)
    BY DEF ListenTyped
  <2>2. QED
    BY <1>1, <2>1, RemovedAt
<1> HIDE DEF q
<1>4. /\ y.conns = q /\ y.c = [x.c EXCEPT ![c] = NoConn] /\ Formed(y)
      /\ \A f \in ListenFields \ {"c", "conns"} : y[f] = x[f]
  BY <1>2 DEF ListenTyped, ListenFields, Formed
<1>5. QED
  BY <1>3, <1>4 DEF y, Removed

\* What is left of the endpoint is in order.
LEMMA RemovedInOrder ==
  ASSUME NEW c \in Conn, Listens(m), m.events # <<>>, Concerns(Head(m.events), c), c # m.conn,
         NEW r, m.c[c] = r, r.usock # "STOPPING"
  PROVE  /\ ListenTyped(RemoveConn(Rest, c)) /\ Members(RemoveConn(Rest, c))
         /\ TasksOK(RemoveConn(Rest, c).tasks, RemoveConn(Rest, c).usock, RemoveConn(Rest, c).poll,
                    Closing(RemoveConn(Rest, c)))
         /\ \A f \in ListenFields \ {"c", "conns", "events", "tasks", "errnum",
                                    "timer", "armed", "odd", "aborted"} :
               RemoveConn(Rest, c)[f] = m[f]
         /\ c \in Range(m.conns) /\ Range(RemoveConn(Rest, c).conns) = Range(m.conns) \ {c}
         /\ RemoveConn(Rest, c).events = Tail(m.events)
         /\ \A d \in Conn \ {c} : /\ RemoveConn(Rest, c).c[d] = m.c[d]
                                  /\ Mine(RemoveConn(Rest, c).events, d) = Mine(m.events, d)
<1> DEFINE x == Rest
           y == RemoveConn(x, c)
<1>1. c \in Range(m.conns) /\ Step(m, x, c, m.c[c], {})
  BY RestServed
<1>2. ListenTyped(m) /\ Members(m) /\ m.events \in Seq(ListenEvent)
  BY ListensGood DEF Listens, Bound2
<1>3. x.events = Tail(m.events)
  BY <1>2 DEF Rest, ListenTyped, ListenFields
<1> HIDE DEF x
<1>4. /\ ListenTyped(x) /\ TasksOK(x.tasks, x.usock, x.poll, Closing(x)) /\ Apart(m, x)
      /\ x.failed = m.failed /\ x.kind = m.kind /\ x.file = m.file /\ x.c[c] = m.c[c]
      /\ \A d \in Conn \ {c} : x.c[d] = m.c[d]
      /\ Only(m.events, x.events, c) /\ Mine(x.events, c) = {}
  BY <1>1 DEF Step, Good
<1>5. x.conns = m.conns /\ x.conn = m.conn /\ x.ep = m.ep
  BY <1>4 DEF Apart
<1>6. Distinct(x.conns) /\ c \in Range(x.conns)
  BY <1>1, <1>2, <1>5 DEF Members
<1>7. Removed(x, y, c)
  BY <1>4, <1>6, ConnRemoved
<1> HIDE DEF y
<1>20. /\ y.conns \in Seq(Conn) /\ Distinct(y.conns) /\ Range(y.conns) = Range(x.conns) \ {c}
       /\ y.c = [x.c EXCEPT ![c] = NoConn] /\ Formed(y)
       /\ \A f \in ListenFields \ {"c", "conns"} : y[f] = x[f]
  BY <1>7 DEF Removed
<1>8. /\ y.conn = x.conn /\ y.tasks = x.tasks /\ y.events = x.events /\ y.usock = x.usock
      /\ y.poll = x.poll /\ y.ep = x.ep /\ y.failed = x.failed /\ y.kind = x.kind
      /\ y.file = x.file
      /\ y.owner = x.owner /\ y.asock = x.asock
  BY <1>20 DEF ListenFields
<1>9. /\ y.c \in [Conn -> ConnRecord] /\ y.c[c] = NoConn /\ \A d \in Conn \ {c} : y.c[d] = m.c[d]
  <2>1. NoConn \in ConnRecord
    BY DEF NoConn, ConnRecord
  <2>2. QED
    BY <1>4, <1>20, <2>1 DEF ListenTyped
<1>10. ListenTyped(y)
  BY <1>4, <1>20, <1>8, <1>9 DEF ListenTyped, Formed
<1>11. Closing(y) = Closing(x)
  <2>1. y.c[c].usock # "STOPPING" /\ x.c[c].usock # "STOPPING"
    BY <1>4, <1>9 DEF NoConn
  <2>2. QED
    BY <1>4, <1>9, <2>1 DEF Closing
<1>12. TasksOK(y.tasks, y.usock, y.poll, Closing(y))
  BY <1>4, <1>8, <1>11
<1>13. /\ Distinct(x.events) /\ \A d \in Conn \ {c} : Mine(x.events, d) = Mine(m.events, d)
       /\ \A e \in Range(x.events) : e \in Range(m.events) \/ Concerns(e, c)
  BY <1>4 DEF Only
<1>14. \A e \in Range(x.events) : ~Concerns(e, c)
  BY <1>4 DEF Mine
<1>15. Members(y)
  <2>1. Distinct(y.conns) /\ y.conn \notin Range(y.conns)
    BY <1>2, <1>5, <1>20, <1>8 DEF Members
  <2>2. ASSUME NEW d \in Conn
        PROVE  d = y.conn \/ d \in Range(y.conns) \/ y.c[d] = NoConn
    <3>1. CASE d = c
      BY <1>9, <3>1
    <3>2. CASE d # c
      BY <1>2, <1>5, <1>20, <1>8, <1>9, <3>2 DEF Members
    <3>3. QED
      BY <3>1, <3>2
  <2>3. ASSUME NEW e \in Range(y.events)
        PROVE  \/ \E d \in Conn : (d = y.conn \/ d \in Range(y.conns)) /\ Concerns(e, d)
               \/ e = Ev("ep", "USOCK", "STOPPED") /\ y.ep = "STOPPING_USOCK"
               \/ e = Ev("sock", "EP", "STOPPED") /\ y.ep = "IDLE"
    <3>1. e \in Range(m.events) /\ ~Concerns(e, c)
      BY <1>8, <1>13, <1>14, <2>3
    <3>2. CASE \E d \in Conn : (d = m.conn \/ d \in Range(m.conns)) /\ Concerns(e, d)
      <4>1. PICK d \in Conn : (d = m.conn \/ d \in Range(m.conns)) /\ Concerns(e, d)
        BY <3>2
      <4>2. d # c
        BY <3>1, <4>1
      <4>3. d = y.conn \/ d \in Range(y.conns)
        BY <1>5, <1>20, <1>8, <4>1, <4>2
      <4>4. QED
        BY <4>1, <4>3
    <3>3. QED
      BY <1>2, <1>5, <1>8, <3>1, <3>2 DEF Members
  <2>4. Distinct(y.events)
    BY <1>8, <1>13
  <2>5. QED
    BY <2>1, <2>2, <2>3, <2>4 DEF Members
<1>16. \A f \in ListenFields \ {"c", "conns", "events", "tasks", "errnum",
                                    "timer", "armed", "odd", "aborted"} :
               y[f] = m[f]
  BY <1>4, <1>8, <1>5 DEF ListenFields, Apart
<1>17. \A d \in Conn \ {c} : y.c[d] = m.c[d] /\ Mine(y.events, d) = Mine(m.events, d)
  BY <1>8, <1>9, <1>13
<1>18. Range(y.conns) = Range(m.conns) \ {c} /\ y.events = Tail(m.events)
  BY <1>3, <1>5, <1>20, <1>8 DEF x
<1>19. QED
  BY <1>1, <1>10, <1>12, <1>15, <1>16, <1>17, <1>18 DEF y, x

\* ConnStopped: a connection that has failed has stopped.
LEMMA ConnStoppedListens ==
  ASSUME NEW c \in Conn, Listens(m), ConnStopped(c)
  PROVE  Listens(m')
<1> DEFINE e == Head(m.events)
           y == RemoveConn(Rest, c)
           k == m.conn
<1>1. m.events # <<>> /\ e = Ev("ep", c, "STOPPED") /\ m.ep = "ACTIVE" /\ m' = y
  BY DEF ConnStopped, On
<1>2. Concerns(e, c) /\ e.type = "STOPPED"
  BY <1>1, ConnEvents, EvFields
<1> HIDE DEF e, y
<1>3. c # m.conn
  <2>1. SUFFICES ASSUME c = m.conn PROVE FALSE
    OBVIOUS
  <2>2. c \notin Range(m.conns)
    BY <2>1 DEF Listens, Bound2, Members
  <2>3. m.events = <<e>>
        /\ (Greets(m, c) \/ Lacks(m, c) \/ Hands(m, c) \/ Cancelled(m, c) \/ Returned(m, c))
    BY <1>1, <1>2, <2>2, WaitingAlone DEF e
  <2>4. e # Ev(c, "ACCEPTED", "ACCEPTED") /\ e # Ev(c, "LISTENER", "ACCEPT_ERROR")
        /\ e # Ev("ep", c, "ACCEPTED")
    BY <1>2, EvFields
  <2>5. QED
    BY <1>1, <2>3, <2>4 DEF Greets, Lacks, Hands, Cancelled, Returned
<1>4. /\ Accepting(m) /\ m.events = <<e>> /\ e \in ListenEvent /\ Served(c, m.c[c], {e}, m.ep)
      /\ c \in Range(m.conns)
  BY <1>1, <1>2, <1>3, RestServed DEF e
<1>5. m.c[c] = Rec("IDLE", "IDLE", "IDLE", NULL)
  <2>1. /\ e # Ev(c, "SESSION", "STOPPED") /\ e # Ev(c, "ACCEPTED", "SHUTDOWN")
        /\ e # Ev(c, "ACCEPTED", "STOPPED") /\ e # Ev("ep", c, "ERROR")
        /\ e # Ev(c, "SESSION", "ERROR") /\ e # Ev(c, "SESSION", "CLOSE_HANDSHAKE")
    BY <1>1, ConnNames, EvFields
  <2>2. {e} # {}
    OBVIOUS
  <2>3. ~Runs(c, m.c[c], {e}) /\ ~Broken(c, m.c[c], {e})
        /\ ~Quits(c, m.c[c], {e}, "STOPPING_SESSION")
        /\ ~Closes(c, m.c[c], {e}, "STOPPING_USOCK") /\ ~Closed(c, m.c[c], {e}, "STOPPING_USOCK")
        /\ ~Fails(c, m.c[c], {e}) /\ ~Forgotten(c, m.c[c], {e})
    BY <2>1, <2>2 DEF Runs, Broken, Quits, Closes, Closed, Fails, Forgotten
  <2>4. QED
    BY <1>4, <2>3 DEF Served, Ended
<1>6. Rec("IDLE", "IDLE", "IDLE", NULL).usock # "STOPPING"
  BY RecFields
<1>7. /\ ListenTyped(y) /\ Members(y) /\ TasksOK(y.tasks, y.usock, y.poll, Closing(y))
      /\ \A f \in ListenFields \ {"c", "conns", "events", "tasks", "errnum",
                                    "timer", "armed", "odd", "aborted"} :
               y[f] = m[f]
      /\ Range(y.conns) = Range(m.conns) \ {c} /\ y.events = Tail(m.events)
      /\ \A d \in Conn \ {c} : y.c[d] = m.c[d] /\ Mine(y.events, d) = Mine(m.events, d)
  BY <1>1, <1>2, <1>3, <1>5, <1>6, RemovedInOrder DEF y, e
<1>8. /\ y.ep = m.ep /\ y.failed = m.failed /\ y.kind = m.kind /\ y.file = m.file
      /\ y.conn = m.conn /\ y.owner = m.owner
      /\ y.asock = m.asock /\ y.usock = m.usock
  BY <1>7 DEF ListenFields
<1>9. k \in Conn \ {c} /\ Waiting(m, k)
  BY <1>3, <1>4 DEF Accepting
<1>10. Waits(m, k)
  <2>1. \A f \in ListenEvent : m.events = <<f>> => ~Concerns(f, k)
    <3>1. ~Concerns(e, k)
      BY <1>2, <1>4, <1>9, OneConcern
    <3>2. QED
      BY <1>4, <3>1
  <2> HIDE DEF k
  <2>2. Waits(m, k) \/ Cancels(m, k)
    BY <1>9, <2>1, WaitingEvents
  <2>3. QED
    BY <1>1, <2>2 DEF Cancels
<1> HIDE DEF k
<1>11. Waiting(y, k)
  BY <1>7, <1>8, <1>9, <1>10 DEF Waiting, Waits
<1>12. y.events = <<>>
  BY <1>4, <1>7, EventAlone
<1>13. ASSUME NEW d \in Range(y.conns)
       PROVE  Served(d, y.c[d], Mine(y.events, d), y.ep)
  <2>1. d \in Range(m.conns) /\ d \in Conn \ {c}
    BY <1>7, <1>13, ListensGood
  <2>2. Served(d, m.c[d], Mine(m.events, d), m.ep)
    BY <1>4, <2>1 DEF Accepting
  <2>3. QED
    BY <1>7, <1>8, <2>1, <2>2
<1>14. Accepting(y)
  <2>1. y.conn = k /\ y.conn \in Conn
    BY <1>8, <1>9 DEF k
  <2>2. Len(y.events) <= 1
    BY <1>12, EventNone
  <2>3. QED
    BY <1>11, <1>13, <2>1, <2>2 DEF Accepting
<1>15. QED
  BY <1>1, <1>7, <1>8, <1>14, <1>4 DEF Listens, Bound2

\* FinishEp: the endpoint is stopped when no connection is left.
LEMMA FinishEpListens ==
  ASSUME NEW x, ListenTyped(x), Members(x), TasksOK(x.tasks, x.usock, x.poll, Closing(x)),
         ~x.failed, x.conn = NULL, x.owner = "ep", x.usock = "IDLE", x.file # "own", Leaving(x)
  PROVE  Listens(FinishEp(x))
<1> DEFINE f == Ev("sock", "EP", "STOPPED")
<1>1. CASE x.conns # <<>>
  <2>1. FinishEp(x) = x
    BY <1>1 DEF FinishEp
  <2>2. QED
    BY <2>1 DEF Listens, Bound2
<1>2. CASE x.conns = <<>>
  <2> DEFINE b == x.aborted \/ \E i \in DOMAIN x.events : SameEvent(x.events[i], f)
             y == [x EXCEPT !.ep = "IDLE", !.events = Append(x.events, f), !.aborted = b]
  <2>1. FinishEp(x) = y
    <3> DEFINE w == [x EXCEPT !.ep = "IDLE"]
    <3>1. FinishEp(x) = Raise(w, f)
      BY <1>2 DEF FinishEp
    <3>2. w.events = x.events /\ w.aborted = x.aborted
      BY DEF ListenTyped, ListenFields
    <3> HIDE DEF w, f
    <3>3. Raise(w, f) = [w EXCEPT !.events = Append(x.events, f), !.aborted = b]
      BY <3>2 DEF Raise
    <3> HIDE DEF b
    <3>4. [w EXCEPT !.events = Append(x.events, f), !.aborted = b] = y
      BY DEF w, ListenTyped, ListenFields
    <3>5. QED
      BY <3>1, <3>3, <3>4
  <2>2. f \in ListenEvent
    BY DEF ListenEvent
  <2> HIDE DEF b, f
  <2>3. Range(x.conns) = {}
    BY <1>2, EventNone DEF Range
  <2>4. x.events = <<>>
    <3>1. Range(x.events) = {}
      <4>1. ASSUME NEW e \in Range(x.events) PROVE FALSE
        <5>1. x.conn \notin Conn /\ x.ep = "STOPPING_CONNS"
          BY ConnNames DEF Leaving
        <5>2. QED
          BY <2>3, <4>1, <5>1 DEF Members
      <4>2. QED
        BY <4>1
    <3>2. x.events \in Seq(ListenEvent)
      BY DEF ListenTyped
    <3>3. x.events # <<>> => Head(x.events) \in Range(x.events)
      <4>1. ASSUME x.events # <<>> PROVE Head(x.events) \in Range(x.events)
        <5>1. Len(x.events) \in Nat /\ Len(x.events) # 0 /\ DOMAIN x.events = 1..Len(x.events)
              /\ Head(x.events) = x.events[1]
          BY <3>2, <4>1
        <5>2. 1 \in DOMAIN x.events
          BY <5>1
        <5>3. QED
          BY <5>1, <5>2 DEF Range
      <4>2. QED
        BY <4>1
    <3>4. QED
      BY <3>1, <3>3
  <2>5. Append(x.events, f) = <<f>>
    BY <2>4, EventNone
  <2>6. /\ Formed(y) /\ y.ep = "IDLE" /\ y.events = <<f>> /\ y.failed = x.failed
        /\ y.kind = x.kind /\ y.file = x.file /\ y.conn = NULL
        /\ y.conns = <<>> /\ y.owner = "ep" /\ y.usock = "IDLE" /\ y.file = x.file
        /\ y.c = x.c /\ y.tasks = x.tasks /\ y.poll = x.poll
    BY <1>2, <2>5 DEF ListenTyped, ListenFields, Formed
  <2> HIDE DEF y
  <2>7. <<f>> \in Seq(ListenEvent) /\ Distinct(<<f>>) /\ Range(<<f>>) = {f}
    BY <2>2, EventAlone
  <2>8. ListenTyped(y)
    BY <1>2, <2>6, <2>7 DEF ListenTyped, Formed
  <2>9. TasksOK(y.tasks, y.usock, y.poll, Closing(y))
    <3>1. Closing(y) = Closing(x)
      BY <2>6 DEF Closing
    <3>2. QED
      BY <2>6, <3>1
  <2>10. Members(y)
    <3>1. Distinct(y.conns) /\ y.conn \notin Range(y.conns)
      BY <1>2, <2>6 DEF Members
    <3>2. \A d \in Conn : d = y.conn \/ d \in Range(y.conns) \/ y.c[d] = NoConn
      BY <1>2, <2>6 DEF Members
    <3>3. Distinct(y.events) /\ \A e \in Range(y.events) : e = f
      BY <2>6, <2>7
    <3>4. QED
      BY <2>6, <3>1, <3>2, <3>3 DEF Members, f
  <2>11. Gone(y)
    BY <2>6 DEF Gone, f
  <2>12. Listens(y)
    BY <2>6, <2>8, <2>9, <2>10, <2>11 DEF Listens, Bound2
  <2>13. QED
    BY <2>1, <2>12
<1>3. QED
  BY <1>1, <1>2

\* EpFinishing while the accepted connections stop.
LEMMA LeavingListens ==
  ASSUME Listens(m), EpFinishing, m.ep = "STOPPING_CONNS"
  PROVE  Listens(m')
<1> DEFINE e == Head(m.events)
<1>1. /\ m.events # <<>> /\ e.to = "ep"
      /\ m' = IF e.src \in Conn /\ e.type = "STOPPED" THEN FinishEp(RemoveConn(Rest, e.src))
                                                      ELSE Abort(Rest)
  BY DEF EpFinishing, OnAny
<1>2. /\ Leaving(m) /\ m.conn = NULL /\ m.owner = "ep" /\ m.usock = "IDLE" /\ m.file # "own"
      /\ ~m.failed /\ Members(m) /\ m.events \in Seq(ListenEvent)
  BY ListensGood DEF Listens, Bound2, Accepting, Unbinding, Gone, Waiting, Waits, Greets, Lacks,
     Hands,
              Cancels, Cancelled, Returned
<1>3. e \in Range(m.events)
  BY <1>1, <1>2, TakeHead DEF Members
<1> HIDE DEF e
<1>4. PICK c \in Conn : c \in Range(m.conns) /\ Concerns(e, c)
  BY <1>2, <1>3, ConnNames DEF Members
<1>5. c # m.conn
  BY <1>2, ConnNames
<1>6. Ending(c, m.c[c], {e})
  BY <1>1, <1>4, <1>5, RestServed DEF e
<1>7. e = Ev("ep", c, "STOPPED") /\ m.c[c] = Rec("IDLE", "IDLE", "IDLE", NULL)
  <2>1. c # "ep"
    BY ConnNames
  <2>2. /\ e # Ev(c, "SESSION", "STOPPED") /\ e # Ev(c, "ACCEPTED", "SHUTDOWN")
        /\ e # Ev(c, "ACCEPTED", "STOPPED")
    BY <1>1, <2>1, EvFields
  <2>3. ~Hangs(c, m.c[c], {e}) /\ ~Quits(c, m.c[c], {e}, "STOPPING_SESSION_FINAL")
        /\ ~Closes(c, m.c[c], {e}, "STOPPING") /\ ~Closed(c, m.c[c], {e}, "STOPPING")
    BY <2>2 DEF Hangs, Quits, Closes, Closed
  <2>4. Ended(c, m.c[c], {e})
    BY <1>6, <2>3 DEF Ending
  <2>5. QED
    BY <2>4 DEF Ended
<1> DEFINE y == RemoveConn(Rest, c)
<1>8. m' = FinishEp(y)
  <2>1. e.src = c /\ e.type = "STOPPED"
    BY <1>7, EvFields
  <2>2. QED
    BY <1>1, <2>1
<1>9. Rec("IDLE", "IDLE", "IDLE", NULL).usock # "STOPPING"
  BY RecFields
<1>10. /\ ListenTyped(y) /\ Members(y) /\ TasksOK(y.tasks, y.usock, y.poll, Closing(y))
       /\ \A f \in ListenFields \ {"c", "conns", "events", "tasks", "errnum",
                                    "timer", "armed", "odd", "aborted"} :
               y[f] = m[f]
       /\ Range(y.conns) = Range(m.conns) \ {c} /\ y.events = Tail(m.events)
       /\ \A d \in Conn \ {c} : y.c[d] = m.c[d] /\ Mine(y.events, d) = Mine(m.events, d)
  BY <1>1, <1>4, <1>5, <1>7, <1>9, RemovedInOrder DEF e
<1> HIDE DEF y
<1>11. /\ y.ep = m.ep /\ y.failed = m.failed /\ y.kind = m.kind /\ y.file = m.file
       /\ y.conn = m.conn /\ y.owner = m.owner
       /\ y.file = m.file /\ y.usock = m.usock
  BY <1>10 DEF ListenFields
<1>12. Leaving(y)
  <2>1. ASSUME NEW d \in Range(y.conns) PROVE Ending(d, y.c[d], Mine(y.events, d))
    <3>1. Range(y.conns) = Range(m.conns) \ {c}
      BY <1>10
    <3>2. Range(m.conns) \subseteq Conn
      BY ListensGood
    <3>3. d \in Range(m.conns) /\ d \in Conn \ {c}
      BY <2>1, <3>1, <3>2
    <3>4. y.c[d] = m.c[d] /\ Mine(y.events, d) = Mine(m.events, d)
      BY <1>10, <3>3
    <3>5. Ending(d, m.c[d], Mine(m.events, d))
      BY <1>2, <3>3 DEF Leaving
    <3>6. QED
      BY <3>4, <3>5
  <2>2. QED
    BY <1>11, <2>1 DEF Leaving
<1>13. Listens(FinishEp(y))
  BY <1>2, <1>10, <1>11, <1>12, FinishEpListens
<1>14. QED
  BY <1>8, <1>13

\* EpFinishing while the waiting connection stops: an accepted one has failed
\* meanwhile, which the endpoint forgets.
LEMMA ForgottenListens ==
  ASSUME NEW c \in Conn, Listens(m), EpFinishing, m.ep = "STOPPING_CONN", c # m.conn,
         Concerns(Head(m.events), c)
  PROVE  Listens(m')
<1> DEFINE e == Head(m.events)
           k == m.conn
<1>1. m.events # <<>> /\ e.to = "ep" /\ m' = FinishBound(Rest)
  BY DEF EpFinishing, OnAny
<1>2. /\ Accepting(m) /\ m.events = <<e>> /\ e \in ListenEvent /\ Served(c, m.c[c], {e}, m.ep)
      /\ Step(m, Rest, c, m.c[c], {})
  BY <1>1, RestServed
<1> HIDE DEF e
<1>3. m.c[c] = Rec("DONE", "IDLE", "IDLE", NULL)
  <2>1. c # "ep"
    BY ConnNames
  <2>2. /\ e # Ev(c, "SESSION", "STOPPED") /\ e # Ev(c, "ACCEPTED", "SHUTDOWN")
        /\ e # Ev(c, "ACCEPTED", "STOPPED")
        /\ e # Ev(c, "SESSION", "ERROR") /\ e # Ev(c, "SESSION", "CLOSE_HANDSHAKE")
    BY <1>1, <2>1, EvFields
  <2>3. {e} # {}
    OBVIOUS
  <2>4. ~Runs(c, m.c[c], {e}) /\ ~Broken(c, m.c[c], {e})
        /\ ~Quits(c, m.c[c], {e}, "STOPPING_SESSION")
        /\ ~Closes(c, m.c[c], {e}, "STOPPING_USOCK") /\ ~Closed(c, m.c[c], {e}, "STOPPING_USOCK")
        /\ ~Forgotten(c, m.c[c], {e})
    BY <2>2, <2>3 DEF Runs, Broken, Quits, Closes, Closed, Forgotten
  <2>5. QED
    BY <1>2, <2>4 DEF Served, Fails
<1>4. k \in Conn /\ k # c /\ Waiting(m, k)
  BY <1>2 DEF Accepting
<1>5. Cancels(m, k)
  <2>1. \A f \in ListenEvent : m.events = <<f>> => ~Concerns(f, k)
    <3>1. ~Concerns(e, k)
      BY <1>2, <1>4, OneConcern DEF e
    <3>2. QED
      BY <1>2, <3>1
  <2> HIDE DEF k
  <2>2. Waits(m, k) \/ Cancels(m, k)
    BY <1>4, <2>1, WaitingEvents
  <2>3. QED
    BY <2>2 DEF Waits
<1> DEFINE x == Rest
<1> HIDE DEF x
<1>6. /\ Good(x) /\ x.c[c] = m.c[c] /\ Mine(x.events, c) = {} /\ Apart(m, x)
      /\ \A d \in Conn \ {c} : x.c[d] = m.c[d]
  BY <1>2, StepGood DEF Step, x
<1>7. x.conn = k /\ x.ep = "STOPPING_CONN" /\ x.c[k].state = "STOPPING"
  <2>1. x.conn = m.conn /\ x.ep = m.ep
    BY <1>6 DEF Apart
  <2>2. x.c[k] = m.c[k] /\ m.c[k].state = "STOPPING"
    BY <1>4, <1>5, <1>6 DEF Cancels, Rec
  <2>3. QED
    BY <2>1, <2>2
<1>8. FinishBound(x) = x
  <2>1. ~ConnIdle(x, x.conn)
    BY <1>7 DEF ConnIdle, FsmIdle
  <2>2. FinishWaiting(x) = x
    BY <2>1 DEF FinishWaiting
  <2>3. FinishListening(x) = x
    BY <1>7 DEF FinishListening
  <2>4. QED
    BY <2>2, <2>3 DEF FinishBound
<1>9. Step(x, x, c, m.c[c], {})
  BY <1>6, StepNone
<1>10. Step(Rest, m', c, m.c[c], {})
  BY <1>1, <1>8, <1>9 DEF x
<1>11. Forgotten(c, m.c[c], {}) /\ ~Ending(c, m.c[c], {e})
  <2>1. Forgotten(c, m.c[c], {})
    BY <1>3 DEF Forgotten
  <2>2. ~Ending(c, m.c[c], {e})
    BY <1>3 DEF Ending, Hangs, Quits, Closes, Closed, Ended, Rec
  <2>3. QED
    BY <2>1, <2>2
<1>12. Served(c, m.c[c], {}, m.ep)
  BY <1>11 DEF Served
<1>13. ~Ending(c, m.c[c], {Head(m.events)})
  BY <1>11 DEF e
<1> HIDE DEF x
<1>14. QED
  BY <1>1, <1>10, <1>12, <1>13, HandledListens

\* EpFinishing when the waiting connection has stopped: the listening usock is
\* stopped, and the file removed.
LEMMA UnbindsListens ==
  ASSUME Listens(m), EpFinishing, m.ep = "STOPPING_CONN", m.conn \in Conn,
         Concerns(Head(m.events), m.conn)
  PROVE  Listens(m')
<1> DEFINE e == Head(m.events)
           f == Ev("ep", "USOCK", "STOPPED")
           c == m.conn
           x == Rest
           file == IF x.kind = "ipc" THEN "none" ELSE x.file
           k == [x.c EXCEPT ![c] = NoConn]
           w == [x EXCEPT !.ep = "STOPPING_USOCK", !.c = k, !.conn = NULL, !.file = file]
           v == [w EXCEPT !.usock = "IDLE", !.errnum = FALSE]
           b == v.aborted \/ \E i \in DOMAIN v.events : SameEvent(v.events[i], f)
           z == [v EXCEPT !.events = Append(v.events, f), !.aborted = b]
<1>1. m.events # <<>> /\ e.to = "ep" /\ m' = FinishBound(x)
  BY DEF EpFinishing, OnAny
<1>2. c \notin Range(m.conns)
  BY DEF Listens, Bound2, Members
<1>3. Accepting(m) /\ m.events = <<e>>
      /\ (Greets(m, c) \/ Lacks(m, c) \/ Hands(m, c) \/ Cancelled(m, c) \/ Returned(m, c))
  BY <1>1, <1>2, WaitingAlone
<1>4. Returned(m, c)
  <2>1. e # Ev(c, "ACCEPTED", "STOPPED")
    BY <1>1, ConnNames, EvFields
  <2> HIDE DEF e
  <2>2. QED
    BY <1>3, <2>1 DEF Greets, Lacks, Hands, Cancelled
<1>5. /\ m.c[c] = Rec("IDLE", "IDLE", "IDLE", NULL) /\ m.usock = "LISTENING" /\ m.owner = "ep"
  BY <1>4 DEF Returned
<1>6. e = Ev("ep", c, "STOPPED") /\ e \in ListenEvent /\ f \in ListenEvent
  <2>1. Ev("ep", c, "STOPPED") \in ListenEvent /\ f \in ListenEvent
    BY ConnEvents
  <2>2. m.events = <<Ev("ep", c, "STOPPED")>>
    BY <1>4 DEF Returned
  <2>3. QED
    BY <2>1, <2>2, EventAlone
<1> HIDE DEF e, f, c, x
<1>7. /\ ListenTyped(x) /\ Formed(x) /\ x.events = <<>>
      /\ x.ep = m.ep /\ x.failed = m.failed /\ x.kind = m.kind /\ x.file = m.file
      /\ x.usock = m.usock /\ x.owner = m.owner /\ x.asock = m.asock
      /\ x.poll = m.poll /\ x.conn = m.conn /\ x.conns = m.conns /\ x.c = m.c
      /\ x.tasks = m.tasks
  BY <1>3, <1>6, RestEmpty DEF x
<1> HIDE DEF file, k
<1>8. /\ Formed(w) /\ w.events = <<>> /\ w.ep = "STOPPING_USOCK" /\ w.failed = m.failed
      /\ w.kind = m.kind /\ w.file = file /\ w.usock = "LISTENING" /\ w.owner = "ep"
      /\ w.poll = m.poll /\ w.conn = NULL /\ w.conns = m.conns /\ w.c = k /\ w.tasks = m.tasks
  BY <1>5, <1>7 DEF ListenTyped, ListenFields, Formed
<1>9. FinishWaiting(x) = ListenerStop(w)
  <2>1. ConnIdle(x, c)
    <3>1. x.c[c].state = "IDLE"
      BY <1>5, <1>7, RecFields
    <3>2. DOMAIN x.events = {}
      BY <1>7
    <3>3. QED
      BY <3>1, <3>2 DEF ConnIdle, FsmIdle
  <2>2. x.ep = "STOPPING_CONN" /\ x.conn = c
    BY <1>7 DEF c
  <2>3. w = [x EXCEPT !.ep = "STOPPING_USOCK", !.c[x.conn] = NoConn, !.conn = NULL,
                      !.file = IF x.kind = "ipc" THEN "none" ELSE @]
    BY <2>2 DEF file, k
  <2>4. QED
    BY <2>1, <2>2, <2>3 DEF FinishWaiting
<1> HIDE DEF w
<1>10. /\ Formed(v) /\ v.events = <<>> /\ v.ep = "STOPPING_USOCK" /\ v.failed = m.failed
       /\ v.kind = m.kind /\ v.file = file /\ v.usock = "IDLE" /\ v.owner = "ep"
       /\ v.poll = m.poll /\ v.conn = NULL /\ v.conns = m.conns /\ v.c = k /\ v.tasks = m.tasks
  BY <1>8 DEF ListenFields, Formed
<1>11. ListenerStop(w) = ListenerEvent(v, "STOPPED")
  BY <1>8 DEF ListenerStop
<1> HIDE DEF v
<1>12. ListenerStop(w) = Raise(v, f)
  BY <1>10, <1>11 DEF ListenerEvent, f
<1>13. Raise(v, f) = z
  BY DEF Raise
<1> HIDE DEF b
<1>14. Append(v.events, f) = <<f>>
  BY <1>10, EventNone
<1>15. /\ Formed(z) /\ z.events = <<f>> /\ z.ep = "STOPPING_USOCK" /\ z.failed = m.failed
       /\ z.kind = m.kind /\ z.file = file /\ z.usock = "IDLE" /\ z.owner = "ep"
       /\ z.poll = m.poll /\ z.conn = NULL /\ z.conns = m.conns /\ z.c = k /\ z.tasks = m.tasks
  BY <1>10, <1>14 DEF ListenFields, Formed
<1> HIDE DEF z
<1>16. /\ <<f>> \in Seq(ListenEvent) /\ Distinct(<<f>>) /\ Range(<<f>>) = {f}
  BY <1>6, EventAlone
<1>17. m' = z
  <2>1. 1 \in DOMAIN z.events /\ z.events[1].src = "USOCK" /\ z.events[1].type = "STOPPED"
    BY <1>15, EvFields DEF f
  <2>2. ~ListenerIdle(z)
    BY <2>1 DEF ListenerIdle, FsmIdle
  <2>3. FinishListening(z) = z
    BY <2>2 DEF FinishListening
  <2>4. FinishWaiting(x) = z
    BY <1>9, <1>12, <1>13
  <2>5. QED
    BY <1>1, <2>3, <2>4 DEF FinishBound
<1>18. /\ c \in Conn /\ ListenTyped(m) /\ Members(m) /\ ~m.failed /\ Range(m.conns) \subseteq Conn
       /\ m.file = "own" => m.kind = "ipc"
       /\ TasksOK(m.tasks, m.usock, m.poll, Closing(m))
       /\ m.tasks \in Seq(ListenerTasks) /\ Closing(m) \in SUBSET Conn
  <2>1. Range(m.conns) \subseteq Conn /\ Closing(m) \in SUBSET Conn
        /\ m.tasks \in Seq(ListenerTasks)
    BY ListensGood
  <2>2. QED
    BY <2>1 DEF Listens, Bound2, c
<1>19. NoConn \in ConnRecord
  BY DEF NoConn, ConnRecord
<1>20. k \in [Conn -> ConnRecord] /\ k[c] = NoConn /\ \A d \in Conn \ {c} : k[d] = m.c[d]
  <2> HIDE DEF NoConn
  <2>1. QED
    BY <1>7, <1>18, <1>19 DEF ListenTyped, k
<1>21. ListenTyped(z)
  BY <1>15, <1>16, <1>18, <1>20 DEF ListenTyped, Formed
<1>22. Closing(z) = Closing(m)
  <2>1. z.c[c].usock # "STOPPING" /\ m.c[c].usock # "STOPPING"
    BY <1>5, <1>15, <1>20, RecFields DEF NoConn
  <2>2. QED
    BY <1>15, <1>20, <2>1 DEF Closing
<1>23. TasksOK(z.tasks, z.usock, z.poll, Closing(z))
  <2>1. {m.usock, "IDLE"} \cap {"ACCEPTING", "CANCELLING"} = {}
    BY <1>5
  <2>2. TasksOK(m.tasks, "IDLE", m.poll, Closing(m))
    BY <1>18, <2>1, TasksSame
  <2>3. QED
    BY <1>15, <1>22, <2>2
<1>24. Members(z)
  <2>1. Distinct(z.conns) /\ z.conn \notin Range(z.conns)
    BY <1>15, <1>18, ConnNames DEF Members
  <2>2. ASSUME NEW d \in Conn
        PROVE  d = z.conn \/ d \in Range(z.conns) \/ z.c[d] = NoConn
    <3>1. CASE d = c
      BY <1>15, <1>20, <3>1
    <3>2. CASE d # c
      BY <1>15, <1>18, <1>20, <3>2 DEF Members, c
    <3>3. QED
      BY <3>1, <3>2
  <2>3. Distinct(z.events) /\ \A g \in Range(z.events) : g = f
    BY <1>15, <1>16
  <2>4. QED
    BY <1>15, <2>1, <2>2, <2>3 DEF Members, f
<1>25. ASSUME NEW d \in Range(z.conns)
       PROVE  Served(d, z.c[d], {}, z.ep)
  <2>1. d \in Range(m.conns) /\ d \in Conn \ {c}
    BY <1>2, <1>15, <1>18, <1>25 DEF c
  <2>2. Served(d, m.c[d], Mine(m.events, d), m.ep)
    BY <1>3, <2>1 DEF Accepting
  <2>3. Mine(m.events, d) = {}
    <3>1. Concerns(e, c)
      BY <1>6, <1>18, ConnEvents
    <3>2. ~Concerns(e, d)
      BY <1>6, <1>18, <2>1, <3>1, OneConcern
    <3>3. Mine(<<e>>, d) = {g \in {e} : Concerns(g, d)}
      BY <1>6, EventAlone
    <3>4. QED
      BY <1>3, <3>2, <3>3
  <2>4. Served(d, m.c[d], {}, "STOPPING_USOCK")
    BY <2>2, <2>3 DEF Served
  <2>5. QED
    BY <1>15, <1>20, <2>1, <2>4
<1>26. z.file # "own"
  BY <1>7, <1>15, <1>18 DEF file
<1>27. Unbinding(z)
  BY <1>15, <1>25 DEF Unbinding, f
<1>28. Listens(z)
  BY <1>15, <1>18, <1>21, <1>23, <1>24, <1>26, <1>27 DEF Listens, Bound2
<1>29. QED
  BY <1>17, <1>28

-----------------------------------------------------------------------------
(* The accepted connections are stopped, one after the other.                *)

\* A set of numbers that is not empty has a least one.
LEMMA Least ==
  ASSUME NEW T, T \subseteq Nat, T # {}
  PROVE  \E n \in T : \A k \in T : n <= k
<1> DEFINE R == {p \in Nat \X Nat : p[1] < p[2]}
<1>1. R = OpToRel(<, Nat)
  BY DEF OpToRel
<1>2. IsWellFoundedOn(R, Nat)
  BY <1>1, NatLessThanWellFounded
<1>3. PICK x \in T : \A y \in T : ~(<<y, x>> \in R)
  BY <1>2, WFMin
<1>4. ASSUME NEW k \in T PROVE x <= k
  <2>1. <<k, x>> \in Nat \X Nat /\ <<k, x>>[1] = k /\ <<k, x>>[2] = x
    OBVIOUS
  <2>2. ~(k < x)
    BY <1>3, <2>1
  <2>3. QED
    BY <2>2
<1>5. QED
  BY <1>4

\* f is the function by which StopConns is defined, for the first n connections.
Stops(f, x, n) ==
    f = [k \in 0..n |-> IF k = 0 THEN x ELSE ConnStop(f[k - 1], x.conns[k])]

\* There is such a function.
LEMMA StopsExists ==
  ASSUME NEW x, NEW N \in Nat
  PROVE  \E f : Stops(f, x, N)
<1> DEFINE G(n) == \E f : Stops(f, x, n)
           T == {n \in Nat : ~G(n)}
<1> HIDE DEF G
<1>1. SUFFICES ASSUME T # {} PROVE FALSE
  BY DEF G
<1>2. T \subseteq Nat /\ \A n : n \in T <=> n \in Nat /\ ~G(n)
  OBVIOUS
<1> HIDE DEF T
<1>3. PICK n \in T : \A k \in T : n <= k
  BY <1>1, <1>2, Least
<1>4. n \in Nat /\ ~G(n)
  BY <1>2
<1>5. n # 0
  <2> DEFINE f == [k \in 0..0 |-> x]
  <2>1. \A k \in 0..0 : f[k] = IF k = 0 THEN x ELSE ConnStop(f[k - 1], x.conns[k])
    OBVIOUS
  <2>2. Stops(f, x, 0)
    BY <2>1 DEF Stops
  <2>3. QED
    BY <1>4, <2>2 DEF G
<1>6. n - 1 \in Nat
  BY <1>4, <1>5
<1>7. G(n - 1)
  <2>1. ~(n <= n - 1)
    BY <1>4
  <2>2. QED
    BY <1>2, <1>3, <1>6, <2>1
<1>8. PICK f : Stops(f, x, n - 1)
  BY <1>7 DEF G
<1> DEFINE h(k) == IF k = 0 THEN x ELSE ConnStop(f[k - 1], x.conns[k])
           g == [k \in 0..n |-> IF k = n THEN h(n) ELSE f[k]]
<1>9. \A k \in 0..n - 1 : f[k] = h(k)
  BY <1>8 DEF Stops
<1> HIDE DEF h
<1>10. \A k \in 0..n : g[k] = h(k)
  BY <1>4, <1>9
<1>11. \A k \in 0..n : k # 0 => g[k - 1] = f[k - 1]
  BY <1>4, <1>5
<1>12. \A k \in 0..n : g[k] = IF k = 0 THEN x ELSE ConnStop(g[k - 1], x.conns[k])
  BY <1>10, <1>11 DEF h
<1>13. Stops(g, x, n)
  BY <1>12 DEF Stops
<1>14. QED
  BY <1>4, <1>13 DEF G

\* StopConns is the last value of one.
LEMMA StopConnsByFunction ==
  ASSUME NEW x, x.conns \in Seq(Conn)
  PROVE  \E f : Stops(f, x, Len(x.conns)) /\ StopConns(x) = f[Len(x.conns)]
<1> DEFINE N == Len(x.conns)
           F == CHOOSE f : f = [k \in 0..Len(x.conns) |->
                                  IF k = 0 THEN x ELSE ConnStop(f[k - 1], x.conns[k])]
<1>1. PICK f : Stops(f, x, N)
  <2>1. N \in Nat
    OBVIOUS
  <2> HIDE DEF N
  <2>2. QED
    BY <2>1, StopsExists
<1>2. f = [k \in 0..Len(x.conns) |-> IF k = 0 THEN x ELSE ConnStop(f[k - 1], x.conns[k])]
  BY <1>1 DEF Stops
<1>3. F = [k \in 0..Len(x.conns) |-> IF k = 0 THEN x ELSE ConnStop(F[k - 1], x.conns[k])]
  BY <1>2
<1>4. StopConns(x) = F[Len(x.conns)]
  BY DEF StopConns
<1> HIDE DEF F
<1>5. Stops(F, x, N)
  BY <1>3 DEF Stops
<1>6. QED
  BY <1>4, <1>5

\* The first n of x are stopped in y, the others are as they were.
StoppedTo(x, y, n) ==
    /\ Good(y) /\ Apart(x, y) /\ y.failed = x.failed /\ y.kind = x.kind /\ y.file = x.file
    /\ \A e \in Range(y.events) : \E c \in Range(x.conns) : Concerns(e, c)
    /\ \A c \in Conn \ Range(x.conns) : y.c[c] = x.c[c]
    /\ \A i \in 1..Len(x.conns) :
          /\ i <= n => Ending(x.conns[i], y.c[x.conns[i]], Mine(y.events, x.conns[i]))
          /\ i > n => y.c[x.conns[i]] = x.c[x.conns[i]] /\ Mine(y.events, x.conns[i]) = {}

\* One more is stopped.
LEMMA StopOneMore ==
  ASSUME NEW x, x.conns \in Seq(Conn), Distinct(x.conns), NEW n \in 1..Len(x.conns), NEW y,
         StoppedTo(x, y, n - 1),
         \A c \in Range(x.conns) : Served(c, x.c[c], {}, "STOPPING_USOCK")
  PROVE  StoppedTo(x, ConnStop(y, x.conns[n]), n)
<1> DEFINE c == x.conns[n]
           z == ConnStop(y, c)
<1>1. /\ Len(x.conns) \in Nat /\ DOMAIN x.conns = 1..Len(x.conns)
      /\ \A i \in 1..Len(x.conns) : x.conns[i] \in Conn /\ x.conns[i] \in Range(x.conns)
  BY DEF Range
<1>2. \A i \in 1..Len(x.conns) : i # n => x.conns[i] # c
  BY <1>1 DEF Distinct
<1>3. c \in Conn /\ c \in Range(x.conns)
  BY <1>1
<1>4. y.c[c] = x.c[c] /\ Mine(y.events, c) = {} /\ Good(y)
  <2>1. n > n - 1 /\ n \in 1..Len(x.conns)
    BY <1>1
  <2>2. QED
    BY <2>1 DEF StoppedTo
<1> HIDE DEF c
<1>5. \/ Runs(c, y.c[c], {}) \/ Closes(c, y.c[c], {}, "STOPPING_USOCK")
      \/ y.c[c] = Rec("DONE", "IDLE", "IDLE", NULL)
  <2>1. Served(c, y.c[c], {}, "STOPPING_USOCK")
    BY <1>3, <1>4
  <2>2. /\ ~Broken(c, y.c[c], {}) /\ ~Quits(c, y.c[c], {}, "STOPPING_SESSION")
        /\ ~Closed(c, y.c[c], {}, "STOPPING_USOCK") /\ ~Fails(c, y.c[c], {})
    BY DEF Broken, Quits, Closed, Fails
  <2>3. QED
    BY <2>1, <2>2 DEF Served, Forgotten
<1>6. PICK r, A : Step(y, z, c, r, A) /\ Ending(c, r, A)
  BY <1>3, <1>4, <1>5, StepStop
<1> HIDE DEF z
<1>7. /\ Good(z) /\ Apart(y, z) /\ z.failed = y.failed /\ z.kind = y.kind /\ z.file = y.file
      /\ z.c[c] = r /\ \A d \in Conn \ {c} : z.c[d] = y.c[d]
      /\ \A d \in Conn \ {c} : Mine(z.events, d) = Mine(y.events, d)
      /\ \A e \in Range(z.events) : e \in Range(y.events) \/ Concerns(e, c)
      /\ Mine(z.events, c) = A
  BY <1>6 DEF Step, Only
<1>8. Apart(x, z) /\ z.failed = x.failed /\ z.kind = x.kind /\ z.file = x.file
  BY <1>7 DEF StoppedTo, Apart
<1>9. \A e \in Range(z.events) : \E d \in Range(x.conns) : Concerns(e, d)
  BY <1>3, <1>7 DEF StoppedTo
<1>10. \A d \in Conn \ Range(x.conns) : z.c[d] = x.c[d]
  BY <1>3, <1>7 DEF StoppedTo
<1>11. ASSUME NEW i \in 1..Len(x.conns)
       PROVE  /\ i <= n => Ending(x.conns[i], z.c[x.conns[i]], Mine(z.events, x.conns[i]))
              /\ i > n => z.c[x.conns[i]] = x.c[x.conns[i]] /\ Mine(z.events, x.conns[i]) = {}
  <2>1. CASE i = n
    <3>1. x.conns[i] = c
      BY <2>1 DEF c
    <3>2. Ending(c, z.c[c], Mine(z.events, c))
      BY <1>6, <1>7
    <3>3. QED
      BY <2>1, <3>1, <3>2
  <2>2. CASE i # n
    <3> DEFINE d == x.conns[i]
    <3>1. d \in Conn \ {c}
      BY <1>1, <1>2, <2>2
    <3>2. /\ i <= n - 1 => Ending(d, y.c[d], Mine(y.events, d))
          /\ i > n - 1 => y.c[d] = x.c[d] /\ Mine(y.events, d) = {}
      BY DEF StoppedTo
    <3>3. z.c[d] = y.c[d] /\ Mine(z.events, d) = Mine(y.events, d)
      BY <1>7, <3>1
    <3>4. (i <= n => i <= n - 1) /\ (i > n => i > n - 1)
      BY <2>2
    <3> HIDE DEF d
    <3>5. /\ i <= n => Ending(d, z.c[d], Mine(z.events, d))
          /\ i > n => z.c[d] = x.c[d] /\ Mine(z.events, d) = {}
      BY <3>2, <3>3, <3>4
    <3>6. QED
      BY <3>5 DEF d
  <2>3. QED
    BY <2>1, <2>2
<1>12. StoppedTo(x, z, n)
  BY <1>7, <1>8, <1>9, <1>10, <1>11 DEF StoppedTo
<1>13. QED
  BY <1>12 DEF z, c

\* All are stopped in the end.
LEMMA StopConnsStops ==
  ASSUME NEW x, Good(x), x.conns \in Seq(Conn), Distinct(x.conns), x.events = <<>>,
         \A c \in Range(x.conns) : Served(c, x.c[c], {}, "STOPPING_USOCK")
  PROVE  StoppedTo(x, StopConns(x), Len(x.conns))
<1> DEFINE N == Len(x.conns)
<1>1. PICK f : Stops(f, x, N) /\ StopConns(x) = f[N]
  BY StopConnsByFunction
<1>2. N \in Nat
  OBVIOUS
<1>3. \A k \in 0..N : f[k] = IF k = 0 THEN x ELSE ConnStop(f[k - 1], x.conns[k])
  BY <1>1 DEF Stops
<1> HIDE DEF N
<1> DEFINE T == {n \in Nat : n <= N /\ ~StoppedTo(x, f[n], n)}
<1>4. SUFFICES ASSUME T # {} PROVE FALSE
  <2>1. N \notin T => StoppedTo(x, f[N], N)
    BY <1>2
  <2>2. QED
    BY <1>1, <2>1 DEF N
<1>5. T \subseteq Nat /\ \A n : n \in T <=> n \in Nat /\ n <= N /\ ~StoppedTo(x, f[n], n)
  OBVIOUS
<1> HIDE DEF T
<1>6. PICK n \in T : \A k \in T : n <= k
  BY <1>4, <1>5, Least
<1>7. n \in Nat /\ n <= N /\ ~StoppedTo(x, f[n], n)
  BY <1>5
<1>8. n # 0
  <2>1. f[0] = x
    BY <1>2, <1>3
  <2>2. Range(x.events) = {} /\ \A c : Mine(x.events, c) = {}
    BY EventNone
  <2>3. \A i \in 1..Len(x.conns) : ~(i <= 0)
    OBVIOUS
  <2>4. Apart(x, x)
    BY DEF Apart
  <2>5. StoppedTo(x, x, 0)
    BY <2>2, <2>3, <2>4 DEF StoppedTo
  <2>6. QED
    BY <1>7, <2>1, <2>5
<1>9. n - 1 \in Nat /\ n - 1 <= N /\ n \in 1..N /\ n \in 0..N /\ ~(n <= n - 1)
  BY <1>2, <1>7, <1>8
<1>10. StoppedTo(x, f[n - 1], n - 1)
  BY <1>5, <1>6, <1>9
<1> DEFINE y == f[n - 1]
<1>11. f[n] = ConnStop(y, x.conns[n])
  BY <1>3, <1>8, <1>9
<1> HIDE DEF y
<1>12. StoppedTo(x, ConnStop(y, x.conns[n]), n)
  BY <1>9, <1>10, StopOneMore DEF N, y
<1>13. QED
  BY <1>7, <1>11, <1>12

\* All accepted connections are stopped: they leave.
LEMMA StoppedLeaves ==
  ASSUME NEW x, NEW y, StoppedTo(x, y, Len(x.conns)), Members(x), x.conns \in Seq(Conn),
         x.conn = NULL, x.ep = "STOPPING_CONNS"
  PROVE  Members(y) /\ Leaving(y)
<1>1. /\ Len(x.conns) \in Nat /\ DOMAIN x.conns = 1..Len(x.conns)
      /\ \A i \in 1..Len(x.conns) : x.conns[i] \in Conn
  OBVIOUS
<1>2. /\ Good(y) /\ Apart(x, y)
      /\ \A e \in Range(y.events) : \E c \in Range(x.conns) : Concerns(e, c)
      /\ \A c \in Conn \ Range(x.conns) : y.c[c] = x.c[c]
  BY DEF StoppedTo
<1>3. y.ep = x.ep /\ y.conn = x.conn /\ y.conns = x.conns
  BY <1>2 DEF Apart
<1>4. Range(x.conns) \subseteq Conn
  BY <1>1 DEF Range
<1>5. ASSUME NEW c \in Range(x.conns)
      PROVE  Ending(c, y.c[c], Mine(y.events, c))
  <2>1. PICK i \in 1..Len(x.conns) : c = x.conns[i]
    BY <1>1 DEF Range
  <2>2. i <= Len(x.conns)
    BY <1>1
  <2>3. Ending(x.conns[i], y.c[x.conns[i]], Mine(y.events, x.conns[i]))
    BY <2>2 DEF StoppedTo
  <2>4. QED
    BY <2>1, <2>3
<1>6. Leaving(y)
  BY <1>3, <1>5 DEF Leaving
<1>7. Members(y)
  <2>1. Distinct(y.conns) /\ y.conn \notin Range(y.conns)
    BY <1>3 DEF Members
  <2>2. \A c \in Conn : c = y.conn \/ c \in Range(y.conns) \/ y.c[c] = NoConn
    BY <1>2, <1>3 DEF Members
  <2>3. Distinct(y.events)
    BY <1>2 DEF Good
  <2>4. \A e \in Range(y.events) : \E c \in Conn : (c = y.conn \/ c \in Range(y.conns)) /\ Concerns(e, c)
    BY <1>2, <1>3, <1>4
  <2>5. QED
    BY <2>1, <2>2, <2>3, <2>4 DEF Members
<1>8. QED
  BY <1>6, <1>7

\* EpFinishing when the listening usock has stopped.
LEMMA UnbindingListens ==
  ASSUME Listens(m), EpFinishing, m.ep = "STOPPING_USOCK"
  PROVE  Listens(m')
<1> DEFINE e == Ev("ep", "USOCK", "STOPPED")
           x == Rest
           z == [x EXCEPT !.ep = "STOPPING_CONNS"]
           y == StopConns(z)
<1>1. m' = FinishBound(x)
  BY DEF EpFinishing
<1>2. /\ Unbinding(m) /\ m.conn = NULL /\ m.owner = "ep" /\ m.usock = "IDLE" /\ m.file # "own"
      /\ ~m.failed /\ Members(m) /\ TasksOK(m.tasks, m.usock, m.poll, Closing(m))
      /\ m.conns \in Seq(Conn)
  BY ListensGood DEF Listens, Bound2, Accepting, Leaving, Gone, Waiting, Waits, Greets, Lacks,
     Hands,
              Cancels, Cancelled, Returned
<1>3. m.events = <<e>> /\ e \in ListenEvent
  <2>1. e \in ListenEvent
    BY EndpointsAssumption, ConnEvents
  <2>2. QED
    BY <1>2, <2>1 DEF Unbinding
<1> HIDE DEF e, x
<1>4. /\ ListenTyped(x) /\ Formed(x) /\ x.events = <<>>
      /\ x.ep = m.ep /\ x.failed = m.failed /\ x.kind = m.kind /\ x.file = m.file
      /\ x.usock = m.usock /\ x.owner = m.owner /\ x.asock = m.asock
      /\ x.poll = m.poll /\ x.conn = m.conn /\ x.conns = m.conns /\ x.c = m.c
      /\ x.tasks = m.tasks
  BY <1>3, RestEmpty DEF x
<1>5. FinishWaiting(x) = x
  BY <1>4 DEF FinishWaiting
<1>6. ListenerIdle(x)
  <2>1. DOMAIN x.events = {}
    BY <1>4
  <2>2. QED
    BY <1>2, <1>4, <2>1 DEF ListenerIdle, FsmIdle
<1>7. m' = FinishEp(y)
  BY <1>1, <1>4, <1>5, <1>6 DEF FinishBound, FinishListening
<1>8. /\ ListenTyped(z) /\ z.events = <<>> /\ z.ep = "STOPPING_CONNS" /\ z.failed = m.failed
      /\ z.kind = m.kind /\ z.file = m.file /\ z.usock = "IDLE" /\ z.owner = "ep"
      /\ z.poll = m.poll /\ z.conn = NULL /\ z.conns = m.conns /\ z.c = m.c /\ z.tasks = m.tasks
  BY <1>2, <1>4 DEF ListenTyped, ListenFields
<1> HIDE DEF z
<1>9. Closing(z) = Closing(m)
  BY <1>8 DEF Closing
<1>10. Good(z)
  BY <1>2, <1>8, <1>9, EventNone DEF Good
<1>11. Members(z)
  <2>1. Range(z.events) = {} /\ Distinct(z.events)
    BY <1>8, EventNone
  <2>2. QED
    BY <1>2, <1>8, <2>1 DEF Members
<1>12. \A c \in Range(z.conns) : Served(c, z.c[c], {}, "STOPPING_USOCK")
  BY <1>2, <1>8 DEF Unbinding
<1>13. StoppedTo(z, y, Len(z.conns))
  BY <1>2, <1>8, <1>10, <1>12, StopConnsStops DEF Members
<1> HIDE DEF y
<1>14. Members(y) /\ Leaving(y)
  BY <1>2, <1>8, <1>11, <1>13, StoppedLeaves
<1>15. /\ ListenTyped(y) /\ TasksOK(y.tasks, y.usock, y.poll, Closing(y)) /\ y.failed = m.failed
       /\ y.conn = NULL /\ y.owner = "ep" /\ y.usock = "IDLE" /\ y.file = m.file
  BY <1>8, <1>13 DEF StoppedTo, Good, Apart
<1>16. Listens(FinishEp(y))
  BY <1>2, <1>14, <1>15, FinishEpListens
<1>17. QED
  BY <1>7, <1>16

\* EpFinishing, in every state of the endpoint.
LEMMA EpFinishingListens ==
  ASSUME Listens(m), EpFinishing
  PROVE  Listens(m')
<1> DEFINE e == Head(m.events)
<1>1. CASE m.ep = "STOPPING_CONN"
  <2>1. m.events # <<>> /\ m.events \in Seq(ListenEvent) /\ Distinct(m.events)
    BY ListensGood DEF EpFinishing, OnAny
  <2>2. e \in Range(m.events)
    BY <2>1, TakeHead
  <2>3. Members(m) /\ Accepting(m)
    BY <1>1 DEF Listens, Bound2, Unbinding, Leaving, Gone
  <2>4. PICK c \in Conn : (c = m.conn \/ c \in Range(m.conns)) /\ Concerns(e, c)
    BY <1>1, <2>2, <2>3 DEF Members
  <2> HIDE DEF e
  <2>5. CASE c = m.conn
    BY <1>1, <2>4, <2>5, UnbindsListens DEF e
  <2>6. CASE c # m.conn
    BY <1>1, <2>4, <2>6, ForgottenListens DEF e
  <2>7. QED
    BY <2>5, <2>6
<1>2. CASE m.ep = "STOPPING_USOCK"
  BY <1>2, UnbindingListens
<1>3. CASE m.ep = "STOPPING_CONNS"
  BY <1>3, LeavingListens
<1>4. QED
  BY <1>1, <1>2, <1>3 DEF EpFinishing

\* A queue of no tasks is empty.
LEMMA NoTask ==
  ASSUME NEW q \in Seq(ListenerTasks), Range(q) = {}
  PROVE  q = <<>>
<1>1. Len(q) \in Nat /\ DOMAIN q = 1..Len(q)
  OBVIOUS
<1>2. DOMAIN q = {}
  BY DEF Range
<1>3. \A n \in Nat : n # 0 => 1 \in 1..n
  OBVIOUS
<1>4. Len(q) = 0
  BY <1>1, <1>2, <1>3
<1>5. QED
  BY <1>4

\* DestroyBound: nothing is left of the endpoint.
LEMMA DestroyBoundListens ==
  ASSUME Listens(m), DestroyBound
  PROVE  Listens(m')
<1> DEFINE e == Ev("sock", "EP", "STOPPED")
           x == Rest
           y == [x EXCEPT !.ep = "FREED"]
<1>1. m.events # <<>> /\ Head(m.events) = e
  BY DEF DestroyBound, On
<1>2. e \in Range(m.events) /\ Members(m) /\ m.tasks \in Seq(ListenerTasks)
  BY <1>1, ListensGood, TakeHead DEF Listens, Bound2
<1>3. m.ep = "IDLE"
  <2>1. e.to = "sock"
    BY DEF Ev
  <2>2. e # Ev("ep", "USOCK", "STOPPED") /\ \A c \in Conn : ~Concerns(e, c)
    BY ConnEvents, EvFields
  <2> HIDE DEF e
  <2>3. QED
    BY <1>2, <2>2 DEF Members
<1>4. /\ Gone(m) /\ m.conn = NULL /\ m.owner = "ep" /\ m.usock = "IDLE" /\ m.file # "own"
      /\ ~m.failed
      /\ TasksOK(m.tasks, m.usock, m.poll, Closing(m))
  BY <1>3 DEF Listens, Bound2, Accepting, Unbinding, Leaving, Waiting, Waits, Greets, Lacks,
     Hands,
              Cancels, Cancelled, Returned
<1>5. m.events = <<e>> /\ e \in ListenEvent /\ m.conns = <<>>
  <2>1. e \in ListenEvent
    BY EndpointsAssumption, ConnEvents
  <2>2. QED
    BY <1>3, <1>4, <2>1 DEF Gone
<1>6. Closing(m) = {}
  <2>1. \A c \in Conn : m.c[c] = NoConn
    <3>1. Range(m.conns) = {} /\ m.conn \notin Conn
      BY <1>4, <1>5, ConnNames DEF Range
    <3>2. QED
      BY <1>2, <3>1 DEF Members
  <2>2. QED
    BY <2>1 DEF Closing, NoConn
<1>7. m.tasks = <<>>
  <2>1. Range(m.tasks) = {}
    BY <1>4, <1>6 DEF TasksOK, ToDo
  <2>2. QED
    BY <1>2, <2>1, NoTask
<1>8. m' = y
  BY <1>3, <1>4, <1>5, <1>7 DEF DestroyBound
<1> HIDE DEF e, x
<1>9. /\ ListenTyped(x) /\ Formed(x) /\ x.events = <<>>
      /\ x.ep = m.ep /\ x.failed = m.failed /\ x.kind = m.kind /\ x.file = m.file
      /\ x.usock = m.usock /\ x.owner = m.owner /\ x.asock = m.asock
      /\ x.poll = m.poll /\ x.conn = m.conn /\ x.conns = m.conns /\ x.c = m.c
      /\ x.tasks = m.tasks
  BY <1>5, RestEmpty DEF x
<1>10. /\ ListenTyped(y) /\ y.events = <<>> /\ y.ep = "FREED" /\ y.failed = m.failed
       /\ y.kind = m.kind /\ y.file = m.file /\ y.usock = m.usock /\ y.owner = m.owner
       /\ y.poll = m.poll /\ y.conn = m.conn /\ y.conns = m.conns /\ y.c = m.c
       /\ y.tasks = m.tasks
  BY <1>9 DEF ListenTyped, ListenFields
<1> HIDE DEF y
<1>11. TasksOK(y.tasks, y.usock, y.poll, Closing(y))
  <2>1. Closing(y) = Closing(m)
    BY <1>10 DEF Closing
  <2>2. QED
    BY <1>4, <1>10, <2>1
<1>12. Members(y)
  <2>1. Range(y.events) = {} /\ Distinct(y.events)
    BY <1>10, EventNone
  <2>2. QED
    BY <1>2, <1>10, <2>1 DEF Members
<1>13. Gone(y)
  BY <1>5, <1>10 DEF Gone
<1>14. Listens(y)
  BY <1>4, <1>5, <1>10, <1>11, <1>12, <1>13, ConnNames DEF Listens, Bound2
<1>15. QED
  BY <1>8, <1>14

-----------------------------------------------------------------------------
(* The invariant of a bound endpoint.                                        *)

\* An endpoint that could not listen only gets the events of that.
LEMMA NotListeningStep ==
  ASSUME m.failed, NotListening(m), ListenEnter \/ ListenHandle \/ ListenStop
  PROVE  m'.failed /\ NotListening(m')
<1> DEFINE e == Head(m.events)
           u == Ev("ep", "USOCK", "STOPPED")
           v == Ev("ep", "EP", "LISTEN_ERR")
<1>1. /\ Formed(m) /\ m.ep \in {"ACTIVE", "FREED"} /\ m.conn = NULL /\ m.conns = <<>>
      /\ m.tasks = <<>> /\ m.usock = "IDLE" /\ m.poll = {} /\ m.file # "own"
      /\ \A c \in Conn : m.c[c] = NoConn
      /\ m.ep = "FREED" => m.events = <<>>
      /\ m.events \in {<<>>, <<u>>, <<v>>, <<u, v>>}
  BY DEF NotListening, Formed
<1>2. /\ u.to = "ep" /\ u.src = "USOCK" /\ v.to = "ep" /\ v.src = "EP"
  BY EvFields
<1> HIDE DEF u, v
<1>3. ~ListenEnter
  <2>1. \A c \in Conn : m.c[c].session = "IDLE"
    BY <1>1 DEF NoConn
  <2>2. m.tasks = <<>> /\ m.poll # {"FD", "IN"}
    BY <1>1
  <2>3. QED
    BY <2>1, <2>2 DEF ListenEnter, ListenTask, PeerArrives, HandshakeDone, ServiceEnds,
       ServiceStops
<1>4. ~ListenStop
  BY DEF ListenStop
<1>5. /\ m.events # <<>> => e = u \/ e = v
      /\ e = u => m.events \in {<<>>, <<u>>, <<u, v>>}
      /\ e = v /\ m.events # <<>> => m.events = <<v>>
      /\ Tail(<<u>>) = <<>> /\ Tail(<<v>>) = <<>> /\ Tail(<<u, v>>) = <<v>>
  <2>1. u # v
    BY <1>2
  <2>2. QED
    BY <1>1, <2>1
<1> HIDE DEF e
<1>6. ListenHandle => ListenerStopped \/ ListenErr
  <2>1. \A c \in Conn : c # "ep" /\ c # "USOCK" /\ c # "EP"
    BY ConnNames
  <2>2. m.events # <<>> => e.to = "ep" /\ e.src \in {"USOCK", "EP"}
    BY <1>2, <1>5
  <2>3. ASSUME NEW a, NEW b, NEW t, On(a, b, t)
        PROVE  a = "ep" /\ b \in {"USOCK", "EP"}
    BY <2>2, <2>3, EvFields DEF On, e
  <2>4. \A c \in Conn : ~OnAny(c)
    BY <2>1, <2>2 DEF OnAny, e
  <2>5. \A c \in Conn : ~ConnFailed(c) /\ ~ConnStopped(c) /\ \A r : ~ConnAccepted(c, r)
    BY <2>1, <2>3 DEF ConnFailed, ConnStopped, ConnAccepted
  <2>6. ~EpFinishing
    BY <1>1 DEF EpFinishing
  <2>7. ~DestroyBound
    BY <2>3 DEF DestroyBound
  <2>8. \A c \in Conn : ~ConnAccepts(c)
    BY <2>1, <2>3, <2>4 DEF ConnAccepts, PeerAccepted, AcceptFailed, ConnFinishing
  <2>9. \A c \in Conn : /\ ~ConnServes(c) /\ ~ServiceFailed(c, "CLOSE_HANDSHAKE")
    BY <2>1, <2>3 DEF ConnServes, ServiceFailed, ServiceStopped, AcceptedStopped
  <2>10. QED
    BY <2>5, <2>6, <2>7, <2>8, <2>9 DEF ListenHandle, BtcpHandle, BipcHandle, BwsHandle, Serving,
          AtcpHandle, AipcAccepts, AipcServes, AwsAccepts, AwsServes
<1>7. CASE ListenerStopped
  <2>1. m' = Rest /\ m.ep = "ACTIVE" /\ m.events # <<>> /\ e = u
    BY <1>7 DEF ListenerStopped, On, e, u
  <2>2. Tail(m.events) \in {<<>>, <<v>>}
    BY <1>5, <2>1
  <2>3. /\ Formed(m') /\ m'.events = Tail(m.events) /\ m'.ep = "ACTIVE" /\ m'.conn = NULL
        /\ m'.conns = <<>> /\ m'.tasks = <<>> /\ m'.usock = "IDLE" /\ m'.poll = {}
        /\ m'.file = m.file /\ m'.c = m.c /\ m'.failed = m.failed
    BY <1>1, <2>1 DEF Rest, Formed, ListenFields
  <2>4. QED
    BY <1>1, <2>2, <2>3 DEF NotListening, Formed, v
<1>8. CASE ListenErr
  <2>1. m' = [Rest EXCEPT !.ep = "FREED"] /\ m.ep = "ACTIVE" /\ m.events # <<>> /\ e = v
    BY <1>8 DEF ListenErr, On, e, v
  <2>2. Tail(m.events) = <<>>
    BY <1>5, <2>1
  <2>3. /\ Formed(m') /\ m'.events = Tail(m.events) /\ m'.ep = "FREED" /\ m'.conn = NULL
        /\ m'.conns = <<>> /\ m'.tasks = <<>> /\ m'.usock = "IDLE" /\ m'.poll = {}
        /\ m'.file = m.file /\ m'.c = m.c /\ m'.failed = m.failed
    BY <1>1, <2>1 DEF Rest, Formed, ListenFields
  <2>4. QED
    BY <1>1, <2>2, <2>3 DEF NotListening, Formed
<1>9. QED
  BY <1>3, <1>4, <1>6, <1>7, <1>8

\* A step of an endpoint that listens.
LEMMA ListensStep ==
  ASSUME Listens(m), ListenEnter \/ ListenHandle \/ ListenStop
  PROVE  Listens(m')
<1>1. CASE ListenEnter
  <2>1. CASE ListenTask
    BY <2>1, ListenTaskListens
  <2>2. CASE PeerArrives
    BY <2>2, PeerArrivesListens
  <2>3. CASE \E c \in Conn : HandshakeDone(c)
    BY <2>3, HandshakeDoneListens
  <2>4. CASE \E c \in Conn : ServiceEnds(c)
    BY <2>4, ServiceEndsListens
  <2>5. CASE \E c \in Conn : ServiceStops(c)
    BY <2>5, ServiceStopsListens
  <2>6. QED
    BY <1>1, <2>1, <2>2, <2>3, <2>4, <2>5 DEF ListenEnter
<1>2. CASE ListenStop
  BY <1>2, ListenStopListens
<1>3. CASE Serving
  <2>1. CASE ListenerStopped
    <3>1. m.events # <<>> /\ Head(m.events) = Ev("ep", "USOCK", "STOPPED") /\ m.ep = "ACTIVE"
      BY <2>1 DEF ListenerStopped, On
    <3>2. Head(m.events) \in Range(m.events)
      BY <3>1, ListensGood, TakeHead
    <3>3. Ev("ep", "USOCK", "STOPPED") # Ev("sock", "EP", "STOPPED")
      BY EvFields
    <3>4. \A c \in Conn : ~Concerns(Ev("ep", "USOCK", "STOPPED"), c)
      BY ConnEvents
    <3>5. QED
      BY <3>1, <3>2, <3>3, <3>4 DEF Listens, Bound2, Members
  <2>2. CASE \E c \in Conn : ConnFailed(c)
    BY <2>2, ConnFailedListens
  <2>3. CASE \E c \in Conn : ConnStopped(c)
    BY <2>3, ConnStoppedListens
  <2>4. CASE \E c \in Conn : \E r \in Accepted : ConnAccepted(c, r)
    BY <2>4, ConnAcceptedListens
  <2>5. CASE EpFinishing
    BY <2>5, EpFinishingListens
  <2>6. QED
    BY <1>3, <2>1, <2>2, <2>3, <2>4, <2>5 DEF Serving
<1>4. CASE ListenErr
  <2>1. m.events # <<>> /\ Head(m.events) = Ev("ep", "EP", "LISTEN_ERR")
    BY <1>4 DEF ListenErr, On
  <2>2. Head(m.events) \in Range(m.events)
    BY <2>1, ListensGood, TakeHead
  <2>3. Ev("ep", "EP", "LISTEN_ERR") # Ev("sock", "EP", "STOPPED")
        /\ Ev("ep", "EP", "LISTEN_ERR") # Ev("ep", "USOCK", "STOPPED")
    BY EvFields
  <2>4. \A c \in Conn : ~Concerns(Ev("ep", "EP", "LISTEN_ERR"), c)
    BY ConnNames, EvFields DEF Concerns
  <2>5. QED
    BY <2>1, <2>2, <2>3, <2>4 DEF Listens, Bound2, Members
<1>5. CASE DestroyBound
  BY <1>5, DestroyBoundListens
<1>6. CASE \E c \in Conn : ConnAccepts(c)
  <2>1. PICK c \in Conn : ConnAccepts(c)
    BY <1>6
  <2>2. CASE PeerAccepted(c)
    BY <2>2, PeerAcceptedListens
  <2>3. CASE \E r \in Accepted : AcceptFailed(c, r)
    BY <2>3, AcceptFailedListens
  <2>4. CASE ConnFinishing(c) /\ c # m.conn
    BY <2>4, ServedFinishingListens
  <2>5. CASE ConnFinishing(c) /\ c = m.conn
    BY <2>5, WaiterFinishingListens
  <2>6. QED
    BY <2>1, <2>2, <2>3, <2>4, <2>5 DEF ConnAccepts
<1>7. CASE \E c \in Conn : ConnServes(c) \/ ServiceFailed(c, "CLOSE_HANDSHAKE")
  <2>1. PICK c \in Conn : ConnServes(c) \/ ServiceFailed(c, "CLOSE_HANDSHAKE")
    BY <1>7
  <2>2. CASE \E result \in {"ERROR", "CLOSE_HANDSHAKE"} : ServiceFailed(c, result)
    BY <2>2, ServiceFailedListens
  <2>3. CASE ServiceStopped(c)
    BY <2>3, ServiceStoppedListens
  <2>4. CASE AcceptedStopped(c)
    BY <2>4, AcceptedStoppedListens
  <2>5. QED
    BY <2>1, <2>2, <2>3, <2>4 DEF ConnServes
<1>8. ListenHandle => \/ Serving \/ ListenErr \/ DestroyBound \/ \E c \in Conn : ConnAccepts(c)
                      \/ \E c \in Conn : ConnServes(c) \/ ServiceFailed(c, "CLOSE_HANDSHAKE")
  BY DEF ListenHandle, BtcpHandle, BipcHandle, BwsHandle, AtcpHandle, AipcAccepts, AipcServes,
         AwsAccepts, AwsServes
<1>9. QED
  BY <1>1, <1>2, <1>3, <1>4, <1>5, <1>6, <1>7, <1>8

\* Queues of one and of two events.
LEMMA EventAfter ==
  ASSUME NEW e, NEW u
  PROVE  Append(<<>>, e) = <<e>> /\ Append(<<u>>, e) = <<u, e>>
<1> DEFINE S == {u, e}
           a == Append(<<u>>, e)
<1>1. Append(<<>>, e) = <<e>>
  BY EventNone
<1>2. <<u>> \in Seq(S) /\ e \in S /\ Len(<<u>>) = 1 /\ <<u>>[1] = u
  OBVIOUS
<1>3. a \in Seq(S) /\ Len(a) = 2 /\ a[1] = u /\ a[2] = e
  BY <1>2, AppendProperties
<1> HIDE DEF a
<1>4. a = <<u, e>>
  BY <1>3
<1>5. QED
  BY <1>1, <1>4 DEF a

\* Every step of a bound endpoint keeps its invariant.
LEMMA BoundStep ==
  ASSUME LInv(m), side = "listen", Next \/ UNCHANGED vars
  PROVE  LInv(m')
<1>1. CASE Unexpected
  <2>1. m' = Abort(Rest) /\ m.events # <<>> /\ ~m.aborted
    BY <1>1 DEF Unexpected
  <2>2. Formed(m) /\ m.ep # "FREED"
    BY <2>1 DEF LInv, NotListening, Listens, ListenTyped, Bound2, Accepting, Unbinding, Leaving,
       Gone, Formed,
           Waiting, Waits, Greets, Lacks, Hands, Cancels, Cancelled, Returned
  <2>3. m'.aborted /\ m'.ep = m.ep
    BY <2>1, <2>2 DEF Abort, Rest, Formed, ListenFields
  <2>4. QED
    BY <2>2, <2>3 DEF LInv
<1>2. CASE m' = m
  BY <1>2
<1>3. CASE ListenEnter \/ ListenHandle \/ ListenStop
  <2>1. ~m.aborted
    BY <1>3 DEF ListenEnter, ListenTask, PeerArrives, HandshakeDone, ServiceEnds, ServiceStops,
       Outside,
           ListenStop, ListenHandle, BtcpHandle, BipcHandle, BwsHandle, Serving,
           ListenerStopped, ListenErr,
           ConnFailed, ConnStopped, ConnAccepted, EpFinishing, DestroyBound, On, OnAny,
           AtcpHandle,
           AipcAccepts, AipcServes, AwsAccepts, AwsServes, ConnAccepts, ConnServes, PeerAccepted,
           AcceptFailed, ConnFinishing, ServiceFailed, ServiceStopped, AcceptedStopped
  <2>2. QED
    BY <1>3, <2>1, NotListeningStep, ListensStep DEF LInv
<1>4. QED
  BY <1>1, <1>2, <1>3 DEF Next, Enter, Handle, Stop, vars

\* The first connection starts to wait: the endpoint listens.
LEMMA ListeningInit ==
  ASSUME NEW kind, NEW file, file = "own" => kind = "ipc", NEW y \in Listening(Bound(kind, file))
  PROVE  Listens(y)
<1> DEFINE x == [Bound(kind, file) EXCEPT !.usock = "LISTENING"]
<1>1. /\ Formed(x) /\ x.kind = kind /\ x.ep = "ACTIVE" /\ x.failed = FALSE /\ x.file = file
      /\ x.usock = "LISTENING" /\ x.owner = "ep" /\ x.poll = {} /\ x.conn = NULL /\ x.conns = <<>>
      /\ x.c = [d \in Conn |-> NoConn] /\ x.tasks = <<>> /\ x.events = <<>>
  BY DEF Bound, Formed, ListenFields
<1>2. PICK r \in Accepted : y \in StartAccepting(x, r)
  BY DEF Listening
<1> HIDE DEF x
<1>3. NoConn \in ConnRecord /\ NoConn.state = "NONE" /\ NoConn.usock = "IDLE"
  BY DEF NoConn, ConnRecord
<1> HIDE DEF NoConn
<1>4. \A c \in Conn : x.c[c] = NoConn
  BY <1>1
<1>5. ListenTyped(x)
  <2>1. x.c \in [Conn -> ConnRecord]
    BY <1>1, <1>3
  <2>2. <<>> \in Seq(Conn) /\ <<>> \in Seq(ListenerTasks) /\ <<>> \in Seq(ListenEvent)
    OBVIOUS
  <2>3. x.conns \in Seq(Conn) /\ x.tasks \in Seq(ListenerTasks) /\ x.events \in Seq(ListenEvent)
    BY <1>1, <2>2
  <2>4. QED
    BY <1>1, <2>1, <2>3 DEF ListenTyped, Formed
<1>6. Free(x) # {} /\ Closing(x) = {}
  <2>1. Free(x) = Conn /\ Closing(x) = {}
    BY <1>3, <1>4 DEF Free, Closing
  <2>2. QED
    BY <2>1, ConnNames
<1>7. Range(x.conns) = {} /\ Distinct(x.conns)
  BY <1>1 DEF Range, Distinct
<1>8. TasksOK(x.tasks, x.usock, x.poll, Closing(x))
  <2>1. Distinct(<<>>) /\ Range(<<>>) = {} /\ DOMAIN <<>> = {}
    BY DEF Range, Distinct
  <2>2. ToDo("LISTENING", {}, {}) = {}
    BY DEF ToDo
  <2>3. QED
    BY <1>1, <1>6, <2>1, <2>2 DEF TasksOK
<1>9. QED
  BY <1>1, <1>2, <1>4, <1>5, <1>6, <1>7, <1>8, StartListens

\* There is no socket, or the address is in use: the endpoint does not listen.
LEMMA NotBoundInit ==
  ASSUME NEW kind, NEW file, file # "own", NEW y \in NotBound(Bound(kind, file))
  PROVE  /\ y.failed /\ NotListening(y) /\ y.ep = "ACTIVE"
         /\ y.events \in {<<>>, <<Ev("ep", "USOCK", "STOPPED")>>}
<1> DEFINE x == [Bound(kind, file) EXCEPT !.failed = TRUE]
           z == [Bound(kind, file) EXCEPT !.failed = TRUE, !.usock = "STARTING"]
           e == Ev("ep", "USOCK", "STOPPED")
<1>1. y = x \/ y = ListenerStop(z)
  BY DEF NotBound
<1>2. /\ Formed(x) /\ x.ep = "ACTIVE" /\ x.failed /\ x.file = file /\ x.usock = "IDLE"
      /\ x.poll = {} /\ x.conn = NULL /\ x.conns = <<>>
      /\ x.c = [d \in Conn |-> NoConn] /\ x.tasks = <<>> /\ x.events = <<>>
  BY DEF Bound, Formed, ListenFields
<1>3. /\ Formed(z) /\ z.ep = "ACTIVE" /\ z.failed /\ z.file = file /\ z.usock = "STARTING"
      /\ z.owner = "ep" /\ z.poll = {} /\ z.conn = NULL /\ z.conns = <<>>
      /\ z.c = [d \in Conn |-> NoConn] /\ z.tasks = <<>> /\ z.events = <<>>
  BY DEF Bound, Formed, ListenFields
<1> HIDE DEF x, z
<1>4. CASE y = x
  BY <1>2, <1>4 DEF NotListening, Formed
<1>5. CASE y = ListenerStop(z)
  <2> DEFINE v == [z EXCEPT !.usock = "IDLE", !.errnum = FALSE]
             b == v.aborted \/ \E i \in DOMAIN v.events : SameEvent(v.events[i], e)
             w == [v EXCEPT !.events = Append(v.events, e), !.aborted = b]
  <2>1. /\ Formed(v) /\ v.ep = "ACTIVE" /\ v.failed /\ v.file = file /\ v.usock = "IDLE"
        /\ v.owner = "ep" /\ v.poll = {} /\ v.conn = NULL /\ v.conns = <<>>
        /\ v.c = [d \in Conn |-> NoConn] /\ v.tasks = <<>> /\ v.events = <<>>
    BY <1>3 DEF Formed, ListenFields
  <2>2. ListenerStop(z) = ListenerEvent(v, "STOPPED")
    BY <1>3 DEF ListenerStop
  <2> HIDE DEF v, e
  <2>3. ListenerStop(z) = Raise(v, e)
    BY <2>1, <2>2 DEF ListenerEvent, e
  <2>4. y = w
    BY <1>5, <2>3 DEF Raise
  <2>5. Append(v.events, e) = <<e>>
    BY <2>1, EventNone
  <2> HIDE DEF b
  <2>6. /\ Formed(w) /\ w.ep = "ACTIVE" /\ w.failed /\ w.file = file /\ w.usock = "IDLE"
        /\ w.poll = {} /\ w.conn = NULL /\ w.conns = <<>>
        /\ w.c = [d \in Conn |-> NoConn] /\ w.tasks = <<>> /\ w.events = <<e>>
    BY <2>1, <2>5 DEF Formed, ListenFields
  <2> HIDE DEF w
  <2>7. QED
    BY <2>4, <2>6 DEF NotListening, Formed, e
<1>6. QED
  BY <1>1, <1>4, <1>5

\* The invariant holds of every endpoint that is created to listen.
LEMMA BoundInit ==
  ASSUME ListenInit
  PROVE  LInv(m)
<1>1. CASE BtcpCreate
  <2>1. CASE m \in Listening(Bound("tcp", "none"))
    BY <2>1, ListeningInit DEF LInv
  <2>2. CASE \E x \in NotBound(Bound("tcp", "none")) : m = Raise(x, Ev("ep", "EP", "LISTEN_ERR"))
    <3> DEFINE u == Ev("ep", "USOCK", "STOPPED")
               e == Ev("ep", "EP", "LISTEN_ERR")
    <3>1. PICK x \in NotBound(Bound("tcp", "none")) : m = Raise(x, e)
      BY <2>2
    <3>2. x.failed /\ NotListening(x) /\ x.ep = "ACTIVE" /\ x.events \in {<<>>, <<u>>}
      BY <3>1, NotBoundInit
    <3> DEFINE b == x.aborted \/ \E i \in DOMAIN x.events : SameEvent(x.events[i], e)
    <3> HIDE DEF e, u
    <3>3. m = [x EXCEPT !.events = Append(x.events, e), !.aborted = b]
      BY <3>1 DEF Raise
    <3>4. Append(x.events, e) \in {<<e>>, <<u, e>>}
      <4>1. Append(<<>>, e) = <<e>> /\ Append(<<u>>, e) = <<u, e>>
        BY EventAfter
      <4>2. QED
        BY <3>2, <4>1
    <3>5. /\ Formed(x) /\ x.conn = NULL /\ x.conns = <<>> /\ x.tasks = <<>> /\ x.usock = "IDLE"
          /\ x.poll = {} /\ x.file # "own" /\ \A c \in Conn : x.c[c] = NoConn
      BY <3>2 DEF NotListening, Formed
    <3> HIDE DEF b
    <3>6. /\ Formed(m) /\ m.failed /\ m.ep = "ACTIVE" /\ m.conn = NULL /\ m.conns = <<>>
          /\ m.tasks = <<>> /\ m.usock = "IDLE" /\ m.poll = {} /\ m.file = x.file /\ m.c = x.c
          /\ m.events = Append(x.events, e)
      BY <3>2, <3>3, <3>5 DEF Formed, ListenFields
    <3>7. NotListening(m)
      BY <3>4, <3>5, <3>6 DEF NotListening, Formed, e, u
    <3>8. QED
      BY <3>6, <3>7 DEF LInv
  <2>3. QED
    BY <1>1, <2>1, <2>2 DEF BtcpCreate, BtcpListen
<1>2. CASE BipcCreate
  <2>1. PICK file \in {"none", "stale", "foreign"} : m \in BipcListen(file)
    BY <1>2 DEF BipcCreate
  <2>2. CASE m \in NotBound(Bound("ipc", "foreign"))
    BY <2>2, NotBoundInit DEF LInv
  <2>3. CASE m \in Listening(Bound("ipc", "own"))
    BY <2>3, ListeningInit DEF LInv
  <2>4. QED
    BY <2>1, <2>2, <2>3 DEF BipcListen
<1>3. CASE BwsCreate
  <2>1. CASE m \in Listening(Bound("ws", "none"))
    BY <2>1, ListeningInit DEF LInv
  <2>2. CASE m \in NotBound(Bound("ws", "none"))
    BY <2>2, NotBoundInit DEF LInv
  <2>3. QED
    BY <1>3, <2>1, <2>2 DEF BwsCreate, BwsListen
<1>4. QED
  BY <1>1, <1>2, <1>3 DEF ListenInit

-----------------------------------------------------------------------------
(* The theorems.                                                             *)

\* What holds of a bound endpoint between two steps.
IInv == side = "listen" => LInv(m)

\* The invariant holds at first.
LEMMA IInvInit ==
  Init => IInv
BY BoundInit DEF Init, IInv

\* Every step keeps the invariant.
LEMMA IInvNext ==
  IInv /\ [Next]_vars => IInv'
<1> SUFFICES ASSUME IInv, [Next]_vars PROVE IInv'
  OBVIOUS
<1>1. side' = side /\ (Next \/ UNCHANGED vars)
  BY DEF Next, vars
<1>2. QED
  BY <1>1, BoundStep DEF IInv

\* The invariant gives what KeepsListening says.
LEMMA IInvKeepsListening ==
  IInv => KeepsListening
<1> SUFFICES ASSUME IInv, side = "listen", Outside, m.ep = "ACTIVE", ~m.failed
             PROVE  /\ m.conn # NULL /\ m.owner = m.conn /\ m.asock = m.conn
                    /\ m.c[m.conn].state = "ACCEPTING"
                    /\ m.usock = "ACCEPTING"
                    /\ m.poll = {"FD", "IN"} \/ <<"listener", "ACCEPT">> \in Range(m.tasks)
                    /\ \A c \in Conn :
                          m.c[c].state \in {"STOPPING_SESSION", "STOPPING_USOCK", "DONE"} =>
                             <<c, "STOP">> \in Range(m.tasks)
  BY DEF KeepsListening
<1> DEFINE k == m.conn
<1>1. Listens(m) /\ m.events = <<>>
  BY DEF IInv, LInv, Outside
<1>2. Accepting(m) /\ Members(m) /\ TasksOK(m.tasks, m.usock, m.poll, Closing(m))
      /\ Closing(m) \in SUBSET Conn
  BY <1>1, ListensGood DEF Listens, Bound2, Unbinding, Leaving, Gone
<1>3. k \in Conn /\ Waits(m, k)
  <2>1. k \in Conn /\ Waiting(m, k)
    BY <1>2 DEF Accepting
  <2>2. \A e \in ListenEvent : m.events # <<e>>
    BY <1>1
  <2> HIDE DEF k
  <2>3. Waits(m, k) \/ Cancels(m, k)
    BY <2>1, <2>2, WaitingEvents
  <2>4. QED
    BY <2>1, <2>3 DEF Cancels
<1>4. m.c[k] = Rec("ACCEPTING", "BEING_ACCEPTED", "IDLE", "ep") /\ m.usock = "ACCEPTING"
      /\ m.owner = k
      /\ m.asock = k
  BY <1>3 DEF Waits
<1>5. Range(m.tasks) = ToDo("ACCEPTING", m.poll, Closing(m)) /\ m.poll \in {{}, {"FD", "IN"}}
  BY <1>2, <1>4 DEF TasksOK
<1>6. m.poll = {} => <<"listener", "ACCEPT">> \in Range(m.tasks)
  BY <1>2, <1>5, ToDoHas
<1>7. ASSUME NEW c \in Conn, m.c[c].state \in {"STOPPING_SESSION", "STOPPING_USOCK", "DONE"}
      PROVE  <<c, "STOP">> \in Range(m.tasks)
  <2>1. c # k
    <3>1. m.c[k].state = "ACCEPTING"
      BY <1>4, RecFields
    <3> HIDE DEF k
    <3>2. QED
      BY <1>7, <3>1
  <2>2. m.c[c] # NoConn
    BY <1>7 DEF NoConn
  <2>3. c \in Range(m.conns)
    BY <1>2, <2>1, <2>2 DEF Members
  <2>4. Served(c, m.c[c], {}, "ACTIVE")
    BY <1>1, <1>2, <2>3, EventNone DEF Accepting
  <2>5. ~Runs(c, m.c[c], {})
    <3>1. \A s : Rec("ACTIVE", "ACTIVE", s, NULL).state = "ACTIVE"
      BY RecFields
    <3>2. QED
      BY <1>7, <3>1 DEF Runs
  <2>6. /\ ~Broken(c, m.c[c], {}) /\ ~Quits(c, m.c[c], {}, "STOPPING_SESSION")
        /\ ~Closed(c, m.c[c], {}, "STOPPING_USOCK") /\ ~Fails(c, m.c[c], {})
        /\ ~Ended(c, m.c[c], {})
    BY DEF Broken, Quits, Closed, Fails, Ended
  <2>7. m.c[c] = Rec("STOPPING_USOCK", "STOPPING", "IDLE", NULL)
    BY <2>4, <2>5, <2>6 DEF Served, Closes
  <2>8. c \in Closing(m)
    BY <2>7, RecFields DEF Closing
  <2>9. QED
    BY <1>2, <1>5, <2>8, ToDoHas
<1>8. k # NULL
  BY <1>3, ConnNames
<1>9. m.c[k].state = "ACCEPTING"
  BY <1>4, RecFields
<1>10. QED
  BY <1>4, <1>5, <1>6, <1>7, <1>8, <1>9

\* A bound endpoint always accepts: a connection waits for a peer, the worker polls
\* or is about to, and what failed is waited for, however many peers came and went.
THEOREM SpecKeepsListening ==
  Spec => []KeepsListening
<1>1. IInv => KeepsListening
  BY IInvKeepsListening
<1>2. QED
  BY <1>1, IInvInit, IInvNext, PTL DEF Spec

\* What is left of a bound endpoint that was freed.
BoundFreedClean == side = "listen" => FreedClean

\* And what FreedClean says of a bound endpoint.
LEMMA IInvBoundFreedClean ==
  IInv => BoundFreedClean
<1> SUFFICES ASSUME IInv, side = "listen", m.ep = "FREED"
             PROVE  /\ m.tasks = <<>> /\ m.events = <<>> /\ "FD" \notin m.poll
                    /\ m.file # "own" /\ \A c \in Conn : m.c[c] = NoConn
  BY DEF BoundFreedClean, FreedClean
<1>1. CASE NotListening(m)
  BY <1>1 DEF NotListening
<1>2. CASE Listens(m)
  <2>1. /\ Members(m) /\ TasksOK(m.tasks, m.usock, m.poll, Closing(m))
        /\ m.tasks \in Seq(ListenerTasks)
        /\ Gone(m) /\ m.conn = NULL /\ m.usock = "IDLE" /\ m.file # "own"
    BY <1>2, ListensGood DEF Listens, Bound2, Accepting, Unbinding, Leaving, Waiting, Waits,
       Greets, Lacks,
        Hands, Cancels, Cancelled, Returned
  <2>2. m.conns = <<>> /\ m.events = <<>>
    BY <2>1 DEF Gone
  <2>3. \A c \in Conn : m.c[c] = NoConn
    <3>1. Range(m.conns) = {} /\ m.conn \notin Conn
      BY <2>1, <2>2, ConnNames DEF Range
    <3>2. QED
      BY <2>1, <3>1 DEF Members
  <2>4. Closing(m) = {}
    BY <2>3 DEF Closing, NoConn
  <2>5. Range(m.tasks) = {} /\ m.poll = {}
    BY <2>1, <2>4 DEF TasksOK, ToDo
  <2>6. m.tasks = <<>>
    BY <2>1, <2>5, NoTask
  <2>7. QED
    BY <2>1, <2>2, <2>3, <2>5, <2>6
<1>3. QED
  BY <1>1, <1>2 DEF IInv, LInv

\* Of a bound endpoint that was freed nothing is left: no event or task, no
\* descriptor in the poller, no connection and no file at its address.
THEOREM SpecBoundFreedClean ==
  Spec => []BoundFreedClean
<1>1. IInv => BoundFreedClean
  BY IInvBoundFreedClean
<1>2. QED
  BY <1>1, IInvInit, IInvNext, PTL DEF Spec
=================================================================================
