--------------------------- MODULE Inproc_proofs ---------------------------
(* The inproc connection, for any number of threads, messages and sizes of   *)
(* the queues: while no two calls race, no assertion fails and nothing is    *)
(* used after it is freed; where they cannot race, the sessions implement    *)
(* the connection of Duplex.                                                 *)
EXTENDS Inproc, SequenceTheorems, TLAPS

\* A thread that has popped an event has one.
PoppedSound == \A t \in Thread : popped[t] => flight[t] # <<>>

\* A message that is on its way, or waits at the peer, was sent.
SentSound ==
    \A s \in End : receiving[s] \/ Ev("SENT", s) \in UnderWay => nsent[Other(s)] > 0

-----------------------------------------------------------------------------
(* The phases of a connection.                                              *)

\* Only thread t carries events, and these; or no thread carries any.
Only(t, events) ==
    /\ flight[t] = events
    /\ \A u \in Thread \ {t} : flight[u] = <<>>

Nothing == \A t \in Thread : flight[t] = <<>>

Unconnected ==
    /\ state["c"] = "NONE" /\ state["a"] = "NONE" /\ ep["c"] = "NONE"
    /\ \A s \in End : pipe[s] = "NONE" /\ ~sending[s] /\ ~receiving[s] /\ queue[s] = <<>>
    /\ Nothing

Connecting(t) ==
    /\ state["c"] = "CONNECTING" /\ ep["c"] # "NONE"
    /\ \A s \in End : pipe[s] = "NONE" /\ ~sending[s] /\ ~receiving[s] /\ queue[s] = <<>>
    /\ \/ state["a"] = "NONE" /\ ep["a"] = "ACTIVE" /\ Only(t, <<Ev("CONNECT", "a")>>)
       \/ state["a"] = "READY" /\ peer["a"] /\ Only(t, <<Ev("READY", "c")>>)

Accepting(t) ==
    /\ state["c"] = "ACTIVE" /\ state["a"] = "READY" /\ ep["c"] # "NONE"
    /\ pipe["c"] = "UP" /\ pipe["a"] = "NONE" /\ ~sending["a"]
    /\ \A s \in End : peer[s] /\ ~receiving[s] /\ queue[s] = <<>>
    /\ Only(t, IF sending["c"] THEN <<Ev("ACCEPTED", "a"), Ev("SENT", "a")>>
                               ELSE <<Ev("ACCEPTED", "a")>>)

\* Each event is on its way once.
EventsOnce ==
    \A t, u \in Thread : \A i \in 1..Len(flight[t]), j \in 1..Len(flight[u]) :
       flight[t][i] = flight[u][j] => t = u /\ i = j

\* A message of end s is asked for, waits or is acknowledged, never two of these.
Flow(s) ==
    LET sent     == Ev("SENT", Other(s)) \in UnderWay
        received == Ev("RECEIVED", s) \in UnderWay
    IN
    /\ sent \/ received \/ receiving[Other(s)] => sending[s]
    /\ ~(sent /\ received) /\ ~(sent /\ receiving[Other(s)])
    /\ ~(received /\ receiving[Other(s)])

Open ==
    /\ ep["c"] # "NONE"
    /\ \A s \in End : state[s] = "ACTIVE" /\ peer[s] /\ pipe[s] = "UP" /\ Flow(s)
    /\ \A e \in UnderWay : e.type \in {"SENT", "RECEIVED"}
    /\ EventsOnce

\* End s stops; the other one does not know it yet, stops too, or has answered.
Closing(s, t) ==
    /\ state[s] = "STOPPING_PEER" /\ state[Other(s)] = "ACTIVE" /\ ep["c"] # "NONE"
    /\ pipe[s] = "DOWN" /\ peer[Other(s)]
    /\ Only(t, <<Ev("DISCONNECT", Other(s))>>)

BothClosing(t, u) ==
    /\ \A s \in End : state[s] = "STOPPING_PEER" /\ pipe[s] = "DOWN"
    /\ ep["c"] # "NONE"
    /\ t # u
    /\ flight[t] = <<Ev("DISCONNECT", "c")>> /\ flight[u] = <<Ev("DISCONNECT", "a")>>
    /\ \A v \in Thread \ {t, u} : flight[v] = <<>>

Answered(s, t) ==
    /\ state[s] = "STOPPING_PEER" /\ state[Other(s)] \in {"FREED", "DISCONNECTED"}
    /\ ep["c"] # "NONE"
    /\ \A r \in End : pipe[r] = "DOWN"
    /\ Only(t, <<Ev("DISCONNECT", s)>>)

Closed(s) ==
    /\ state[s] = "FREED" /\ state[Other(s)] \in {"FREED", "DISCONNECTED"}
    /\ ep["c"] # "NONE"
    /\ \A r \in End : pipe[r] = "DOWN"
    /\ Nothing

Phase ==
    \/ Unconnected \/ Open
    \/ \E t \in Thread : Connecting(t) \/ Accepting(t)
    \/ \E s \in End, t \in Thread : Closing(s, t) \/ Answered(s, t)
    \/ \E t, u \in Thread : BothClosing(t, u)
    \/ \E s \in End : Closed(s)

IInv ==
    /\ TypeOK /\ PoppedSound /\ SentSound
    /\ raced = {} => aborted = FALSE /\ Phase
-----------------------------------------------------------------------------
(* Events and those who carry them.                                         *)

\* An event is told by its type and its end, and so is its object.
LEMMA EventFacts ==
  ASSUME NEW type, NEW s
  PROVE  Ev(type, s).type = type /\ Ev(type, s).to = s
BY DEF Ev

\* What is left of a sequence, and what comes first.
LEMMA TailFacts ==
  ASSUME NEW S, NEW q \in Seq(S), q # <<>>
  PROVE  /\ Tail(q) \in Seq(S) /\ Len(Tail(q)) = Len(q) - 1
         /\ \A i \in 1..Len(Tail(q)) : Tail(q)[i] = q[i + 1] /\ i + 1 \in 1..Len(q)
         /\ 1 \in 1..Len(q) /\ Head(q) = q[1] /\ Head(q) \in S
OBVIOUS

\* One sequence after another.
LEMMA ConcatFacts ==
  ASSUME NEW S, NEW q \in Seq(S), NEW r \in Seq(S)
  PROVE  /\ Len(q \o r) = Len(q) + Len(r)
         /\ \A i \in 1..Len(q \o r) :
               (q \o r)[i] = IF i <= Len(q) THEN q[i] ELSE r[i - Len(q)]
OBVIOUS

\* The two ends.
LEMMA Ends ==
  ASSUME NEW s \in End
  PROVE  /\ Other(s) \in End /\ Other(s) # s /\ Other(Other(s)) = s
         /\ \A r \in End : r = s \/ r = Other(s)
BY DEF End, Other

\* An event under way is carried by a thread, at some place.
LEMMA UnderWayAt ==
  ASSUME NEW e
  PROVE  /\ e \in UnderWay <=> \E t \in Thread : \E i \in DOMAIN flight[t] : e = flight[t][i]
         /\ e \in UnderWay' <=> \E t \in Thread : \E i \in DOMAIN flight'[t] : e = flight'[t][i]
BY DEF UnderWay, ToSet

\* A queued event is under way.
LEMMA QueuedUnderWay ==
  ASSUME TypeOK, PoppedSound, NEW t \in Thread, NEW e \in Queued(t)
  PROVE  e \in UnderWay
<1>1. flight[t] \in Seq(Event)
  BY DEF TypeOK
<1>2. CASE popped[t]
  <2>1. flight[t] # <<>>
    BY <1>2 DEF PoppedSound
  <2>2. PICK i \in DOMAIN Tail(flight[t]) : e = Tail(flight[t])[i]
    BY <1>2 DEF Queued, ToSet
  <2>3. e = flight[t][i + 1] /\ i + 1 \in DOMAIN flight[t]
    BY <1>1, <2>1, <2>2
  <2> QED
    BY <2>3, UnderWayAt
<1>3. CASE ~popped[t]
  BY <1>3, UnderWayAt DEF Queued, ToSet
<1> QED
  BY <1>2, <1>3

\* An active event object belongs to an event under way.
LEMMA ActiveUnderWay ==
  ASSUME TypeOK, PoppedSound, NEW s, NEW name, Active(s, name)
  PROVE  \E e \in UnderWay : Object(e) = <<s, name>>
BY QueuedUnderWay DEF Active

\* Nothing but the popped event is under way: no object is active.
LEMMA LastPopped ==
  ASSUME NEW t \in Thread, NEW e, Only(t, <<e>>), popped[t], NEW s, NEW name,
         TypeOK, PoppedSound
  PROVE  ~Active(s, name)
<1>1. Queued(t) = {}
  <2>1. Tail(<<e>>) = <<>>
    OBVIOUS
  <2> QED
    BY <2>1 DEF Only, Queued, ToSet
<1>2. ASSUME NEW u \in Thread \ {t} PROVE Queued(u) = {}
  BY DEF Only, Queued, ToSet, PoppedSound
<1> QED
  BY <1>1, <1>2 DEF Active

\* What is under way when one thread carries everything, or none does anything.
LEMMA OnlyUnderWay ==
  ASSUME NEW t \in Thread
  PROVE  /\ \A e : Only(t, <<e>>) => UnderWay = {e}
         /\ \A e, f : Only(t, <<e, f>>) => UnderWay = {e, f}
         /\ Nothing => UnderWay = {}
<1>1. ASSUME NEW e, Only(t, <<e>>) PROVE UnderWay = {e}
  <2>1. DOMAIN <<e>> = {1} /\ <<e>>[1] = e
    OBVIOUS
  <2>2. ASSUME NEW x PROVE x \in UnderWay <=> x = e
    BY <1>1, <2>1, UnderWayAt DEF Only
  <2> QED
    BY <2>2
<1>2. ASSUME NEW e, NEW f, Only(t, <<e, f>>) PROVE UnderWay = {e, f}
  <2>1. DOMAIN <<e, f>> = {1, 2} /\ <<e, f>>[1] = e /\ <<e, f>>[2] = f
    OBVIOUS
  <2>2. ASSUME NEW x PROVE x \in UnderWay <=> x \in {e, f}
    BY <1>2, <2>1, UnderWayAt DEF Only
  <2> QED
    BY <2>2
<1>3. ASSUME Nothing PROVE UnderWay = {}
  BY <1>3 DEF Nothing, UnderWay, ToSet
<1> QED
  BY <1>1, <1>2, <1>3

\* The same after a step.
LEMMA OnlyUnderWayNext ==
  ASSUME NEW t \in Thread
  PROVE  /\ Only(t, <<>>)' => UnderWay' = {}
         /\ \A e : Only(t, <<e>>)' => UnderWay' = {e}
         /\ \A e, f : Only(t, <<e, f>>)' => UnderWay' = {e, f}
<1>1. ASSUME NEW e, Only(t, <<e>>)' PROVE UnderWay' = {e}
  <2>1. DOMAIN <<e>> = {1} /\ <<e>>[1] = e
    OBVIOUS
  <2>2. ASSUME NEW x PROVE x \in UnderWay' <=> x = e
    BY <1>1, <2>1, UnderWayAt DEF Only
  <2> QED
    BY <2>2
<1>2. ASSUME NEW e, NEW f, Only(t, <<e, f>>)' PROVE UnderWay' = {e, f}
  <2>1. DOMAIN <<e, f>> = {1, 2} /\ <<e, f>>[1] = e /\ <<e, f>>[2] = f
    OBVIOUS
  <2>2. ASSUME NEW x PROVE x \in UnderWay' <=> x \in {e, f}
    BY <1>2, <2>1, UnderWayAt DEF Only
  <2> QED
    BY <2>2
<1>3. ASSUME Only(t, <<>>)' PROVE UnderWay' = {}
  BY <1>3, UnderWayAt DEF Only
<1> QED
  BY <1>1, <1>2, <1>3

\* The end of a session: what is under way afterwards.
LEMMA LeaveFlight ==
  ASSUME TypeOK, PoppedSound, NEW t \in Thread, NEW raised \in Seq(Event), Leave(t, raised)
  PROVE  /\ \A u \in Thread \ {t} : flight'[u] = flight[u] /\ popped'[u] = popped[u]
         /\ flight'[t] = raised \o (IF popped[t] THEN Tail(flight[t]) ELSE flight[t])
         /\ popped'[t] = FALSE /\ popped' \in [Thread -> BOOLEAN]
         /\ flight' \in [Thread -> Seq(Event)] /\ \A u \in Thread : flight'[u] \in Seq(Event)
         /\ PoppedSound'
         /\ \A e \in UnderWay' : e \in UnderWay \/ \E i \in 1..Len(raised) : e = raised[i]
<1> DEFINE rest == IF popped[t] THEN Tail(flight[t]) ELSE flight[t]
<1>0. popped \in [Thread -> BOOLEAN] /\ flight \in [Thread -> Seq(Event)]
  BY DEF TypeOK
<1>1. flight' = [flight EXCEPT ![t] = raised \o rest]
  BY DEF Leave
<1>2. popped' = [popped EXCEPT ![t] = FALSE]
  BY DEF Leave
<1>3. rest \in Seq(Event) /\ \A i \in 1..Len(rest) : \E j \in 1..Len(flight[t]) : rest[i] = flight[t][j]
  <2>1. CASE popped[t]
    <3>1. flight[t] # <<>>
      BY <2>1 DEF PoppedSound
    <3>2. rest = Tail(flight[t])
      BY <2>1
    <3>3. flight[t] \in Seq(Event)
      BY <1>0
    <3> QED
      BY <3>1, <3>2, <3>3, TailFacts
  <2>2. CASE ~popped[t]
    BY <2>2, <1>0
  <2> QED
    BY <2>1, <2>2
<1> HIDE DEF rest
<1>4. flight'[t] = raised \o rest
  BY <1>0, <1>1
<1>5. \A u \in Thread \ {t} : flight'[u] = flight[u] /\ popped'[u] = popped[u]
  BY <1>0, <1>1, <1>2
<1>6. popped'[t] = FALSE /\ popped' \in [Thread -> BOOLEAN]
  BY <1>0, <1>2
<1>7. raised \o rest \in Seq(Event)
  BY <1>3
<1>8. flight' \in [Thread -> Seq(Event)]
  BY <1>0, <1>1, <1>7
<1>9. PoppedSound'
  BY <1>5, <1>6 DEF PoppedSound
<1>10. ASSUME NEW e \in UnderWay' PROVE e \in UnderWay \/ \E i \in 1..Len(raised) : e = raised[i]
  <2>1. PICK u \in Thread : \E i \in DOMAIN flight'[u] : e = flight'[u][i]
    BY UnderWayAt
  <2>2. CASE u # t
    BY <2>1, <2>2, <1>5, UnderWayAt
  <2>3. CASE u = t
    <3>1. PICK i \in 1..Len(raised \o rest) : e = (raised \o rest)[i]
      BY <2>1, <2>3, <1>4, <1>7
    <3>2. CASE i <= Len(raised)
      BY <3>1, <3>2, <1>3
    <3>3. CASE i > Len(raised)
      <4>1. i - Len(raised) \in 1..Len(rest) /\ e = rest[i - Len(raised)]
        BY <3>1, <3>3, <1>3
      <4>2. PICK j \in 1..Len(flight[t]) : e = flight[t][j]
        BY <4>1, <1>3
      <4>3. j \in DOMAIN flight[t]
        BY <4>2, <1>0
      <4> QED
        BY <4>2, <4>3, UnderWayAt
    <3> QED
      BY <3>1, <3>2, <3>3, <1>3
  <2> QED
    BY <2>2, <2>3
<1> QED
  BY <1>4, <1>5, <1>6, <1>8, <1>9, <1>10 DEF rest

\* One thread carries everything, or none anything, and processes or raises events.
LEMMA LeaveOnly ==
  ASSUME TypeOK, PoppedSound, NEW t \in Thread, NEW raised \in Seq(Event), Leave(t, raised)
  PROVE  /\ Nothing => Only(t, raised)'
         /\ \A e : popped[t] /\ Only(t, <<e>>) => Only(t, raised)'
         /\ \A e, f : popped[t] /\ Only(t, <<e, f>>) => Only(t, raised \o <<f>>)'
<1> DEFINE rest == IF popped[t] THEN Tail(flight[t]) ELSE flight[t]
<1>a. /\ flight'[t] = raised \o rest
      /\ \A u \in Thread \ {t} : flight'[u] = flight[u]
  BY LeaveFlight
<1>b. raised \o <<>> = raised
  OBVIOUS
<1>1. ASSUME Nothing PROVE Only(t, raised)'
  <2>1. flight[t] = <<>> /\ popped[t] = FALSE
    BY <1>1 DEF Nothing, PoppedSound, TypeOK
  <2>2. flight'[t] = raised
    BY <2>1, <1>a, <1>b
  <2> QED
    BY <2>2, <1>1, <1>a DEF Only, Nothing
<1>2. ASSUME NEW e, popped[t], Only(t, <<e>>) PROVE Only(t, raised)'
  <2>1. Tail(<<e>>) = <<>>
    OBVIOUS
  <2>2. rest = <<>>
    BY <2>1, <1>2 DEF Only
  <2>3. flight'[t] = raised
    BY <2>2, <1>a, <1>b
  <2> QED
    BY <2>3, <1>2, <1>a DEF Only
<1>3. ASSUME NEW e, NEW f, popped[t], Only(t, <<e, f>>) PROVE Only(t, raised \o <<f>>)'
  <2>1. Tail(<<e, f>>) = <<f>>
    OBVIOUS
  <2>2. rest = <<f>>
    BY <2>1, <1>3 DEF Only
  <2>3. flight'[t] = raised \o <<f>>
    BY <2>2, <1>a
  <2> QED
    BY <2>3, <1>3, <1>a DEF Only
<1> QED
  BY <1>1, <1>2, <1>3

\* Where an event is after a session: at the front what was raised, then what
\* was left.
LEMMA LeaveAt ==
  ASSUME TypeOK, PoppedSound, NEW t \in Thread, NEW raised \in Seq(Event), Leave(t, raised),
         NEW d, d = IF popped[t] THEN 1 ELSE 0
  PROVE  /\ \A i \in 1..Len(flight'[t]) : i <= Len(raised) => flight'[t][i] = raised[i]
         /\ \A i \in 1..Len(flight'[t]) : i > Len(raised) =>
               /\ flight'[t][i] = flight[t][i - Len(raised) + d]
               /\ i - Len(raised) + d \in 1 + d..Len(flight[t])
<1> DEFINE rest == IF popped[t] THEN Tail(flight[t]) ELSE flight[t]
<1>1. flight'[t] = raised \o rest
  BY LeaveFlight
<1>2. flight[t] \in Seq(Event)
  BY DEF TypeOK
<1>3. /\ rest \in Seq(Event) /\ Len(rest) = Len(flight[t]) - d
      /\ \A i \in 1..Len(rest) : rest[i] = flight[t][i + d]
  <2>1. CASE popped[t]
    <3>1. flight[t] # <<>> /\ d = 1 /\ rest = Tail(flight[t])
      BY <2>1 DEF PoppedSound
    <3> QED
      BY <3>1, <1>2, TailFacts
  <2>2. CASE ~popped[t]
    <3>1. d = 0 /\ rest = flight[t]
      BY <2>2
    <3> QED
      BY <3>1, <1>2
  <2> QED
    BY <2>1, <2>2
<1> HIDE DEF rest
<1>4. d \in {0, 1}
  OBVIOUS
<1>5. Len(raised \o rest) = Len(raised) + Len(rest)
  BY <1>3, ConcatFacts
<1>6. ASSUME NEW i \in 1..Len(raised \o rest), i <= Len(raised)
      PROVE  (raised \o rest)[i] = raised[i]
  BY <1>6, <1>3, ConcatFacts
<1>7. ASSUME NEW i \in 1..Len(raised \o rest), i > Len(raised)
      PROVE  /\ (raised \o rest)[i] = flight[t][i - Len(raised) + d]
             /\ i - Len(raised) + d \in 1 + d..Len(flight[t])
  <2>1. Len(raised) \in Nat /\ Len(rest) \in Nat /\ Len(flight[t]) \in Nat
    BY <1>2, <1>3
  <2>2. i - Len(raised) \in 1..Len(rest)
    BY <1>5, <1>7, <2>1
  <2>3. (raised \o rest)[i] = rest[i - Len(raised)]
    <3>1. (raised \o rest)[i] = IF i <= Len(raised) THEN raised[i] ELSE rest[i - Len(raised)]
      BY <1>3, ConcatFacts
    <3> QED
      BY <3>1, <1>7, <2>1
  <2>4. rest[i - Len(raised)] = flight[t][i - Len(raised) + d]
    BY <1>3, <2>2
  <2> QED
    BY <1>3, <1>4, <2>1, <2>2, <2>3, <2>4
<1> QED
  BY <1>1, <1>6, <1>7

\* A session that raises at most one event, one that is not under way, leaves
\* every event under way once, and the processed one not at all.
LEMMA LeaveOnce ==
  ASSUME TypeOK, PoppedSound, EventsOnce, NEW t \in Thread,
         NEW raised \in Seq(Event), Leave(t, raised),
         raised = <<>> \/ \E x : x \notin UnderWay /\ raised = <<x>>
  PROVE  EventsOnce' /\ (popped[t] => Head(flight[t]) \notin UnderWay')
<1> PICK d : d = IF popped[t] THEN 1 ELSE 0
  OBVIOUS
<1> PICK n : n = Len(raised)
  OBVIOUS
<1>1. n \in {0, 1} /\ d \in {0, 1} /\ (n = 1 => \E x : x \notin UnderWay /\ raised = <<x>>)
  <2>1. CASE raised = <<>>
    BY <2>1
  <2>2. CASE \E x : x \notin UnderWay /\ raised = <<x>>
    BY <2>2
  <2> QED
    BY <2>1, <2>2
<1>2. /\ \A i \in 1..Len(flight'[t]) : i <= n => flight'[t][i] = raised[i]
      /\ \A i \in 1..Len(flight'[t]) : i > n =>
            flight'[t][i] = flight[t][i - n + d] /\ i - n + d \in 1 + d..Len(flight[t])
  BY LeaveAt
<1>3. \A u \in Thread \ {t} : flight'[u] = flight[u]
  BY LeaveFlight
<1>4. \A u \in Thread : Len(flight[u]) \in Nat /\ flight[u] \in Seq(Event)
  BY DEF TypeOK
<1>5. \A u \in Thread : Len(flight'[u]) \in Nat /\ flight'[u] \in Seq(Event)
  <2>1. \A u \in Thread : flight'[u] \in Seq(Event)
    BY LeaveFlight
  <2> QED
    BY <2>1
<1>6. ASSUME n = 1, NEW u \in Thread, NEW i \in 1..Len(flight[u])
      PROVE  flight[u][i] # raised[1]
  <2>1. PICK x : x \notin UnderWay /\ raised = <<x>>
    BY <1>1, <1>6
  <2>2. i \in DOMAIN flight[u]
    BY <1>4
  <2> QED
    BY <2>1, <2>2, UnderWayAt
\* An event is the raised one, or was at a place before.
<1>7. ASSUME NEW u \in Thread, NEW i \in 1..Len(flight'[u])
      PROVE  \/ u = t /\ i = 1 /\ n = 1 /\ flight'[u][i] = raised[1]
             \/ \E k \in 1..Len(flight[u]) : /\ flight'[u][i] = flight[u][k]
                                             /\ u = t => k = i - n + d /\ k >= 1 + d
                                             /\ u # t => k = i
  <2>1. CASE u # t
    <3>1. flight'[u] = flight[u]
      BY <2>1, <1>3
    <3> QED
      BY <2>1, <3>1
  <2>2. CASE u = t /\ i <= n
    <3>1. i = 1 /\ n = 1
      BY <2>2, <1>1, <1>5
    <3> QED
      BY <2>2, <3>1, <1>2
  <2>3. CASE u = t /\ i > n
    <3>1. flight'[t][i] = flight[t][i - n + d] /\ i - n + d \in 1 + d..Len(flight[t])
      BY <2>3, <1>2
    <3>2. i - n + d \in 1..Len(flight[t]) /\ i - n + d >= 1 + d
      BY <3>1, <1>1, <1>4, <1>5
    <3> QED
      BY <2>3, <3>1, <3>2
  <2> QED
    BY <2>1, <2>2, <2>3, <1>1, <1>5
<1>8. ASSUME NEW u \in Thread, NEW v \in Thread,
             NEW k \in 1..Len(flight[u]), NEW l \in 1..Len(flight[v]), flight[u][k] = flight[v][l]
      PROVE  u = v /\ k = l
  BY <1>8 DEF EventsOnce
<1>9. EventsOnce'
  <2> SUFFICES ASSUME NEW u \in Thread, NEW v \in Thread,
                      NEW i \in 1..Len(flight'[u]), NEW j \in 1..Len(flight'[v]),
                      flight'[u][i] = flight'[v][j]
               PROVE  u = v /\ i = j
    BY DEF EventsOnce
  <2>0. i \in Nat /\ j \in Nat
    BY <1>5
  <2> DEFINE raisedAt(w, m) == w = t /\ m = 1 /\ n = 1 /\ flight'[w][m] = raised[1]
  <2>1. CASE raisedAt(u, i) /\ raisedAt(v, j)
    BY <2>1
  <2>2. CASE ~raisedAt(u, i) /\ raisedAt(v, j)
    <3>1. PICK k \in 1..Len(flight[u]) : flight'[u][i] = flight[u][k]
      BY <2>2, <1>7
    <3> QED
      BY <2>2, <3>1, <1>6
  <2>3. CASE raisedAt(u, i) /\ ~raisedAt(v, j)
    <3>1. PICK l \in 1..Len(flight[v]) : flight'[v][j] = flight[v][l]
      BY <2>3, <1>7
    <3> QED
      BY <2>3, <3>1, <1>6
  <2>4. CASE ~raisedAt(u, i) /\ ~raisedAt(v, j)
    <3>1. PICK k \in 1..Len(flight[u]) : /\ flight'[u][i] = flight[u][k]
                                         /\ u = t => k = i - n + d
                                         /\ u # t => k = i
      BY <2>4, <1>7
    <3>2. PICK l \in 1..Len(flight[v]) : /\ flight'[v][j] = flight[v][l]
                                         /\ v = t => l = j - n + d
                                         /\ v # t => l = j
      BY <2>4, <1>7
    <3>3. flight[u][k] = flight[v][l]
      BY <3>1, <3>2
    <3>4. u = v /\ k = l
      BY <3>3, <1>8
    <3> QED
      BY <3>1, <3>2, <3>4, <2>0, <1>1
  <2> QED
    BY <2>1, <2>2, <2>3, <2>4
<1>10. ASSUME popped[t] PROVE Head(flight[t]) \notin UnderWay'
  <2>1. d = 1 /\ flight[t] # <<>>
    BY <1>10 DEF PoppedSound
  <2>2. 1 \in 1..Len(flight[t]) /\ Head(flight[t]) = flight[t][1]
    BY <2>1, <1>4, TailFacts
  <2> SUFFICES ASSUME Head(flight[t]) \in UnderWay' PROVE FALSE
    OBVIOUS
  <2>3. PICK u \in Thread : \E i \in DOMAIN flight'[u] : flight[t][1] = flight'[u][i]
    BY <2>2, UnderWayAt
  <2>4. PICK i \in 1..Len(flight'[u]) : flight[t][1] = flight'[u][i]
    BY <2>3, <1>5
  <2>5. CASE u = t /\ i = 1 /\ n = 1 /\ flight'[u][i] = raised[1]
    BY <2>5, <2>4, <2>2, <1>6
  <2>6. ASSUME NEW k \in 1..Len(flight[u]), flight'[u][i] = flight[u][k], u = t => k >= 1 + d
        PROVE  FALSE
    <3>1. t = u /\ 1 = k
      BY <2>2, <2>4, <2>6, <1>8
    <3> QED
      BY <3>1, <2>1, <2>6
  <2> QED
    BY <2>5, <2>6, <1>7
<1> QED
  BY <1>9, <1>10

\* An event that is not under way, raised while only messages are, clashes with none.
LEMMA NoClash ==
  ASSUME TypeOK, PoppedSound, NEW x \in Event, x \notin UnderWay,
         x.type \in {"SENT", "RECEIVED"},
         \A e \in UnderWay : e.type \in {"SENT", "RECEIVED"}
  PROVE  ~Clash(<<x>>)
<1> SUFFICES ASSUME Active(Object(x)[1], Object(x)[2]) PROVE FALSE
  BY DEF Clash
<1>1. Object(x) = <<x.to, x.type>>
  BY DEF Object, Handshake
<1>2. PICK e \in UnderWay : Object(e) = <<x.to, x.type>>
  BY <1>1, ActiveUnderWay
<1>3. e \in Event
  <2>1. \A t \in Thread : flight[t] \in Seq(Event)
    BY DEF TypeOK
  <2> QED
    BY <2>1, UnderWayAt
<1>4. Object(e) = <<e.to, e.type>>
  BY DEF Object, Handshake
<1>5. e.to = x.to /\ e.type = x.type
  BY <1>2, <1>4
<1> QED
  BY <1>2, <1>3, <1>5 DEF Event

-----------------------------------------------------------------------------
(* Types, and messages that were sent, whatever races.                      *)

Sane == TypeOK /\ PoppedSound /\ SentSound

\* What is on its way was sent, if that is true of what is raised.
LEMMA SentKept ==
  ASSUME Sane,
         \A s \in End : nsent'[s] \in Nat /\ nsent'[s] >= nsent[s],
         \A s \in End : receiving'[s] => receiving[s] \/ nsent'[Other(s)] > 0,
         \A s \in End : Ev("SENT", s) \in UnderWay' =>
                           Ev("SENT", s) \in UnderWay \/ nsent'[Other(s)] > 0
  PROVE  SentSound'
<1> SUFFICES ASSUME NEW s \in End, receiving'[s] \/ Ev("SENT", s) \in UnderWay'
             PROVE  nsent'[Other(s)] > 0
  BY DEF SentSound
<1>1. receiving[s] \/ Ev("SENT", s) \in UnderWay => nsent[Other(s)] > 0
  BY DEF Sane, SentSound
<1>2. Other(s) \in End /\ nsent[Other(s)] \in Nat
  BY Ends, InprocAssumption DEF Sane, TypeOK
<1> QED
  BY <1>1, <1>2

\* An event or nothing is raised.
LEMMA RaisedType ==
  /\ <<>> \in Seq(Event)
  /\ \A type \in Handshake \cup {"SENT", "RECEIVED", "DISCONNECT"}, s \in End :
        Ev(type, s) \in Event /\ <<Ev(type, s)>> \in Seq(Event)
<1>1. ASSUME NEW type \in Handshake \cup {"SENT", "RECEIVED", "DISCONNECT"}, NEW s \in End
      PROVE  Ev(type, s) \in Event
  BY DEF Ev, Event
<1> QED
  BY <1>1

\* The session ends; nothing that is raised is a SENT.
LEMMA LeaveSane ==
  ASSUME Sane, NEW t \in Thread, NEW raised \in Seq(Event), Leave(t, raised),
         \A i \in 1..Len(raised) : raised[i].type # "SENT"
  PROVE  /\ flight' \in [Thread -> Seq(Event)] /\ popped' \in [Thread -> BOOLEAN]
         /\ PoppedSound'
         /\ \A s \in End : Ev("SENT", s) \in UnderWay' => Ev("SENT", s) \in UnderWay
<1>1. /\ flight' \in [Thread -> Seq(Event)] /\ popped' \in [Thread -> BOOLEAN]
      /\ PoppedSound'
      /\ \A e \in UnderWay' : e \in UnderWay \/ \E i \in 1..Len(raised) : e = raised[i]
  BY LeaveFlight DEF Sane
<1> QED
  BY <1>1, EventFacts

\* The session ends, and nothing is raised.
LEMMA LeaveNothing ==
  ASSUME Sane, NEW t \in Thread, Leave(t, <<>>)
  PROVE  /\ flight' \in [Thread -> Seq(Event)] /\ popped' \in [Thread -> BOOLEAN]
         /\ PoppedSound'
         /\ \A s \in End : Ev("SENT", s) \in UnderWay' => Ev("SENT", s) \in UnderWay
<1>1. <<>> \in Seq(Event) /\ \A i \in 1..Len(<<>>) : <<>>[i].type # "SENT"
  OBVIOUS
<1> QED
  BY <1>1, LeaveSane

\* The same with a message that is sent.
LEMMA LeaveSends ==
  ASSUME Sane, NEW t \in Thread, NEW s \in End, NEW raised \in Seq(Event),
         Leave(t, Append(raised, Ev("SENT", Other(s)))),
         \A i \in 1..Len(raised) : raised[i].type # "SENT", SendOn(s), nsent[s] < MaxMsg
  PROVE  /\ flight' \in [Thread -> Seq(Event)] /\ popped' \in [Thread -> BOOLEAN]
         /\ PoppedSound'
         /\ sending' \in [End -> BOOLEAN] /\ nsent' \in [End -> 0..MaxMsg]
         /\ \A r \in End : nsent'[r] \in Nat /\ nsent'[r] >= nsent[r]
         /\ \A r \in End : Ev("SENT", r) \in UnderWay' =>
                              Ev("SENT", r) \in UnderWay \/ nsent'[Other(r)] > 0
<1> PICK all : all = Append(raised, Ev("SENT", Other(s)))
  OBVIOUS
<1>1. Other(s) \in End /\ Ev("SENT", Other(s)) \in Event
  BY Ends, RaisedType
<1>2. all \in Seq(Event) /\ Len(all) = Len(raised) + 1 /\ all[Len(raised) + 1] = Ev("SENT", Other(s))
      /\ \A i \in 1..Len(raised) : all[i] = raised[i]
  BY <1>1
<1>3. /\ flight' \in [Thread -> Seq(Event)] /\ popped' \in [Thread -> BOOLEAN]
      /\ PoppedSound'
      /\ \A e \in UnderWay' : e \in UnderWay \/ \E i \in 1..Len(all) : e = all[i]
  BY <1>2, LeaveFlight DEF Sane
<1>4. sending \in [End -> BOOLEAN] /\ nsent \in [End -> 0..MaxMsg] /\ MaxMsg \in Nat
  BY InprocAssumption DEF Sane, TypeOK
<1>5. sending' \in [End -> BOOLEAN] /\ nsent' \in [End -> 0..MaxMsg]
  BY <1>4 DEF SendOn
<1>6. \A r \in End : nsent'[r] \in Nat /\ nsent'[r] >= nsent[r]
  BY <1>4 DEF SendOn
<1>7. nsent'[s] > 0
  BY <1>4 DEF SendOn
<1>8. ASSUME NEW r \in End, Ev("SENT", r) \in UnderWay', Ev("SENT", r) \notin UnderWay
      PROVE  nsent'[Other(r)] > 0
  <2>1. PICK i \in 1..Len(all) : Ev("SENT", r) = all[i]
    BY <1>3, <1>8
  <2>2. i = Len(raised) + 1
    BY <1>2, <2>1, EventFacts
  <2>3. Ev("SENT", r) = Ev("SENT", Other(s))
    BY <1>2, <2>1, <2>2
  <2>4. r = Other(s)
    BY <2>3 DEF Ev
  <2> QED
    BY <2>4, <1>7, Ends
<1> QED
  BY <1>3, <1>5, <1>6, <1>8

\* A pipe that has become writable.
LEMMA WritableSane ==
  ASSUME Sane, NEW t \in Thread, NEW s \in End, NEW raised \in Seq(Event),
         \A i \in 1..Len(raised) : raised[i].type # "SENT", Writable(t, s, raised)
  PROVE  /\ flight' \in [Thread -> Seq(Event)] /\ popped' \in [Thread -> BOOLEAN]
         /\ PoppedSound' /\ aborted' \in BOOLEAN
         /\ sending' \in [End -> BOOLEAN] /\ nsent' \in [End -> 0..MaxMsg]
         /\ \A r \in End : nsent'[r] \in Nat /\ nsent'[r] >= nsent[r]
         /\ \A r \in End : Ev("SENT", r) \in UnderWay' =>
                              Ev("SENT", r) \in UnderWay \/ nsent'[Other(r)] > 0
<1>1. sending \in [End -> BOOLEAN] /\ nsent \in [End -> 0..MaxMsg] /\ MaxMsg \in Nat
  BY InprocAssumption DEF Sane, TypeOK
<1>2. CASE /\ sending' = [sending EXCEPT ![s] = FALSE]
           /\ Leave(t, raised)
           /\ aborted' = Clash(raised)
           /\ UNCHANGED nsent
  <2>1. sending' \in [End -> BOOLEAN] /\ nsent' \in [End -> 0..MaxMsg]
    BY <1>1, <1>2
  <2>2. \A r \in End : nsent'[r] \in Nat /\ nsent'[r] >= nsent[r]
    BY <1>1, <1>2
  <2>3. aborted' \in BOOLEAN
    BY <1>2 DEF Clash, Active
  <2> QED
    BY <1>2, <2>1, <2>2, <2>3, LeaveSane
<1>3. CASE /\ nsent[s] < MaxMsg
           /\ SendOn(s)
           /\ Leave(t, Append(raised, Ev("SENT", Other(s))))
           /\ aborted' = (state[Other(s)] = "FREED" \/ Clash(Append(raised, Ev("SENT", Other(s)))))
  <2>1. aborted' \in BOOLEAN
    BY <1>3
  <2> QED
    BY <1>3, <2>1, LeaveSends
<1> QED
  BY <1>2, <1>3 DEF Writable

\* A session that is freed, or waits.
LEMMA VanishSane ==
  ASSUME Sane, NEW s \in End, NEW e \in {"NONE", "ACTIVE", "STOPPING", "IDLE"}, Vanish(s, e)
  PROVE  /\ state' \in [End -> {"NONE", "CONNECTING", "READY", "ACTIVE",
                                "DISCONNECTED", "STOPPING_PEER", "STOPPING", "FREED"}]
         /\ ep' \in [End -> {"NONE", "ACTIVE", "STOPPING", "IDLE"}]
         /\ aborted' \in BOOLEAN
BY DEF Sane, TypeOK, Vanish

\* A session that is disconnected.
LEMMA DisconnectedSane ==
  ASSUME Sane, NEW s \in End, Disconnected(s)
  PROVE  /\ state' \in [End -> {"NONE", "CONNECTING", "READY", "ACTIVE",
                                "DISCONNECTED", "STOPPING_PEER", "STOPPING", "FREED"}]
         /\ ep' \in [End -> {"NONE", "ACTIVE", "STOPPING", "IDLE"}]
         /\ pipe' \in [End -> {"NONE", "UP", "DOWN"}] /\ peer' \in [End -> BOOLEAN]
         /\ aborted' \in BOOLEAN
<1>1. pipe' \in [End -> {"NONE", "UP", "DOWN"}] /\ peer' \in [End -> BOOLEAN]
  BY DEF Sane, TypeOK, Disconnected
<1>2. CASE kind[s] = "binproc"
  <2>1. Vanish(s, ep[s]) /\ ep[s] \in {"NONE", "ACTIVE", "STOPPING", "IDLE"}
    BY <1>2 DEF Disconnected, Sane, TypeOK
  <2> QED
    BY <2>1, <1>1, VanishSane
<1>3. CASE kind[s] # "binproc"
  <2>1. state' = [state EXCEPT ![s] = "DISCONNECTED"] /\ ep' = ep /\ aborted' = aborted
    BY <1>3 DEF Disconnected
  <2>2. /\ state \in [End -> {"NONE", "CONNECTING", "READY", "ACTIVE",
                             "DISCONNECTED", "STOPPING_PEER", "STOPPING", "FREED"}]
        /\ ep \in [End -> {"NONE", "ACTIVE", "STOPPING", "IDLE"}] /\ aborted \in BOOLEAN
    BY DEF Sane, TypeOK
  <2> QED
    BY <2>1, <2>2, <1>1
<1> QED
  BY <1>2, <1>3

\* Joining a race is remembered.
LEMMA RacedType ==
  ASSUME Sane, NEW t, NEW call, Calls(t, call)
  PROVE  raced' \in SUBSET Races
BY DEF Sane, TypeOK, Calls

\* The calls of the application.
LEMMA ConnectSane ==
  ASSUME Sane, NEW t \in Thread, Connect(t)
  PROVE  Sane'
<1>1. <<Ev("CONNECT", "a")>> \in Seq(Event)
  BY RaisedType DEF End, Handshake
<1>2. \A i \in 1..Len(<<Ev("CONNECT", "a")>>) : <<Ev("CONNECT", "a")>>[i].type # "SENT"
  BY EventFacts
<1>3. /\ flight' \in [Thread -> Seq(Event)] /\ popped' \in [Thread -> BOOLEAN] /\ PoppedSound'
      /\ \A s \in End : Ev("SENT", s) \in UnderWay' => Ev("SENT", s) \in UnderWay
  BY <1>1, <1>2, LeaveSane DEF Connect
<1>4. TypeOK'
  BY <1>3 DEF Connect, Sane, TypeOK, flagvars, datavars, Idle
<1>5. SentSound'
  <2>1. \A s \in End : nsent'[s] \in Nat /\ nsent'[s] >= nsent[s]
    BY InprocAssumption DEF Connect, datavars, Sane, TypeOK
  <2>2. receiving' = receiving
    BY DEF Connect, flagvars
  <2> QED
    BY <1>3, <2>1, <2>2, SentKept
<1> QED
  BY <1>3, <1>4, <1>5 DEF Sane

\* A message is sent.
LEMMA SendSane ==
  ASSUME Sane, NEW t \in Thread, NEW s \in End, Send(t, s)
  PROVE  Sane'
<1>1. Leave(t, Append(<<>>, Ev("SENT", Other(s)))) /\ SendOn(s) /\ nsent[s] < MaxMsg
  <2>1. Append(<<>>, Ev("SENT", Other(s))) = <<Ev("SENT", Other(s))>>
    OBVIOUS
  <2> QED
    BY <2>1 DEF Send
<1>2. \A i \in 1..Len(<<>>) : <<>>[i].type # "SENT"
  OBVIOUS
<1>3. /\ flight' \in [Thread -> Seq(Event)] /\ popped' \in [Thread -> BOOLEAN] /\ PoppedSound'
      /\ sending' \in [End -> BOOLEAN] /\ nsent' \in [End -> 0..MaxMsg]
      /\ \A r \in End : nsent'[r] \in Nat /\ nsent'[r] >= nsent[r]
      /\ \A r \in End : Ev("SENT", r) \in UnderWay' =>
                           Ev("SENT", r) \in UnderWay \/ nsent'[Other(r)] > 0
  BY <1>1, <1>2, RaisedType, LeaveSends
<1>4. raced' \in SUBSET Races
  BY RacedType DEF Send
<1>5. aborted' \in BOOLEAN
  BY DEF Send
<1>6. TypeOK'
  BY <1>3, <1>4, <1>5 DEF Send, Sane, TypeOK
<1>7. SentSound'
  BY <1>3, SentKept DEF Send
<1> QED
  BY <1>3, <1>6, <1>7 DEF Sane

\* A message is received, and the one that waits at the peer fetched.
LEMMA RecvSane ==
  ASSUME Sane, NEW t \in Thread, NEW s \in End, Recv(t, s)
  PROVE  Sane'
<1>1. raced' \in SUBSET Races
  BY RacedType DEF Recv
<1>2. /\ queue \in [End -> Seq(1..MaxMsg)] /\ Len(queue[s]) <= MaxQueue /\ queue[s] # <<>>
      /\ \A r \in End : Len(queue[r]) <= MaxQueue
      /\ nsent \in [End -> 0..MaxMsg] /\ MaxMsg \in Nat /\ MaxQueue \in Nat
      /\ taken \in [End -> 0..MaxMsg] /\ receiving \in [End -> BOOLEAN]
  BY InprocAssumption DEF Recv, Sane, TypeOK
<1>3. Tail(queue[s]) \in Seq(1..MaxMsg) /\ Len(Tail(queue[s])) = Len(queue[s]) - 1
      /\ Head(queue[s]) \in 1..MaxMsg
  BY <1>2, TailFacts
<1>4. taken' \in [End -> 0..MaxMsg]
  BY <1>2, <1>3 DEF Recv
<1>5. Len(queue[s]) \in Nat
  BY <1>2
<1>6. CASE /\ receiving[s] /\ queue' = [queue EXCEPT ![s] = Append(Tail(@), nsent[Other(s)])]
          /\ receiving' = [receiving EXCEPT ![s] = FALSE]
          /\ Leave(t, <<Ev("RECEIVED", Other(s))>>)
          /\ aborted' = (Gone(s) \/ Clash(<<Ev("RECEIVED", Other(s))>>))
  <2>1. nsent[Other(s)] \in 1..MaxMsg
    BY <1>2, <1>6, Ends DEF Sane, SentSound
  <2>2. PICK q : q = Append(Tail(queue[s]), nsent[Other(s)])
    OBVIOUS
  <2>3. q \in Seq(1..MaxMsg) /\ Len(q) <= MaxQueue
    BY <1>2, <1>3, <1>5, <2>1, <2>2
  <2>4. queue' = [queue EXCEPT ![s] = q]
    BY <1>6, <2>2
  <2>5. queue' \in [End -> Seq(1..MaxMsg)] /\ \A r \in End : Len(queue'[r]) <= MaxQueue
    BY <1>2, <2>3, <2>4
  <2>6. receiving' = [receiving EXCEPT ![s] = FALSE] /\ Leave(t, <<Ev("RECEIVED", Other(s))>>)
        /\ aborted' \in BOOLEAN
    BY <1>6
  <2>7. <<Ev("RECEIVED", Other(s))>> \in Seq(Event)
        /\ \A i \in 1..Len(<<Ev("RECEIVED", Other(s))>>) : <<Ev("RECEIVED", Other(s))>>[i].type # "SENT"
    BY Ends, RaisedType, EventFacts
  <2>8. /\ flight' \in [Thread -> Seq(Event)] /\ popped' \in [Thread -> BOOLEAN] /\ PoppedSound'
        /\ \A r \in End : Ev("SENT", r) \in UnderWay' => Ev("SENT", r) \in UnderWay
    BY <2>6, <2>7, LeaveSane
  <2>9. receiving' \in [End -> BOOLEAN]
    BY <1>2, <2>6
  <2>10. TypeOK'
    BY <1>1, <1>4, <2>5, <2>6, <2>8, <2>9 DEF Recv, Sane, TypeOK
  <2>11. \A r \in End : nsent'[r] \in Nat /\ nsent'[r] >= nsent[r]
    BY <1>2 DEF Recv
  <2>12. \A r \in End : receiving'[r] => receiving[r]
    BY <1>2, <2>6
  <2>13. SentSound'
    BY <2>8, <2>11, <2>12, SentKept
  <2> QED
    BY <2>8, <2>10, <2>13 DEF Sane
<1>7. CASE queue' = [queue EXCEPT ![s] = Tail(@)] /\ UNCHANGED <<receiving, flight, popped, aborted>>
  <2>1. queue' = [queue EXCEPT ![s] = Tail(queue[s])] /\ UNCHANGED <<receiving, flight, popped, aborted>>
    BY <1>7
  <2>2. queue' \in [End -> Seq(1..MaxMsg)] /\ \A r \in End : Len(queue'[r]) <= MaxQueue
    BY <1>2, <1>3, <1>5, <2>1
  <2>3. TypeOK'
    BY <1>1, <1>4, <2>1, <2>2 DEF Recv, Sane, TypeOK
  <2>4. PoppedSound' /\ SentSound'
    BY <2>1 DEF Recv, Sane, PoppedSound, SentSound, UnderWay
  <2> QED
    BY <2>3, <2>4 DEF Sane
<1> QED
  BY <1>6, <1>7 DEF Recv

\* An endpoint is stopped.
LEMMA StopSane ==
  ASSUME Sane, NEW t \in Thread, NEW s \in End, Stop(t, s)
  PROVE  Sane'
<1>1. raced' \in SUBSET Races
  BY RacedType DEF Stop
<1>2. UNCHANGED <<kind, peer, sending, receiving, datavars>>
  BY DEF Stop
<1>3. CASE /\ ep' = [ep EXCEPT ![s] = "IDLE"] \/ ep' = [ep EXCEPT ![s] = "STOPPING"]
           /\ UNCHANGED <<state, pipe, flight, popped, aborted>>
  <2>1. TypeOK'
    BY <1>1, <1>2, <1>3 DEF Sane, TypeOK, datavars
  <2>2. PoppedSound' /\ SentSound'
    BY <1>2, <1>3 DEF Sane, PoppedSound, SentSound, UnderWay, datavars
  <2> QED
    BY <2>1, <2>2 DEF Sane
<1>4. CASE Vanish(s, "STOPPING") /\ UNCHANGED <<pipe, flight, popped>>
  <2>1. /\ state' \in [End -> {"NONE", "CONNECTING", "READY", "ACTIVE",
                               "DISCONNECTED", "STOPPING_PEER", "STOPPING", "FREED"}]
        /\ ep' \in [End -> {"NONE", "ACTIVE", "STOPPING", "IDLE"}]
        /\ aborted' \in BOOLEAN
    BY <1>4, VanishSane
  <2>2. TypeOK'
    BY <1>1, <1>2, <1>4, <2>1 DEF Sane, TypeOK, datavars
  <2>3. PoppedSound' /\ SentSound'
    BY <1>2, <1>4 DEF Sane, PoppedSound, SentSound, UnderWay, datavars
  <2> QED
    BY <2>2, <2>3 DEF Sane
<1>5. CASE /\ ep' = [ep EXCEPT ![s] = "STOPPING"]
           /\ state' = [state EXCEPT ![s] = "STOPPING_PEER"]
           /\ pipe' = [pipe EXCEPT ![s] = "DOWN"]
           /\ Leave(t, <<Ev("DISCONNECT", Other(s))>>)
           /\ aborted' \in BOOLEAN
  <2>1. <<Ev("DISCONNECT", Other(s))>> \in Seq(Event)
        /\ \A i \in 1..Len(<<Ev("DISCONNECT", Other(s))>>) :
              <<Ev("DISCONNECT", Other(s))>>[i].type # "SENT"
    BY Ends, RaisedType, EventFacts
  <2>2. /\ flight' \in [Thread -> Seq(Event)] /\ popped' \in [Thread -> BOOLEAN] /\ PoppedSound'
        /\ \A r \in End : Ev("SENT", r) \in UnderWay' => Ev("SENT", r) \in UnderWay
    BY <1>5, <2>1, LeaveSane
  <2>3. TypeOK'
    BY <1>1, <1>2, <1>5, <2>2 DEF Sane, TypeOK, datavars
  <2>4. \A r \in End : nsent'[r] \in Nat /\ nsent'[r] >= nsent[r]
    BY <1>2, InprocAssumption DEF Sane, TypeOK, datavars
  <2>5. SentSound'
    BY <1>2, <2>2, <2>4, SentKept
  <2> QED
    BY <2>2, <2>3, <2>5 DEF Sane
<1> QED
  BY <1>3, <1>4, <1>5 DEF Stop

\* Events are popped.
LEMMA PopSane ==
  ASSUME Sane, NEW t \in Thread, Pop(t) \/ Unexpected(t)
  PROVE  Sane'
<1>1. CASE Pop(t)
  <2>1. popped' \in [Thread -> BOOLEAN] /\ \A u \in Thread : popped'[u] => popped[u] \/ u = t
    BY <1>1 DEF Pop, Sane, TypeOK
  <2>2. TypeOK'
    BY <1>1, <2>1 DEF Pop, Sane, TypeOK, flagvars, datavars
  <2>3. PoppedSound'
    BY <1>1, <2>1 DEF Pop, Sane, PoppedSound
  <2>4. SentSound'
    BY <1>1 DEF Pop, Sane, SentSound, UnderWay, flagvars, datavars
  <2> QED
    BY <2>2, <2>3, <2>4 DEF Sane
<1>2. CASE Unexpected(t)
  <2>1. TypeOK'
    BY <1>2 DEF Unexpected, Sane, TypeOK, flagvars, datavars
  <2>2. PoppedSound' /\ SentSound'
    BY <1>2 DEF Unexpected, Sane, PoppedSound, SentSound, UnderWay, flagvars, datavars
  <2> QED
    BY <2>1, <2>2 DEF Sane
<1> QED
  BY <1>1, <1>2

\* The handshake.
LEMMA HandshakeSane ==
  ASSUME Sane, NEW t \in Thread, OnConnect(t) \/ OnReady(t) \/ OnAccepted(t)
  PROVE  Sane'
<1>0. \A r \in End : nsent[r] \in Nat /\ nsent[r] >= nsent[r]
  BY InprocAssumption DEF Sane, TypeOK
<1>1. CASE OnConnect(t)
  <2>1. <<Ev("READY", "c")>> \in Seq(Event)
        /\ \A i \in 1..Len(<<Ev("READY", "c")>>) : <<Ev("READY", "c")>>[i].type # "SENT"
    BY RaisedType, EventFacts DEF End, Handshake
  <2>2. /\ flight' \in [Thread -> Seq(Event)] /\ popped' \in [Thread -> BOOLEAN] /\ PoppedSound'
        /\ \A r \in End : Ev("SENT", r) \in UnderWay' => Ev("SENT", r) \in UnderWay
    BY <1>1, <2>1, LeaveSane DEF OnConnect
  <2>3. TypeOK'
    BY <1>1, <2>2 DEF OnConnect, Sane, TypeOK, datavars
  <2>4. UNCHANGED <<nsent, receiving>>
    BY <1>1 DEF OnConnect, datavars
  <2>5. SentSound'
    BY <1>0, <2>2, <2>4, SentKept
  <2> QED
    BY <2>2, <2>3, <2>5 DEF Sane
<1>2. CASE OnReady(t)
  <2>1. <<Ev("ACCEPTED", "a")>> \in Seq(Event)
        /\ \A i \in 1..Len(<<Ev("ACCEPTED", "a")>>) : <<Ev("ACCEPTED", "a")>>[i].type # "SENT"
    BY RaisedType, EventFacts DEF End, Handshake
  <2>2. CASE /\ state' = [state EXCEPT !["c"] = "ACTIVE"]
             /\ pipe' = [pipe EXCEPT !["c"] = "UP"]
             /\ Writable(t, "c", <<Ev("ACCEPTED", "a")>>)
             /\ UNCHANGED raced
    <3>1. "c" \in End
      BY DEF End
    <3>2. /\ flight' \in [Thread -> Seq(Event)] /\ popped' \in [Thread -> BOOLEAN]
          /\ PoppedSound' /\ aborted' \in BOOLEAN
          /\ sending' \in [End -> BOOLEAN] /\ nsent' \in [End -> 0..MaxMsg]
          /\ \A r \in End : nsent'[r] \in Nat /\ nsent'[r] >= nsent[r]
          /\ \A r \in End : Ev("SENT", r) \in UnderWay' =>
                               Ev("SENT", r) \in UnderWay \/ nsent'[Other(r)] > 0
      BY <2>1, <2>2, <3>1, WritableSane
    <3>3. TypeOK'
      BY <1>2, <2>2, <3>2 DEF OnReady, Sane, TypeOK
    <3>4. SentSound'
      BY <1>2, <3>2, SentKept DEF OnReady
    <3> QED
      BY <3>2, <3>3, <3>4 DEF Sane
  <2>3. CASE /\ "connect refused" \in Races
             /\ raced' = raced \cup {"connect refused"}
             /\ aborted' = TRUE
             /\ UNCHANGED <<state, pipe, sending, nsent, flight, popped>>
    <3>1. TypeOK'
      BY <1>2, <2>3 DEF OnReady, Sane, TypeOK
    <3>2. PoppedSound' /\ SentSound'
      BY <1>2, <2>3 DEF OnReady, Sane, PoppedSound, SentSound, UnderWay
    <3> QED
      BY <3>1, <3>2 DEF Sane
  <2> QED
    BY <1>2, <2>2, <2>3 DEF OnReady
<1>3. CASE OnAccepted(t)
  <2>1. CASE /\ state' = [state EXCEPT !["a"] = "ACTIVE"]
             /\ pipe' = [pipe EXCEPT !["a"] = "UP"]
             /\ Writable(t, "a", <<>>)
             /\ UNCHANGED <<ep, peer, raced>>
    <3>1. /\ flight' \in [Thread -> Seq(Event)] /\ popped' \in [Thread -> BOOLEAN]
          /\ PoppedSound' /\ aborted' \in BOOLEAN
          /\ sending' \in [End -> BOOLEAN] /\ nsent' \in [End -> 0..MaxMsg]
          /\ \A r \in End : nsent'[r] \in Nat /\ nsent'[r] >= nsent[r]
          /\ \A r \in End : Ev("SENT", r) \in UnderWay' =>
                               Ev("SENT", r) \in UnderWay \/ nsent'[Other(r)] > 0
      <4>1. "a" \in End /\ <<>> \in Seq(Event) /\ \A i \in 1..Len(<<>>) : <<>>[i].type # "SENT"
        BY RaisedType DEF End
      <4> QED
        BY <2>1, <4>1, WritableSane
    <3>2. TypeOK'
      BY <1>3, <2>1, <3>1 DEF OnAccepted, Sane, TypeOK
    <3>3. SentSound'
      BY <1>3, <3>1, SentKept DEF OnAccepted
    <3> QED
      BY <3>1, <3>2, <3>3 DEF Sane
  <2>2. CASE /\ "accept refused" \in Races
             /\ raced' = raced \cup {"accept refused"}
             /\ Disconnected("a")
             /\ Leave(t, <<>>)
             /\ UNCHANGED <<sending, nsent>>
    <3>1. /\ flight' \in [Thread -> Seq(Event)] /\ popped' \in [Thread -> BOOLEAN] /\ PoppedSound'
          /\ \A r \in End : Ev("SENT", r) \in UnderWay' => Ev("SENT", r) \in UnderWay
      BY <2>2, LeaveNothing
    <3>2. /\ state' \in [End -> {"NONE", "CONNECTING", "READY", "ACTIVE",
                                 "DISCONNECTED", "STOPPING_PEER", "STOPPING", "FREED"}]
          /\ ep' \in [End -> {"NONE", "ACTIVE", "STOPPING", "IDLE"}]
          /\ pipe' \in [End -> {"NONE", "UP", "DOWN"}] /\ peer' \in [End -> BOOLEAN]
          /\ aborted' \in BOOLEAN
      BY <2>2, DisconnectedSane DEF End
    <3>3. raced' \in SUBSET Races
      BY <2>2 DEF Sane, TypeOK
    <3>4. TypeOK'
      BY <1>3, <2>2, <3>1, <3>2, <3>3 DEF OnAccepted, Sane, TypeOK
    <3>5. SentSound'
      BY <1>0, <1>3, <2>2, <3>1, SentKept DEF OnAccepted
    <3> QED
      BY <3>1, <3>4, <3>5 DEF Sane
  <2> QED
    BY <1>3, <2>1, <2>2 DEF OnAccepted
<1> QED
  BY <1>1, <1>2, <1>3

\* A message is fetched, or acknowledged.
LEMMA DataSane ==
  ASSUME Sane, NEW t \in Thread, NEW s \in End, OnSent(t, s) \/ OnReceived(t, s)
  PROVE  Sane'
<1>0. \A r \in End : nsent[r] \in Nat /\ nsent[r] >= nsent[r]
  BY InprocAssumption DEF Sane, TypeOK
<1>1. CASE OnSent(t, s)
  <2>1. Ev("SENT", s) \in UnderWay
    <3>1. popped[t] /\ flight[t] # <<>> /\ Head(flight[t]) = Ev("SENT", s) /\ flight[t] \in Seq(Event)
      BY <1>1 DEF OnSent, Handles, Sane, PoppedSound, TypeOK
    <3>2. 1 \in DOMAIN flight[t] /\ flight[t][1] = Ev("SENT", s)
      BY <3>1, TailFacts
    <3> QED
      BY <3>2, UnderWayAt
  <2>2. nsent[Other(s)] \in 1..MaxMsg
    BY <2>1, Ends, InprocAssumption DEF Sane, SentSound, TypeOK
  <2>3. CASE /\ Len(queue[s]) < MaxQueue
             /\ queue' = [queue EXCEPT ![s] = Append(@, nsent[Other(s)])]
             /\ Leave(t, <<Ev("RECEIVED", Other(s))>>)
             /\ aborted' = (Gone(s) \/ Clash(<<Ev("RECEIVED", Other(s))>>))
             /\ UNCHANGED receiving
    <3>1. /\ queue' = [queue EXCEPT ![s] = Append(@, nsent[Other(s)])]
          /\ Leave(t, <<Ev("RECEIVED", Other(s))>>)
          /\ aborted' \in BOOLEAN /\ UNCHANGED receiving
      BY <2>3
    <3>2. PICK q : q = Append(queue[s], nsent[Other(s)])
      OBVIOUS
    <3>3. q \in Seq(1..MaxMsg) /\ Len(q) <= MaxQueue
      BY <2>2, <2>3, <3>2, InprocAssumption DEF Sane, TypeOK
    <3>4. queue' \in [End -> Seq(1..MaxMsg)] /\ \A r \in End : Len(queue'[r]) <= MaxQueue
      BY <3>1, <3>2, <3>3 DEF Sane, TypeOK
    <3>5. <<Ev("RECEIVED", Other(s))>> \in Seq(Event)
          /\ \A i \in 1..Len(<<Ev("RECEIVED", Other(s))>>) :
                <<Ev("RECEIVED", Other(s))>>[i].type # "SENT"
      BY Ends, RaisedType, EventFacts
    <3>6. /\ flight' \in [Thread -> Seq(Event)] /\ popped' \in [Thread -> BOOLEAN] /\ PoppedSound'
          /\ \A r \in End : Ev("SENT", r) \in UnderWay' => Ev("SENT", r) \in UnderWay
      BY <3>1, <3>5, LeaveSane
    <3>7. TypeOK'
      BY <1>1, <3>1, <3>4, <3>6 DEF OnSent, Sane, TypeOK
    <3>8. SentSound'
      BY <1>0, <1>1, <3>1, <3>6, SentKept DEF OnSent
    <3> QED
      BY <3>6, <3>7, <3>8 DEF Sane
  <2>4. CASE /\ receiving' = [receiving EXCEPT ![s] = TRUE]
             /\ Leave(t, <<>>)
             /\ UNCHANGED <<queue, aborted>>
    <3>1. /\ receiving' = [receiving EXCEPT ![s] = TRUE]
          /\ Leave(t, <<>>)
          /\ UNCHANGED <<queue, aborted>>
      BY <2>4
    <3>2. /\ flight' \in [Thread -> Seq(Event)] /\ popped' \in [Thread -> BOOLEAN] /\ PoppedSound'
          /\ \A r \in End : Ev("SENT", r) \in UnderWay' => Ev("SENT", r) \in UnderWay
      BY <3>1, LeaveNothing
    <3>3. receiving' \in [End -> BOOLEAN]
          /\ \A r \in End : receiving'[r] => receiving[r] \/ nsent[Other(r)] > 0
      BY <2>2, <3>1, InprocAssumption DEF Sane, TypeOK
    <3>4. TypeOK'
      BY <1>1, <3>1, <3>2, <3>3 DEF OnSent, Sane, TypeOK
    <3>5. SentSound'
      BY <1>0, <1>1, <3>2, <3>3, SentKept DEF OnSent
    <3> QED
      BY <3>2, <3>4, <3>5 DEF Sane
  <2> QED
    BY <1>1, <2>3, <2>4 DEF OnSent
<1>2. CASE OnReceived(t, s)
  <2>1. /\ flight' \in [Thread -> Seq(Event)] /\ popped' \in [Thread -> BOOLEAN]
        /\ PoppedSound' /\ aborted' \in BOOLEAN
        /\ sending' \in [End -> BOOLEAN] /\ nsent' \in [End -> 0..MaxMsg]
        /\ \A r \in End : nsent'[r] \in Nat /\ nsent'[r] >= nsent[r]
        /\ \A r \in End : Ev("SENT", r) \in UnderWay' =>
                             Ev("SENT", r) \in UnderWay \/ nsent'[Other(r)] > 0
    <3>1. <<>> \in Seq(Event) /\ \A i \in 1..Len(<<>>) : <<>>[i].type # "SENT"
      BY RaisedType
    <3> QED
      BY <1>2, <3>1, WritableSane DEF OnReceived
  <2>2. TypeOK'
    BY <1>2, <2>1 DEF OnReceived, Sane, TypeOK
  <2>3. SentSound'
    BY <1>2, <2>1, SentKept DEF OnReceived
  <2> QED
    BY <2>1, <2>2, <2>3 DEF Sane
<1> QED
  BY <1>1, <1>2

\* The connection is shut down.
LEMMA ShutdownSane ==
  ASSUME Sane, NEW t \in Thread, NEW s \in End,
         Ignore(t) \/ OnLastReceived(t, s) \/ OnDisconnect(t, s) \/ OnDisconnectAnswer(t, s)
  PROVE  Sane'
<1>0. \A r \in End : nsent[r] \in Nat /\ nsent[r] >= nsent[r]
  BY InprocAssumption DEF Sane, TypeOK
<1>1. CASE Ignore(t)
  <2>1. /\ flight' \in [Thread -> Seq(Event)] /\ popped' \in [Thread -> BOOLEAN] /\ PoppedSound'
        /\ \A r \in End : Ev("SENT", r) \in UnderWay' => Ev("SENT", r) \in UnderWay
    BY <1>1, LeaveNothing DEF Ignore
  <2>2. TypeOK'
    BY <1>1, <2>1 DEF Ignore, Sane, TypeOK, flagvars, datavars
  <2>3. SentSound'
    BY <1>0, <1>1, <2>1, SentKept DEF Ignore, flagvars, datavars
  <2> QED
    BY <2>1, <2>2, <2>3 DEF Sane
<1>2. CASE OnLastReceived(t, s) \/ OnDisconnectAnswer(t, s)
  <2>1. Vanish(s, ep[s]) /\ Leave(t, <<>>) /\ UNCHANGED <<kind, flagvars, datavars, raced>>
    BY <1>2 DEF OnLastReceived, OnDisconnectAnswer
  <2>2. /\ flight' \in [Thread -> Seq(Event)] /\ popped' \in [Thread -> BOOLEAN] /\ PoppedSound'
        /\ \A r \in End : Ev("SENT", r) \in UnderWay' => Ev("SENT", r) \in UnderWay
    BY <2>1, LeaveNothing
  <2>3. ep[s] \in {"NONE", "ACTIVE", "STOPPING", "IDLE"}
    BY DEF Sane, TypeOK
  <2>4. /\ state' \in [End -> {"NONE", "CONNECTING", "READY", "ACTIVE",
                               "DISCONNECTED", "STOPPING_PEER", "STOPPING", "FREED"}]
        /\ ep' \in [End -> {"NONE", "ACTIVE", "STOPPING", "IDLE"}]
        /\ aborted' \in BOOLEAN
    BY <2>1, <2>3, VanishSane
  <2>5. TypeOK'
    BY <2>1, <2>2, <2>4 DEF Sane, TypeOK, flagvars, datavars
  <2>6. SentSound'
    BY <1>0, <2>1, <2>2, SentKept DEF flagvars, datavars
  <2> QED
    BY <2>2, <2>5, <2>6 DEF Sane
<1>3. CASE OnDisconnect(t, s)
  <2>1. <<Ev("DISCONNECT", Other(s))>> \in Seq(Event)
        /\ \A i \in 1..Len(<<Ev("DISCONNECT", Other(s))>>) :
              <<Ev("DISCONNECT", Other(s))>>[i].type # "SENT"
    BY Ends, RaisedType, EventFacts
  <2>2. /\ flight' \in [Thread -> Seq(Event)] /\ popped' \in [Thread -> BOOLEAN] /\ PoppedSound'
        /\ \A r \in End : Ev("SENT", r) \in UnderWay' => Ev("SENT", r) \in UnderWay
    BY <1>3, <2>1, LeaveSane DEF OnDisconnect
  <2>3. /\ state' \in [End -> {"NONE", "CONNECTING", "READY", "ACTIVE",
                               "DISCONNECTED", "STOPPING_PEER", "STOPPING", "FREED"}]
        /\ ep' \in [End -> {"NONE", "ACTIVE", "STOPPING", "IDLE"}]
        /\ pipe' \in [End -> {"NONE", "UP", "DOWN"}] /\ peer' \in [End -> BOOLEAN]
        /\ aborted' \in BOOLEAN
    BY <1>3, DisconnectedSane DEF OnDisconnect
  <2>4. TypeOK'
    BY <1>3, <2>2, <2>3 DEF OnDisconnect, Sane, TypeOK, datavars
  <2>5. SentSound'
    BY <1>0, <1>3, <2>2, SentKept DEF OnDisconnect, datavars
  <2> QED
    BY <2>2, <2>4, <2>5 DEF Sane
<1> QED
  BY <1>1, <1>2, <1>3

\* Every step keeps the types.
LEMMA SaneKept ==
  ASSUME Sane, [Next]_vars
  PROVE  Sane'
<1>1. CASE UNCHANGED vars
  BY <1>1 DEF Sane, TypeOK, PoppedSound, SentSound, UnderWay, vars, flagvars, datavars
<1>2. CASE Next
  <2>1. PICK t \in Thread : Process(t) \/ Call(t)
    BY <1>2 DEF Next
  <2>2. CASE Process(t)
    BY <2>2, PopSane, HandshakeSane, DataSane, ShutdownSane DEF Process, End
  <2>3. CASE Call(t)
    BY <2>3, ConnectSane, SendSane, RecvSane, StopSane DEF Call
  <2> QED
    BY <2>1, <2>2, <2>3
<1> QED
  BY <1>1, <1>2

-----------------------------------------------------------------------------
(* Without races: one phase after the other.                                *)

\* The event a thread has popped tells the phase.
LEMMA HeadPhase ==
  ASSUME Sane, Phase, NEW t \in Thread, NEW e, popped[t], Head(flight[t]) = e
  PROVE  \/ e = Ev("CONNECT", "a") /\ Connecting(t) /\ state["a"] = "NONE"
              /\ ep["a"] = "ACTIVE" /\ Only(t, <<e>>)
         \/ e = Ev("READY", "c") /\ Connecting(t) /\ state["a"] = "READY"
              /\ peer["a"] /\ Only(t, <<e>>)
         \/ e = Ev("ACCEPTED", "a") /\ Accepting(t)
         \/ e.type \in {"SENT", "RECEIVED"} /\ Open /\ e \in UnderWay
         \/ \E s \in End : e = Ev("DISCONNECT", Other(s)) /\ Closing(s, t)
         \/ \E s \in End : e = Ev("DISCONNECT", s) /\ Answered(s, t)
         \/ \E u \in Thread : e = Ev("DISCONNECT", "c") /\ BothClosing(t, u)
         \/ \E u \in Thread : e = Ev("DISCONNECT", "a") /\ BothClosing(u, t)
<1>1. flight[t] # <<>> /\ flight[t] \in Seq(Event)
  BY DEF Sane, PoppedSound, TypeOK
<1>2. \A x, y : Head(<<x>>) = x /\ Head(<<x, y>>) = x
  OBVIOUS
<1>3. ASSUME NEW u \in Thread, NEW q, Only(u, q) PROVE u = t /\ Head(q) = e
  BY <1>1, <1>3 DEF Only
<1>4. ~Nothing
  BY <1>1 DEF Nothing
<1>5. CASE Open
  <2>1. 1 \in DOMAIN flight[t] /\ e = flight[t][1]
    BY <1>1, TailFacts
  <2>2. e \in UnderWay
    BY <2>1, UnderWayAt
  <2> QED
    BY <1>5, <2>2 DEF Open
<1>6. ASSUME NEW u \in Thread, Connecting(u)
      PROVE  \/ e = Ev("CONNECT", "a") /\ Connecting(t) /\ state["a"] = "NONE"
                  /\ ep["a"] = "ACTIVE" /\ Only(t, <<e>>)
             \/ e = Ev("READY", "c") /\ Connecting(t) /\ state["a"] = "READY"
                  /\ peer["a"] /\ Only(t, <<e>>)
  <2>1. CASE state["a"] = "NONE" /\ ep["a"] = "ACTIVE" /\ Only(u, <<Ev("CONNECT", "a")>>)
    BY <1>6, <2>1, <1>2, <1>3
  <2>2. CASE state["a"] = "READY" /\ peer["a"] /\ Only(u, <<Ev("READY", "c")>>)
    BY <1>6, <2>2, <1>2, <1>3
  <2> QED
    BY <1>6, <2>1, <2>2 DEF Connecting
<1>7. ASSUME NEW u \in Thread, Accepting(u) PROVE e = Ev("ACCEPTED", "a") /\ Accepting(t)
  <2>1. CASE Only(u, <<Ev("ACCEPTED", "a"), Ev("SENT", "a")>>)
    BY <1>7, <2>1, <1>2, <1>3
  <2>2. CASE Only(u, <<Ev("ACCEPTED", "a")>>)
    BY <1>7, <2>2, <1>2, <1>3
  <2> QED
    BY <1>7, <2>1, <2>2 DEF Accepting
<1>8. ASSUME NEW s \in End, NEW u \in Thread, Closing(s, u)
      PROVE  e = Ev("DISCONNECT", Other(s)) /\ Closing(s, t)
  <2>1. Only(u, <<Ev("DISCONNECT", Other(s))>>)
    BY <1>8 DEF Closing
  <2> QED
    BY <2>1, <1>2, <1>3, <1>8
<1>9. ASSUME NEW s \in End, NEW u \in Thread, Answered(s, u)
      PROVE  e = Ev("DISCONNECT", s) /\ Answered(s, t)
  <2>1. Only(u, <<Ev("DISCONNECT", s)>>)
    BY <1>9 DEF Answered
  <2> QED
    BY <2>1, <1>2, <1>3, <1>9
<1>10. ASSUME NEW u \in Thread, NEW v \in Thread, BothClosing(u, v)
       PROVE  \/ u = t /\ e = Ev("DISCONNECT", "c")
              \/ v = t /\ e = Ev("DISCONNECT", "a")
  <2>1. t \in {u, v}
    BY <1>1, <1>10 DEF BothClosing
  <2> QED
    BY <2>1, <1>2, <1>10 DEF BothClosing
<1> QED
  BY <1>4, <1>5, <1>6, <1>7, <1>8, <1>9, <1>10 DEF Phase, Unconnected, Closed

\* What a call finds under way when it joins nothing.
LEMMA NoRace ==
  ASSUME Sane, NEW t \in Thread, NEW call, Calls(t, call), raced' = {}, NEW e \in UnderWay
  PROVE  /\ call = "send" => e.type \notin Handshake \cup {"DISCONNECT"}
         /\ call = "recv" => e.type # "DISCONNECT"
         /\ call = "stop" => e.type \notin Handshake \cup {"SENT", "RECEIVED"}
<1>1. flight[t] = <<>>
  BY DEF Calls, Idle
<1>2. PICK u \in Thread : \E i \in DOMAIN flight[u] : e = flight[u][i]
  BY UnderWayAt
<1>3. u # t
  BY <1>1, <1>2
<1>4. e \in UNION {ToSet(flight[v]) : v \in Thread \ {t}}
  BY <1>2, <1>3 DEF ToSet
<1>5. Joins(call, e.type) \subseteq raced'
  BY <1>4 DEF Calls
<1>6. Joins(call, e.type) = {}
  BY <1>5
<1>7. "connect+close" \in Race /\ "connect+send" \in Race /\ "send+close" \in Race
      /\ "receive+close" \in Race
  BY DEF Race
<1>8. call = "send" => e.type \notin Handshake \cup {"DISCONNECT"}
  BY <1>6, <1>7 DEF Joins
<1>9. call = "recv" => e.type # "DISCONNECT"
  BY <1>6, <1>7 DEF Joins
<1>10. call = "stop" => e.type \notin Handshake \cup {"SENT", "RECEIVED"}
  BY <1>6, <1>7 DEF Joins
<1> QED
  BY <1>8, <1>9, <1>10

\* When one thread carries everything, these are the first events of a sequence.
LEMMA FirstUnderWay ==
  ASSUME NEW t \in Thread, NEW q, Only(t, q)
  PROVE  /\ \A x : q = <<x>> => x \in UnderWay
         /\ \A x, y : q = <<x, y>> => x \in UnderWay
<1>1. ASSUME NEW x, q = <<x>> PROVE x \in UnderWay
  BY <1>1, OnlyUnderWay
<1>2. ASSUME NEW x, NEW y, q = <<x, y>> PROVE x \in UnderWay
  BY <1>2, OnlyUnderWay
<1> QED
  BY <1>1, <1>2

\* The second endpoint is created.
LEMMA ConnectPhase ==
  ASSUME Sane, aborted = FALSE, Phase, NEW t \in Thread, Connect(t)
  PROVE  aborted' = FALSE /\ Phase'
<1>1. ep["c"] = "NONE" /\ ep["a"] = "ACTIVE" /\ Leave(t, <<Ev("CONNECT", "a")>>)
  BY DEF Connect
<1>2. Unconnected
  BY <1>1 DEF Phase, Open, Connecting, Accepting, Closing, BothClosing, Answered, Closed
<1>3. <<Ev("CONNECT", "a")>> \in Seq(Event)
  BY RaisedType DEF End, Handshake
<1>4. Only(t, <<Ev("CONNECT", "a")>>)'
  BY <1>1, <1>2, <1>3, LeaveOnly DEF Unconnected, Sane
<1>5. state' = [state EXCEPT !["c"] = "CONNECTING"] /\ ep' = [ep EXCEPT !["c"] = "ACTIVE"]
      /\ UNCHANGED <<peer, pipe, sending, receiving, queue, aborted>>
  BY DEF Connect, flagvars, datavars
<1>6. state'["c"] = "CONNECTING" /\ state'["a"] = "NONE" /\ ep'["c"] # "NONE" /\ ep'["a"] = "ACTIVE"
  BY <1>1, <1>2, <1>5 DEF Unconnected, Sane, TypeOK, End
<1>7. Connecting(t)'
  BY <1>2, <1>4, <1>5, <1>6 DEF Connecting, Unconnected
<1> QED
  BY <1>5, <1>7 DEF Phase

\* The first endpoint accepts.
LEMMA OnConnectPhase ==
  ASSUME Sane, aborted = FALSE, Phase, NEW t \in Thread, OnConnect(t)
  PROVE  aborted' = FALSE /\ Phase'
<1>1. popped[t] /\ Head(flight[t]) = Ev("CONNECT", "a") /\ Leave(t, <<Ev("READY", "c")>>)
  BY DEF OnConnect, Handles
<1>2. Connecting(t) /\ Only(t, <<Ev("CONNECT", "a")>>)
  BY <1>1, HeadPhase, EventFacts
<1>3. <<Ev("READY", "c")>> \in Seq(Event)
  BY RaisedType DEF End, Handshake
<1>4. Only(t, <<Ev("READY", "c")>>)'
  BY <1>1, <1>2, <1>3, LeaveOnly DEF Sane
<1>5. state' = [state EXCEPT !["a"] = "READY"] /\ peer' = [peer EXCEPT !["a"] = TRUE]
      /\ UNCHANGED <<ep, pipe, sending, receiving, queue, aborted>>
  BY DEF OnConnect, datavars
<1>6. state'["c"] = "CONNECTING" /\ state'["a"] = "READY" /\ peer'["a"]
  BY <1>2, <1>5 DEF Connecting, Sane, TypeOK, End
<1>7. Connecting(t)'
  BY <1>2, <1>4, <1>5, <1>6 DEF Connecting
<1> QED
  BY <1>5, <1>7 DEF Phase

\* Short sequences of different events.
LEMMA ShortSequences ==
  /\ \A i, j \in 1..Len(<<>>) : <<>>[i] = <<>>[j] => i = j
  /\ \A x : \A i, j \in 1..Len(<<x>>) : <<x>>[i] = <<x>>[j] => i = j
  /\ \A x, y : x # y => \A i, j \in 1..Len(<<x, y>>) : <<x, y>>[i] = <<x, y>>[j] => i = j
  /\ \A x \in Event : <<>> \o <<x>> = <<x>>
  /\ \A x, y \in Event : <<x>> \o <<y>> = <<x, y>> /\ Append(<<x>>, y) = <<x, y>>
<1>1. \A i, j \in 1..Len(<<>>) : <<>>[i] = <<>>[j] => i = j
  OBVIOUS
<1>2. \A x : \A i, j \in 1..Len(<<x>>) : <<x>>[i] = <<x>>[j] => i = j
  OBVIOUS
<1>3. ASSUME NEW x, NEW y, x # y, NEW i \in 1..Len(<<x, y>>), NEW j \in 1..Len(<<x, y>>),
             <<x, y>>[i] = <<x, y>>[j]
      PROVE  i = j
  <2>1. i \in {1, 2} /\ j \in {1, 2}
    OBVIOUS
  <2> QED
    BY <1>3, <2>1
<1>4. ASSUME NEW x \in Event PROVE <<>> \o <<x>> = <<x>>
  OBVIOUS
<1>5. ASSUME NEW x \in Event, NEW y \in Event
      PROVE  <<x>> \o <<y>> = <<x, y>> /\ Append(<<x>>, y) = <<x, y>>
  <2> DEFINE q == <<x>> \o <<y>>
             r == Append(<<x>>, y)
             p == <<x, y>>
  <2>1. q \in Seq(Event) /\ r \in Seq(Event) /\ p \in Seq(Event)
    OBVIOUS
  <2>2. Len(q) = 2 /\ Len(r) = 2 /\ Len(p) = 2
    OBVIOUS
  <2>3. q[1] = x /\ q[2] = y /\ r[1] = x /\ r[2] = y /\ p[1] = x /\ p[2] = y
    OBVIOUS
  <2> HIDE DEF q, r, p
  <2>4. \A i \in 1..2 : q[i] = p[i] /\ r[i] = p[i]
    BY <2>3
  <2>5. q = p /\ r = p
    BY <2>1, <2>2, <2>4, SeqEqual
  <2> QED
    BY <2>5 DEF q, r, p
<1> QED
  BY <1>1, <1>2, <1>3, <1>4, <1>5

\* Where no object is active, nothing that is raised clashes.
LEMMA NoneActive ==
  ASSUME \A s, name : ~Active(s, name), NEW raised
  PROVE  Clash(raised) = FALSE
BY DEF Clash

\* The connecting session is told, and may send at once.
LEMMA OnReadyPhase ==
  ASSUME Sane, aborted = FALSE, Phase, NEW t \in Thread, OnReady(t), raced' = {}
  PROVE  aborted' = FALSE /\ Phase'
<1>0. raced' # raced \cup {"connect refused"}
  OBVIOUS
<1>1. popped[t] /\ Head(flight[t]) = Ev("READY", "c") /\ Writable(t, "c", <<Ev("ACCEPTED", "a")>>)
  BY <1>0 DEF OnReady, Handles
<1>2. Connecting(t) /\ state["a"] = "READY" /\ peer["a"] /\ Only(t, <<Ev("READY", "c")>>)
  BY <1>1, HeadPhase, EventFacts
<1>3. \A s, name : ~Active(s, name)
  BY <1>1, <1>2, LastPopped DEF Sane
<1>4. /\ Ev("ACCEPTED", "a") \in Event /\ Ev("SENT", "a") \in Event /\ Other("c") = "a"
      /\ "a" \in End /\ "c" \in End
  BY RaisedType DEF End, Handshake, Other
<1>5. Append(<<Ev("ACCEPTED", "a")>>, Ev("SENT", "a")) = <<Ev("ACCEPTED", "a"), Ev("SENT", "a")>>
  BY <1>4, ShortSequences
<1>6. state' = [state EXCEPT !["c"] = "ACTIVE"] /\ peer' = [peer EXCEPT !["c"] = TRUE]
      /\ pipe' = [pipe EXCEPT !["c"] = "UP"] /\ UNCHANGED <<ep, receiving, queue>>
  BY <1>0 DEF OnReady
<1>7. /\ state'["c"] = "ACTIVE" /\ state'["a"] = "READY" /\ ep'["c"] # "NONE"
      /\ pipe'["c"] = "UP" /\ pipe'["a"] = "NONE"
      /\ \A s \in End : peer'[s] /\ ~receiving'[s] /\ queue'[s] = <<>>
  <2>1. state'["c"] = "ACTIVE" /\ state'["a"] = "READY"
    BY <1>2, <1>6 DEF Sane, TypeOK, End
  <2>2. pipe'["c"] = "UP" /\ pipe'["a"] = "NONE"
    BY <1>2, <1>4, <1>6 DEF Connecting, Sane, TypeOK
  <2>3. \A s \in End : peer'[s]
    BY <1>2, <1>6 DEF Sane, TypeOK, End
  <2> QED
    BY <1>2, <1>6, <2>1, <2>2, <2>3 DEF Connecting
<1>8. CASE /\ sending' = [sending EXCEPT !["c"] = FALSE]
           /\ Leave(t, <<Ev("ACCEPTED", "a")>>)
           /\ aborted' = Clash(<<Ev("ACCEPTED", "a")>>)
  <2>1. aborted' = FALSE
    BY <1>3, <1>8, NoneActive
  <2>2. Only(t, <<Ev("ACCEPTED", "a")>>)'
    <3>1. <<Ev("ACCEPTED", "a")>> \in Seq(Event)
      BY <1>4
    <3> QED
      BY <1>1, <1>2, <1>8, <3>1, LeaveOnly DEF Sane
  <2>3. sending'["c"] = FALSE /\ ~sending'["a"]
    BY <1>2, <1>4, <1>8 DEF Connecting, Sane, TypeOK
  <2>4. Accepting(t)'
    BY <1>7, <2>2, <2>3 DEF Accepting
  <2> QED
    BY <2>1, <2>4 DEF Phase
<1>9. CASE /\ SendOn("c")
           /\ Leave(t, <<Ev("ACCEPTED", "a"), Ev("SENT", "a")>>)
           /\ aborted' = (state["a"] = "FREED" \/ Clash(<<Ev("ACCEPTED", "a"), Ev("SENT", "a")>>))
  <2>1. aborted' = FALSE
    BY <1>2, <1>3, <1>9, NoneActive
  <2>2. Only(t, <<Ev("ACCEPTED", "a"), Ev("SENT", "a")>>)'
    <3>1. <<Ev("ACCEPTED", "a"), Ev("SENT", "a")>> \in Seq(Event)
      BY <1>4
    <3> QED
      BY <1>1, <1>2, <1>9, <3>1, LeaveOnly DEF Sane
  <2>3. sending'["c"] /\ ~sending'["a"]
    BY <1>2, <1>4, <1>9 DEF Connecting, SendOn, Sane, TypeOK
  <2>4. Accepting(t)'
    BY <1>7, <2>2, <2>3 DEF Accepting
  <2> QED
    BY <2>1, <2>4 DEF Phase
<1> QED
  BY <1>1, <1>4, <1>5, <1>8, <1>9 DEF Writable

\* After a step one thread carries everything: events that are all different.
LEMMA OnlyOnce ==
  ASSUME NEW t \in Thread, NEW q, Only(t, q)',
         \A i, j \in 1..Len(q) : q[i] = q[j] => i = j
  PROVE  EventsOnce'
<1>1. flight'[t] = q /\ \A u \in Thread \ {t} : flight'[u] = <<>>
  BY DEF Only
<1>2. \A i \in 1..Len(<<>>) : FALSE
  OBVIOUS
<1> SUFFICES ASSUME NEW u \in Thread, NEW v \in Thread,
                    NEW i \in 1..Len(flight'[u]), NEW j \in 1..Len(flight'[v]),
                    flight'[u][i] = flight'[v][j]
             PROVE  u = v /\ i = j
  BY DEF EventsOnce
<1>3. u = t /\ v = t
  BY <1>1, <1>2
<1> QED
  BY <1>1, <1>3

\* The accepting session is open, too.
LEMMA OnAcceptedPhase ==
  ASSUME Sane, aborted = FALSE, Phase, NEW t \in Thread, OnAccepted(t), raced' = {}
  PROVE  aborted' = FALSE /\ Phase'
<1>1. popped[t] /\ Head(flight[t]) = Ev("ACCEPTED", "a")
  BY DEF OnAccepted, Handles
<1>2. Accepting(t)
  <2>1. PICK e : e = Ev("ACCEPTED", "a")
    OBVIOUS
  <2>2. e.type = "ACCEPTED" /\ Head(flight[t]) = e
    BY <1>1, <2>1, EventFacts
  <2>3. /\ e # Ev("CONNECT", "a") /\ e # Ev("READY", "c")
        /\ \A s : e # Ev("DISCONNECT", s)
    BY <2>2, EventFacts
  <2> QED
    BY <1>1, <2>2, <2>3, HeadPhase
<1>3. Writable(t, "a", <<>>) /\ state' = [state EXCEPT !["a"] = "ACTIVE"]
      /\ pipe' = [pipe EXCEPT !["a"] = "UP"] /\ UNCHANGED <<ep, peer, receiving>>
  BY DEF OnAccepted
<1> DEFINE accepted == Ev("ACCEPTED", "a")
           toA == Ev("SENT", "a")
           toC == Ev("SENT", "c")
<1>4. /\ accepted \in Event /\ toA \in Event /\ toC \in Event /\ accepted # toC
      /\ Other("a") = "c" /\ "a" \in End /\ "c" \in End /\ toC # toA /\ Other("c") = "a"
  BY RaisedType, EventFacts DEF End, Handshake, Other
<1>5. Object(accepted) = <<"c", "connect">> /\ Object(toA) = <<"a", "SENT">>
      /\ Object(toC) = <<"c", "SENT">>
  BY <1>4, EventFacts DEF Object, Handshake
<1>6. UnderWay \subseteq {accepted, toA}
  <2>1. CASE sending["c"]
    <3>1. Only(t, <<accepted, toA>>)
      BY <1>2, <2>1 DEF Accepting
    <3> QED
      BY <3>1, OnlyUnderWay
  <2>2. CASE ~sending["c"]
    <3>1. Only(t, <<accepted>>)
      BY <1>2, <2>2 DEF Accepting
    <3> QED
      BY <3>1, OnlyUnderWay
  <2> QED
    BY <2>1, <2>2
<1> HIDE DEF accepted, toA, toC
<1>7. ~Active("c", "SENT")
  <2> SUFFICES ASSUME Active("c", "SENT") PROVE FALSE
    OBVIOUS
  <2>1. PICK e \in UnderWay : Object(e) = <<"c", "SENT">>
    BY ActiveUnderWay DEF Sane
  <2> QED
    BY <1>5, <1>6, <2>1
<1>8. Clash(<<>>) = FALSE /\ Clash(<<toC>>) = FALSE
  BY <1>5, <1>7 DEF Clash
<1>9. state["c"] = "ACTIVE" /\ ~sending["a"] /\ sending \in [End -> BOOLEAN]
  BY <1>2 DEF Accepting, Sane, TypeOK
<1>10. Append(<<>>, toC) = <<toC>>
  OBVIOUS
<1>11. PICK raised : /\ Leave(t, raised) /\ aborted' = FALSE /\ sending'["c"] = sending["c"]
                     /\ \/ raised = <<>>
                        \/ raised = <<toC>> /\ sending'["a"]
  <2>1. CASE sending' = [sending EXCEPT !["a"] = FALSE] /\ Leave(t, <<>>) /\ aborted' = Clash(<<>>)
    BY <2>1, <1>4, <1>8, <1>9
  <2>2. CASE /\ SendOn("a") /\ Leave(t, <<toC>>)
             /\ aborted' = (state["c"] = "FREED" \/ Clash(<<toC>>))
    BY <2>2, <1>4, <1>8, <1>9 DEF SendOn
  <2> QED
    BY <1>3, <1>4, <1>10, <2>1, <2>2 DEF Writable, toC
<1>12. raised \in Seq(Event)
  <2>1. <<>> \in Seq(Event) /\ <<toC>> \in Seq(Event)
    BY <1>4
  <2> QED
    BY <1>11, <2>1
<1>13. PICK q : /\ Only(t, q)'
                /\ \/ q = <<>>
                   \/ q = <<toC>> /\ sending'["a"]
                   \/ q = <<toA>> /\ sending'["c"]
                   \/ q = <<toC, toA>> /\ sending'["a"] /\ sending'["c"]
  <2>1. CASE sending["c"]
    <3>1. Only(t, <<accepted, toA>>)
      BY <1>2, <2>1 DEF Accepting, accepted, toA
    <3>2. Only(t, raised \o <<toA>>)'
      BY <3>1, <1>1, <1>11, <1>12, LeaveOnly DEF Sane
    <3> QED
      BY <3>2, <2>1, <1>4, <1>11, ShortSequences
  <2>2. CASE ~sending["c"]
    <3>1. Only(t, <<accepted>>)
      BY <1>2, <2>2 DEF Accepting, accepted
    <3>2. Only(t, raised)'
      BY <3>1, <1>1, <1>11, <1>12, LeaveOnly DEF Sane
    <3> QED
      BY <3>2, <1>11
  <2> QED
    BY <2>1, <2>2
<1>14. EventsOnce'
  <2>1. \A i, j \in 1..Len(q) : q[i] = q[j] => i = j
    BY <1>4, <1>13, ShortSequences
  <2> QED
    BY <1>13, <2>1, OnlyOnce
<1>15. ASSUME NEW e \in UnderWay'
       PROVE  \/ e = toC /\ sending'["a"]
              \/ e = toA /\ sending'["c"]
  <2>1. CASE q = <<>>
    BY <2>1, <1>13, <1>15, OnlyUnderWayNext
  <2>2. CASE q = <<toC>> /\ sending'["a"]
    BY <2>2, <1>13, <1>15, OnlyUnderWayNext
  <2>3. CASE q = <<toA>> /\ sending'["c"]
    BY <2>3, <1>13, <1>15, OnlyUnderWayNext
  <2>4. CASE q = <<toC, toA>> /\ sending'["a"] /\ sending'["c"]
    BY <2>4, <1>13, <1>15, OnlyUnderWayNext
  <2> QED
    BY <1>13, <2>1, <2>2, <2>3, <2>4
<1>16. \A s \in End : ~receiving'[s] /\ peer'[s]
  BY <1>2, <1>3 DEF Accepting
<1>17. \A s \in End : state'[s] = "ACTIVE" /\ pipe'[s] = "UP"
  BY <1>2, <1>3 DEF Accepting, Sane, TypeOK, End
<1>18. \A e \in UnderWay' : e.type \in {"SENT", "RECEIVED"}
  BY <1>15, EventFacts DEF toA, toC
<1>19. ASSUME NEW s \in End PROVE Flow(s)'
  <2>1. Ev("SENT", Other(s)) \in UnderWay' => sending'[s]
    BY <1>4, <1>15, EventFacts DEF End, toA, toC
  <2>2. Ev("RECEIVED", s) \notin UnderWay'
    BY <1>15, EventFacts DEF toA, toC
  <2>3. ~receiving'[Other(s)]
    BY <1>16, Ends
  <2> QED
    BY <2>1, <2>2, <2>3 DEF Flow
<1>20. ep'["c"] # "NONE"
  BY <1>2, <1>3 DEF Accepting
<1>21. Open'
  BY <1>14, <1>16, <1>17, <1>18, <1>19, <1>20 DEF Open
<1> QED
  BY <1>11, <1>21 DEF Phase

\* The data transfer goes on.
LEMMA OpenStep ==
  ASSUME Sane, Open, NEW t \in Thread, NEW raised \in Seq(Event), Leave(t, raised),
         \/ raised = <<>>
         \/ \E x : x \notin UnderWay /\ raised = <<x>> /\ x.type \in {"SENT", "RECEIVED"},
         UNCHANGED <<ep, state, peer, pipe>>, \A s \in End : Flow(s)'
  PROVE  Open'
<1>1. EventsOnce'
  BY LeaveOnce DEF Open, Sane
<1>2. ASSUME NEW e \in UnderWay' PROVE e.type \in {"SENT", "RECEIVED"}
  <2>1. CASE e \in UnderWay
    BY <2>1 DEF Open
  <2>2. ASSUME NEW i \in 1..Len(raised), e = raised[i] PROVE e.type \in {"SENT", "RECEIVED"}
    <3>1. CASE raised = <<>>
      BY <2>2, <3>1
    <3>2. ASSUME NEW x, raised = <<x>>, x.type \in {"SENT", "RECEIVED"}
          PROVE  e.type \in {"SENT", "RECEIVED"}
      BY <2>2, <3>2
    <3> QED
      BY <3>1, <3>2
  <2> QED
    BY <2>1, <2>2, LeaveFlight DEF Sane
<1> QED
  BY <1>1, <1>2 DEF Open

\* What is under way after one event was raised, or none, while the connection
\* is open.
LEMMA OpenUnderWay ==
  ASSUME Sane, Open, NEW t \in Thread, NEW x \in Event
  PROVE  /\ Leave(t, <<x>>) => \A e \in UnderWay' : e \in UnderWay \/ e = x
         /\ Leave(t, <<>>) => \A e \in UnderWay' : e \in UnderWay
         /\ Leave(t, <<x>>) /\ x \notin UnderWay /\ popped[t] => Head(flight[t]) \notin UnderWay'
         /\ Leave(t, <<>>) /\ popped[t] => Head(flight[t]) \notin UnderWay'
<1>1. <<x>> \in Seq(Event) /\ <<>> \in Seq(Event)
  OBVIOUS
<1>2. ASSUME Leave(t, <<x>>), NEW e \in UnderWay' PROVE e \in UnderWay \/ e = x
  <2>1. e \in UnderWay \/ \E i \in 1..Len(<<x>>) : e = <<x>>[i]
    BY <1>1, <1>2, LeaveFlight DEF Sane
  <2> QED
    BY <2>1
<1>3. ASSUME Leave(t, <<>>), NEW e \in UnderWay' PROVE e \in UnderWay
  <2>1. e \in UnderWay \/ \E i \in 1..Len(<<>>) : e = <<>>[i]
    BY <1>1, <1>3, LeaveFlight DEF Sane
  <2> QED
    BY <2>1
<1>4. ASSUME Leave(t, <<x>>), x \notin UnderWay, popped[t] PROVE Head(flight[t]) \notin UnderWay'
  BY <1>1, <1>4, LeaveOnce DEF Sane, Open
<1>5. ASSUME Leave(t, <<>>), popped[t] PROVE Head(flight[t]) \notin UnderWay'
  BY <1>1, <1>5, LeaveOnce DEF Sane, Open
<1> QED
  BY <1>2, <1>3, <1>4, <1>5

\* A send or a receive that joins no race finds the connection open.
LEMMA CallsOpen ==
  ASSUME Sane, Phase, NEW t \in Thread, NEW s \in End, NEW call \in {"send", "recv"},
         Calls(t, call), raced' = {}, pipe[s] = "UP",
         call = "recv" => queue[s] # <<>>
  PROVE  Open
<1>1. ASSUME NEW u \in Thread, Accepting(u) PROVE FALSE
  <2>1. CASE call = "recv"
    BY <1>1, <2>1 DEF Accepting
  <2>2. CASE call = "send"
    <3>1. Ev("ACCEPTED", "a") \in UnderWay
      BY <1>1, FirstUnderWay DEF Accepting
    <3> QED
      BY <2>2, <3>1, NoRace, EventFacts DEF Handshake
  <2> QED
    BY <2>1, <2>2
<1>2. ASSUME NEW r \in End, NEW u \in Thread, Closing(r, u) PROVE FALSE
  <2>1. Ev("DISCONNECT", Other(r)) \in UnderWay
    BY <1>2, FirstUnderWay DEF Closing
  <2> QED
    BY <2>1, NoRace, EventFacts
<1> QED
  BY <1>1, <1>2 DEF Phase, Unconnected, Connecting, BothClosing, Answered, Closed

\* A message is sent on an open connection.
LEMMA SendPhase ==
  ASSUME Sane, aborted = FALSE, Phase, NEW t \in Thread, NEW s \in End, Send(t, s), raced' = {}
  PROVE  aborted' = FALSE /\ Phase'
<1> PICK x : x = Ev("SENT", Other(s))
  OBVIOUS
<1>1. Open
  BY CallsOpen DEF Send
<1>2. x \in Event /\ x.type = "SENT" /\ x.to = Other(s) /\ <<x>> \in Seq(Event)
  BY Ends, RaisedType, EventFacts
<1>3. x \notin UnderWay
  BY <1>1 DEF Open, Flow, Send
<1>4. ~Clash(<<x>>)
  BY <1>1, <1>2, <1>3, NoClash DEF Open, Sane
<1>5. aborted' = FALSE
  <2>1. state[s] = "ACTIVE" /\ ~Gone(s)
    BY <1>1, Ends DEF Open, Gone
  <2> QED
    BY <1>4, <2>1 DEF Send
<1>6. Leave(t, <<x>>) /\ UNCHANGED <<ep, state, peer, pipe, receiving>>
  BY DEF Send
<1>7. sending' = [sending EXCEPT ![s] = TRUE] /\ sending \in [End -> BOOLEAN]
  BY DEF Send, SendOn, Sane, TypeOK
<1>8. \A e \in UnderWay' : e \in UnderWay \/ e = x
  BY <1>1, <1>2, <1>6, OpenUnderWay
<1>9. ASSUME NEW r \in End PROVE Flow(r)'
  <2>1. Flow(r)
    BY <1>1 DEF Open
  <2>2. Ev("RECEIVED", r) \in UnderWay' => Ev("RECEIVED", r) \in UnderWay
    BY <1>2, <1>8, EventFacts
  <2>3. CASE r = s
    <3>1. ~sending[s]
      BY DEF Send
    <3>2. Ev("RECEIVED", r) \notin UnderWay /\ ~receiving[Other(r)]
      BY <2>1, <2>3, <3>1 DEF Flow
    <3>3. sending'[r]
      BY <1>7, <2>3
    <3> QED
      BY <1>6, <2>2, <3>2, <3>3 DEF Flow
  <2>4. CASE r # s
    <3>1. Ev("SENT", Other(r)) \in UnderWay' => Ev("SENT", Other(r)) \in UnderWay
      BY <1>2, <1>8, <2>4, Ends, EventFacts
    <3>2. sending'[r] = sending[r]
      BY <1>7, <2>4
    <3> QED
      BY <1>6, <2>1, <2>2, <3>1, <3>2 DEF Flow
  <2> QED
    BY <2>3, <2>4
<1>10. Open'
  BY <1>1, <1>2, <1>3, <1>6, <1>9, OpenStep
<1> QED
  BY <1>5, <1>10 DEF Phase

\* A message is received on an open connection.
LEMMA RecvPhase ==
  ASSUME Sane, aborted = FALSE, Phase, NEW t \in Thread, NEW s \in End, Recv(t, s), raced' = {}
  PROVE  aborted' = FALSE /\ Phase'
<1> PICK x : x = Ev("RECEIVED", Other(s))
  OBVIOUS
<1>1. Open
  BY CallsOpen DEF Recv
<1>2. x \in Event /\ x.type = "RECEIVED" /\ x.to = Other(s) /\ <<x>> \in Seq(Event)
  BY Ends, RaisedType, EventFacts
<1>3. UNCHANGED <<ep, state, peer, pipe, sending>>
  BY DEF Recv
<1>4. CASE /\ receiving[s] /\ receiving' = [receiving EXCEPT ![s] = FALSE]
          /\ Leave(t, <<x>>) /\ aborted' = (Gone(s) \/ Clash(<<x>>))
  <2>1. x \notin UnderWay
    BY <1>1, <1>4, Ends DEF Open, Flow
  <2>2. ~Clash(<<x>>)
    BY <1>1, <1>2, <2>1, NoClash DEF Open, Sane
  <2>3. ~Gone(s)
    BY <1>1, Ends DEF Open, Gone
  <2>4. aborted' = FALSE /\ Leave(t, <<x>>) /\ receiving' = [receiving EXCEPT ![s] = FALSE]
    BY <1>4, <2>2, <2>3
  <2>5. \A e \in UnderWay' : e \in UnderWay \/ e = x
    BY <1>1, <1>2, <2>4, OpenUnderWay
  <2>6. ASSUME NEW r \in End PROVE Flow(r)'
    <3>1. Flow(r)
      BY <1>1 DEF Open
    <3>2. Ev("SENT", Other(r)) \in UnderWay' => Ev("SENT", Other(r)) \in UnderWay
      BY <1>2, <2>5, EventFacts
    <3>3. CASE r = Other(s)
      <4>1. Other(r) = s
        BY <3>3, Ends
      <4>2. receiving'[Other(r)] = FALSE
        BY <2>4, <4>1 DEF Sane, TypeOK
      <4>3. sending[r] /\ Ev("SENT", Other(r)) \notin UnderWay
        BY <1>4, <3>1, <4>1 DEF Flow
      <4> QED
        BY <1>3, <3>2, <4>2, <4>3 DEF Flow
    <3>4. CASE r # Other(s)
      <4>1. Ev("RECEIVED", r) \in UnderWay' => Ev("RECEIVED", r) \in UnderWay
        BY <1>2, <2>5, <3>4, EventFacts
      <4>2. Other(r) # s
        BY <3>4, Ends
      <4>3. receiving'[Other(r)] = receiving[Other(r)]
        BY <2>4, <4>2, Ends DEF Sane, TypeOK
      <4> QED
        BY <1>3, <3>1, <3>2, <4>1, <4>3 DEF Flow
    <3> QED
      BY <3>3, <3>4
  <2>7. Open'
    BY <1>1, <1>2, <1>3, <2>1, <2>4, <2>6, OpenStep
  <2> QED
    BY <2>4, <2>7 DEF Phase
<1>5. CASE UNCHANGED <<receiving, flight, aborted>>
  <2>1. UNCHANGED <<receiving, flight, aborted>>
    BY <1>5
  <2>2. UnderWay' = UnderWay /\ EventsOnce'
    BY <1>1, <2>1 DEF UnderWay, EventsOnce, Open
  <2>3. Open'
    BY <1>1, <1>3, <2>1, <2>2 DEF Open, Flow
  <2> QED
    BY <2>1, <2>3 DEF Phase
<1> QED
  BY <1>4, <1>5 DEF Recv

\* A message is fetched, or waits.
LEMMA OnSentPhase ==
  ASSUME Sane, aborted = FALSE, Phase, NEW t \in Thread, NEW s \in End, OnSent(t, s)
  PROVE  aborted' = FALSE /\ Phase'
<1> PICK e : e = Ev("SENT", s)
  OBVIOUS
<1> PICK x : x = Ev("RECEIVED", Other(s))
  OBVIOUS
<1>1. popped[t] /\ Head(flight[t]) = e /\ e.type = "SENT"
  BY EventFacts DEF OnSent, Handles
<1>2. Open /\ e \in UnderWay
  <2>1. /\ \A r : e # Ev("CONNECT", r) /\ e # Ev("READY", r) /\ e # Ev("ACCEPTED", r)
                  /\ e # Ev("DISCONNECT", r)
    BY <1>1, EventFacts
  <2> QED
    BY <1>1, <2>1, HeadPhase
<1>3. x \in Event /\ x.type = "RECEIVED" /\ x.to = Other(s) /\ <<x>> \in Seq(Event)
  BY Ends, RaisedType, EventFacts
<1>4. UNCHANGED <<ep, state, peer, pipe, sending>>
  BY DEF OnSent
<1>5. Flow(Other(s)) /\ Other(Other(s)) = s /\ Other(s) \in End
  BY <1>2, Ends DEF Open
<1>6. sending[Other(s)] /\ x \notin UnderWay /\ ~receiving[s]
  BY <1>2, <1>5 DEF Flow
<1>7. CASE Leave(t, <<x>>) /\ aborted' = (Gone(s) \/ Clash(<<x>>)) /\ UNCHANGED receiving
  <2>1. ~Clash(<<x>>)
    BY <1>2, <1>3, <1>6, NoClash DEF Open, Sane
  <2>2. ~Gone(s)
    BY <1>2, Ends DEF Open, Gone
  <2>3. aborted' = FALSE /\ Leave(t, <<x>>) /\ UNCHANGED receiving
    BY <1>7, <2>1, <2>2
  <2>4. e \notin UnderWay' /\ \A y \in UnderWay' : y \in UnderWay \/ y = x
    BY <1>1, <1>2, <1>3, <1>6, <2>3, OpenUnderWay
  <2>5. ASSUME NEW r \in End PROVE Flow(r)'
    <3>1. Flow(r)
      BY <1>2 DEF Open
    <3>2. Ev("SENT", Other(r)) \in UnderWay' => Ev("SENT", Other(r)) \in UnderWay
      BY <1>3, <2>4, EventFacts
    <3>3. CASE r = Other(s)
      <4>1. Ev("SENT", Other(r)) \notin UnderWay'
        BY <1>5, <2>4, <3>3
      <4>2. sending'[r] /\ ~receiving'[Other(r)]
        BY <1>4, <1>5, <1>6, <2>3, <3>3
      <4> QED
        BY <4>1, <4>2 DEF Flow
    <3>4. CASE r # Other(s)
      <4>1. Ev("RECEIVED", r) \in UnderWay' => Ev("RECEIVED", r) \in UnderWay
        BY <1>3, <2>4, <3>4, EventFacts
      <4> QED
        BY <1>4, <2>3, <3>1, <3>2, <4>1 DEF Flow
    <3> QED
      BY <3>3, <3>4
  <2>6. Open'
    BY <1>2, <1>3, <1>4, <1>6, <2>3, <2>5, OpenStep
  <2> QED
    BY <2>3, <2>6 DEF Phase
<1>8. CASE Leave(t, <<>>) /\ receiving' = [receiving EXCEPT ![s] = TRUE] /\ UNCHANGED aborted
  <2>1. aborted' = FALSE /\ Leave(t, <<>>) /\ receiving' = [receiving EXCEPT ![s] = TRUE]
    BY <1>8
  <2>2. e \notin UnderWay' /\ \A y \in UnderWay' : y \in UnderWay
    BY <1>1, <1>2, <1>3, <2>1, OpenUnderWay
  <2>3. ASSUME NEW r \in End PROVE Flow(r)'
    <3>1. Flow(r)
      BY <1>2 DEF Open
    <3>2. CASE r = Other(s)
      <4>1. Ev("SENT", Other(r)) \notin UnderWay' /\ Ev("RECEIVED", r) \notin UnderWay'
        BY <1>5, <1>6, <2>2, <3>2
      <4>2. sending'[r]
        BY <1>4, <1>6, <3>2
      <4> QED
        BY <4>1, <4>2 DEF Flow
    <3>3. CASE r # Other(s)
      <4>1. Other(r) # s
        BY <3>3, Ends
      <4>2. receiving'[Other(r)] = receiving[Other(r)]
        BY <2>1, <4>1, Ends DEF Sane, TypeOK
      <4> QED
        BY <1>4, <2>2, <3>1, <4>2 DEF Flow
    <3> QED
      BY <3>2, <3>3
  <2>4. <<>> \in Seq(Event)
    OBVIOUS
  <2>5. Open'
    BY <1>2, <1>4, <2>1, <2>3, <2>4, OpenStep
  <2> QED
    BY <2>1, <2>5 DEF Phase
<1> QED
  BY <1>7, <1>8 DEF OnSent

\* A message is acknowledged; the next one may follow.
LEMMA OnReceivedPhase ==
  ASSUME Sane, aborted = FALSE, Phase, NEW t \in Thread, NEW s \in End, OnReceived(t, s)
  PROVE  aborted' = FALSE /\ Phase'
<1> PICK e : e = Ev("RECEIVED", s)
  OBVIOUS
<1> PICK x : x = Ev("SENT", Other(s))
  OBVIOUS
<1>1. popped[t] /\ Head(flight[t]) = e /\ e.type = "RECEIVED"
  BY EventFacts DEF OnReceived, Handles
<1>2. Open /\ e \in UnderWay
  <2>1. /\ \A r : e # Ev("CONNECT", r) /\ e # Ev("READY", r) /\ e # Ev("ACCEPTED", r)
                  /\ e # Ev("DISCONNECT", r)
    BY <1>1, EventFacts
  <2> QED
    BY <1>1, <2>1, HeadPhase
<1>3. x \in Event /\ x.type = "SENT" /\ x.to = Other(s) /\ <<x>> \in Seq(Event)
  BY Ends, RaisedType, EventFacts
<1>4. UNCHANGED <<ep, state, peer, pipe, receiving>> /\ Writable(t, s, <<>>)
  BY DEF OnReceived
<1>5. x \notin UnderWay /\ ~receiving[Other(s)] /\ sending \in [End -> BOOLEAN]
  BY <1>2 DEF Open, Flow, Sane, TypeOK
<1>6. Append(<<>>, x) = <<x>>
  OBVIOUS
<1>7. CASE /\ sending' = [sending EXCEPT ![s] = FALSE]
           /\ Leave(t, <<>>)
           /\ aborted' = Clash(<<>>)
  <2>1. aborted' = FALSE
    <3>1. ~Clash(<<>>)
      BY DEF Clash
    <3> QED
      BY <1>7, <3>1
  <2>2. e \notin UnderWay' /\ \A y \in UnderWay' : y \in UnderWay
    BY <1>1, <1>2, <1>3, <1>7, OpenUnderWay
  <2>3. ASSUME NEW r \in End PROVE Flow(r)'
    <3>1. Flow(r)
      BY <1>2 DEF Open
    <3>2. CASE r = s
      <4>1. Ev("SENT", Other(r)) \notin UnderWay' /\ Ev("RECEIVED", r) \notin UnderWay'
        BY <1>5, <2>2, <3>2
      <4>2. ~receiving'[Other(r)]
        BY <1>4, <1>5, <3>2
      <4> QED
        BY <4>1, <4>2 DEF Flow
    <3>3. CASE r # s
      <4>1. sending'[r] = sending[r]
        BY <1>5, <1>7, <3>3
      <4> QED
        BY <1>4, <2>2, <3>1, <4>1 DEF Flow
    <3> QED
      BY <3>2, <3>3
  <2>4. <<>> \in Seq(Event)
    OBVIOUS
  <2>5. Open'
    BY <1>2, <1>4, <1>7, <2>3, <2>4, OpenStep
  <2> QED
    BY <2>1, <2>5 DEF Phase
<1>8. CASE /\ SendOn(s) /\ Leave(t, <<x>>)
           /\ aborted' = (state[Other(s)] = "FREED" \/ Clash(<<x>>))
  <2>1. ~Clash(<<x>>)
    BY <1>2, <1>3, <1>5, NoClash DEF Open, Sane
  <2>2. state[Other(s)] # "FREED"
    BY <1>2, Ends DEF Open
  <2>3. aborted' = FALSE
    BY <1>8, <2>1, <2>2
  <2>4. e \notin UnderWay' /\ \A y \in UnderWay' : y \in UnderWay \/ y = x
    BY <1>1, <1>2, <1>3, <1>5, <1>8, OpenUnderWay
  <2>5. sending' = [sending EXCEPT ![s] = TRUE]
    BY <1>8 DEF SendOn
  <2>6. ASSUME NEW r \in End PROVE Flow(r)'
    <3>1. Flow(r)
      BY <1>2 DEF Open
    <3>2. Ev("RECEIVED", r) \in UnderWay' => Ev("RECEIVED", r) \in UnderWay
      BY <1>3, <2>4, EventFacts
    <3>3. CASE r = s
      <4>1. Ev("RECEIVED", r) \notin UnderWay' /\ ~receiving'[Other(r)] /\ sending'[r]
        BY <1>4, <1>5, <2>4, <2>5, <3>3
      <4> QED
        BY <4>1 DEF Flow
    <3>4. CASE r # s
      <4>1. Ev("SENT", Other(r)) \in UnderWay' => Ev("SENT", Other(r)) \in UnderWay
        BY <1>3, <2>4, <3>4, Ends, EventFacts
      <4>2. sending'[r] = sending[r]
        BY <1>5, <2>5, <3>4
      <4> QED
        BY <1>4, <3>1, <3>2, <4>1, <4>2 DEF Flow
    <3> QED
      BY <3>3, <3>4
  <2>7. Open'
    BY <1>2, <1>3, <1>4, <1>5, <1>8, <2>6, OpenStep
  <2> QED
    BY <2>3, <2>7 DEF Phase
<1> QED
  BY <1>4, <1>6, <1>7, <1>8 DEF Writable

\* A session that nothing is under way to is freed.
LEMMA VanishQuiet ==
  ASSUME Sane, aborted = FALSE, NEW s \in End, NEW e, Vanish(s, e),
         \A name : ~Active(s, name)
  PROVE  /\ state' = [state EXCEPT ![s] = "FREED"]
         /\ ep' = [ep EXCEPT ![s] = IF e = "STOPPING" THEN "IDLE" ELSE e]
         /\ aborted' = FALSE
<1>1. ~Active(s, "RECEIVED") /\ ~Active(s, "DISCONNECT")
      /\ ~Active(s, "connect") /\ ~Active(s, "SENT")
  OBVIOUS
<1> QED
  BY <1>1 DEF Vanish

\* An endpoint is stopped: the first one, the second one, or one whose peer has
\* answered before.
LEMMA StopPhase ==
  ASSUME Sane, aborted = FALSE, Phase, NEW t \in Thread, NEW s \in End, Stop(t, s), raced' = {}
  PROVE  aborted' = FALSE /\ Phase'
<1>0. /\ flight[t] = <<>> /\ ep[s] = "ACTIVE" /\ Calls(t, "stop")
      /\ UNCHANGED <<peer, sending, receiving, queue>>
  BY DEF Stop, Calls, Idle, datavars
<1>1. \A e \in UnderWay : e.type \notin Handshake \cup {"SENT", "RECEIVED"}
  BY <1>0, NoRace
<1>2. Other(s) \in End /\ Other(s) # s /\ Other(Other(s)) = s /\ End = {s, Other(s)} /\ "c" \in End
  BY Ends DEF End
<1>3. /\ state \in [End -> {"NONE", "CONNECTING", "READY", "ACTIVE",
                            "DISCONNECTED", "STOPPING_PEER", "STOPPING", "FREED"}]
      /\ ep \in [End -> {"NONE", "ACTIVE", "STOPPING", "IDLE"}]
      /\ pipe \in [End -> {"NONE", "UP", "DOWN"}]
  BY DEF Sane, TypeOK
<1>4. CASE Unconnected
  <2>1. state[s] = "NONE" /\ s # "c"
    BY <1>0, <1>4 DEF Unconnected, End
  <2>2. ep' = [ep EXCEPT ![s] = "IDLE"] /\ UNCHANGED <<state, pipe, flight, aborted>>
    BY <2>1 DEF Stop
  <2>3. ep'["c"] = "NONE"
    BY <1>2, <1>3, <1>4, <2>1, <2>2 DEF Unconnected
  <2>4. Unconnected'
    BY <1>0, <1>4, <2>2, <2>3 DEF Unconnected, Nothing
  <2> QED
    BY <2>2, <2>4 DEF Phase
<1>5. ASSUME NEW u \in Thread, Connecting(u) \/ Accepting(u) PROVE FALSE
  <2>1. \E type \in Handshake, r \in End : Ev(type, r) \in UnderWay
    <3>1. CASE Connecting(u)
      BY <3>1, FirstUnderWay DEF Connecting, Handshake, End
    <3>2. CASE Accepting(u)
      BY <3>2, FirstUnderWay DEF Accepting, Handshake, End
    <3> QED
      BY <1>5, <3>1, <3>2
  <2> QED
    BY <1>1, <2>1, EventFacts
\* The session is told to stop, and tells its peer.
<1>6. ASSUME state[s] = "ACTIVE", peer[s], state[Other(s)] # "FREED",
             \A e \in UnderWay : Object(e) # <<Other(s), "DISCONNECT">>
      PROVE  /\ aborted' = FALSE /\ state' = [state EXCEPT ![s] = "STOPPING_PEER"]
             /\ ep' = [ep EXCEPT ![s] = "STOPPING"] /\ pipe' = [pipe EXCEPT ![s] = "DOWN"]
             /\ flight'[t] = <<Ev("DISCONNECT", Other(s))>>
             /\ \A u \in Thread \ {t} : flight'[u] = flight[u]
  <2>1. Object(Ev("DISCONNECT", Other(s))) = <<Other(s), "DISCONNECT">>
    BY EventFacts DEF Object, Handshake
  <2>2. ~Active(Other(s), "DISCONNECT")
    BY <1>6, ActiveUnderWay DEF Sane
  <2>3. ~Clash(<<Ev("DISCONNECT", Other(s))>>)
    BY <2>1, <2>2 DEF Clash
  <2>4. ~Gone(s)
    BY <1>6 DEF Gone
  <2>5. /\ aborted' = FALSE /\ state' = [state EXCEPT ![s] = "STOPPING_PEER"]
        /\ ep' = [ep EXCEPT ![s] = "STOPPING"] /\ pipe' = [pipe EXCEPT ![s] = "DOWN"]
        /\ Leave(t, <<Ev("DISCONNECT", Other(s))>>)
    BY <1>6, <2>3, <2>4 DEF Stop
  <2>6. <<Ev("DISCONNECT", Other(s))>> \in Seq(Event)
    BY <1>2, RaisedType
  <2>7. popped[t] = FALSE
    BY <1>0 DEF Sane, PoppedSound, TypeOK
  <2>8. /\ flight'[t] = <<Ev("DISCONNECT", Other(s))>> \o flight[t]
        /\ \A u \in Thread \ {t} : flight'[u] = flight[u]
    BY <2>5, <2>6, <2>7, LeaveFlight DEF Sane
  <2>9. flight'[t] = <<Ev("DISCONNECT", Other(s))>>
    BY <1>0, <2>6, <2>8
  <2> QED
    BY <2>5, <2>8, <2>9
<1>7. CASE Open
  <2>1. UnderWay = {}
    BY <1>1, <1>7 DEF Open
  <2>2. ASSUME NEW u \in Thread PROVE flight[u] = <<>>
    <3>1. flight[u] \in Seq(Event)
      BY DEF Sane, TypeOK
    <3>2. flight[u] # <<>> => 1 \in DOMAIN flight[u]
      BY <3>1
    <3> QED
      BY <2>1, <3>2, UnderWayAt
  <2>3. /\ aborted' = FALSE /\ state' = [state EXCEPT ![s] = "STOPPING_PEER"]
        /\ ep' = [ep EXCEPT ![s] = "STOPPING"] /\ pipe' = [pipe EXCEPT ![s] = "DOWN"]
        /\ flight'[t] = <<Ev("DISCONNECT", Other(s))>>
        /\ \A u \in Thread \ {t} : flight'[u] = <<>>
    BY <1>2, <1>6, <1>7, <2>1, <2>2 DEF Open
  <2>4. Closing(s, t)'
    <3>1. state'[s] = "STOPPING_PEER" /\ state'[Other(s)] = "ACTIVE" /\ pipe'[s] = "DOWN"
          /\ ep'["c"] # "NONE"
      BY <1>2, <1>3, <1>7, <2>3 DEF Open
    <3>2. peer'[Other(s)]
      BY <1>0, <1>2, <1>7 DEF Open
    <3> QED
      BY <2>3, <3>1, <3>2 DEF Closing, Only
  <2> QED
    BY <2>3, <2>4 DEF Phase
<1>8. ASSUME NEW r \in End, NEW u \in Thread, Closing(r, u) PROVE aborted' = FALSE /\ Phase'
  <2>1. u # t /\ flight[u] = <<Ev("DISCONNECT", Other(r))>> /\ Only(u, <<Ev("DISCONNECT", Other(r))>>)
    <3>1. Only(u, <<Ev("DISCONNECT", Other(r))>>)
      BY <1>8 DEF Closing
    <3>2. flight[u] = <<Ev("DISCONNECT", Other(r))>>
      BY <3>1 DEF Only
    <3>3. \A x : <<x>> # <<>>
      OBVIOUS
    <3> QED
      BY <1>0, <3>1, <3>2, <3>3
  <2>2. r = Other(s)
    <3>1. state[s] # "STOPPING_PEER"
      BY DEF Stop
    <3> QED
      BY <1>2, <1>8, <3>1 DEF Closing
  <2>3. \A e \in UnderWay : Object(e) # <<Other(s), "DISCONNECT">>
    <3>1. UnderWay = {Ev("DISCONNECT", s)}
      BY <1>2, <2>1, <2>2, OnlyUnderWay
    <3>2. Object(Ev("DISCONNECT", s)) = <<s, "DISCONNECT">>
      BY EventFacts DEF Object, Handshake
    <3> QED
      BY <1>2, <3>1, <3>2
  <2>4. /\ aborted' = FALSE /\ state' = [state EXCEPT ![s] = "STOPPING_PEER"]
        /\ ep' = [ep EXCEPT ![s] = "STOPPING"] /\ pipe' = [pipe EXCEPT ![s] = "DOWN"]
        /\ flight'[t] = <<Ev("DISCONNECT", Other(s))>>
        /\ \A v \in Thread \ {t} : flight'[v] = flight[v]
    BY <1>2, <1>6, <1>8, <2>2, <2>3 DEF Closing
  <2>5. /\ \A q \in End : state'[q] = "STOPPING_PEER" /\ pipe'[q] = "DOWN"
        /\ ep'["c"] # "NONE"
    BY <1>2, <1>3, <1>8, <2>2, <2>4 DEF Closing
  <2>6. /\ flight'[u] = <<Ev("DISCONNECT", s)>>
        /\ \A v \in Thread \ {t, u} : flight'[v] = <<>>
    BY <1>2, <2>1, <2>2, <2>4 DEF Only
  <2>7. BothClosing(t, u)' \/ BothClosing(u, t)'
    <3>1. CASE s = "c"
      <4>1. Other(s) = "a"
        BY <3>1 DEF Other
      <4>2. \A v \in Thread \ {u, t} : flight'[v] = <<>>
        BY <2>6
      <4> QED
        BY <2>1, <2>4, <2>5, <2>6, <3>1, <4>1, <4>2 DEF BothClosing
    <3>2. CASE s = "a"
      <4>1. Other(s) = "c"
        BY <3>2 DEF Other
      <4> QED
        BY <2>1, <2>4, <2>5, <2>6, <3>2, <4>1 DEF BothClosing
    <3> QED
      BY <3>1, <3>2 DEF End
  <2> QED
    BY <2>4, <2>7 DEF Phase
\* The peer is through with the connection: the session is freed, or is already.
<1>9. ASSUME state[s] \in {"FREED", "DISCONNECTED"}, \A name : ~Active(s, name)
      PROVE  /\ aborted' = FALSE /\ UNCHANGED <<pipe, flight>>
             /\ state' = [state EXCEPT ![s] = "FREED"]
             /\ ep' = [ep EXCEPT ![s] = "IDLE"]
  <2>1. CASE state[s] = "FREED"
    <3>1. ep' = [ep EXCEPT ![s] = "IDLE"] /\ UNCHANGED <<state, pipe, flight, aborted>>
      BY <2>1 DEF Stop
    <3>2. state = [state EXCEPT ![s] = "FREED"]
      BY <1>3, <2>1
    <3> QED
      BY <3>1, <3>2
  <2>2. CASE state[s] = "DISCONNECTED"
    <3>1. Vanish(s, "STOPPING") /\ UNCHANGED <<pipe, flight>>
      BY <2>2 DEF Stop
    <3> QED
      BY <1>9, <3>1, VanishQuiet
  <2> QED
    BY <1>9, <2>1, <2>2
<1>10. ASSUME NEW r \in End, NEW u \in Thread, Answered(r, u) PROVE aborted' = FALSE /\ Phase'
  <2>1. r = Other(s)
    <3>1. state[s] # "STOPPING_PEER"
      BY DEF Stop
    <3> QED
      BY <1>2, <1>10, <3>1 DEF Answered
  <2>2. \A name : ~Active(s, name)
    <3> SUFFICES ASSUME NEW name, Active(s, name) PROVE FALSE
      OBVIOUS
    <3>1. UnderWay = {Ev("DISCONNECT", r)}
      BY <1>10, OnlyUnderWay DEF Answered
    <3>2. Object(Ev("DISCONNECT", r)) = <<r, "DISCONNECT">>
      BY EventFacts DEF Object, Handshake
    <3>3. PICK e \in UnderWay : Object(e) = <<s, name>>
      BY ActiveUnderWay DEF Sane
    <3> QED
      BY <1>2, <2>1, <3>1, <3>2, <3>3
  <2>3. /\ aborted' = FALSE /\ UNCHANGED <<pipe, flight>>
        /\ state' = [state EXCEPT ![s] = "FREED"]
        /\ ep' = [ep EXCEPT ![s] = "IDLE"]
    BY <1>2, <1>9, <1>10, <2>1, <2>2 DEF Answered
  <2>4. state'[r] = "STOPPING_PEER" /\ state'[Other(r)] = "FREED" /\ ep'["c"] # "NONE"
    BY <1>2, <1>3, <1>10, <2>1, <2>3 DEF Answered
  <2>5. Answered(r, u)'
    BY <1>10, <2>3, <2>4 DEF Answered, Only
  <2> QED
    BY <2>3, <2>5 DEF Phase
<1>11. ASSUME NEW r \in End, Closed(r) PROVE aborted' = FALSE /\ Phase'
  <2>1. state[s] \in {"FREED", "DISCONNECTED"} /\ r \in {s, Other(s)}
    BY <1>2, <1>11 DEF Closed
  <2>2. \A name : ~Active(s, name)
    <3> SUFFICES ASSUME NEW name, Active(s, name) PROVE FALSE
      OBVIOUS
    <3>1. UnderWay = {}
      BY <1>11, OnlyUnderWay DEF Closed
    <3> QED
      BY <3>1, ActiveUnderWay DEF Sane
  <2>3. /\ aborted' = FALSE /\ UNCHANGED <<pipe, flight>>
        /\ state' = [state EXCEPT ![s] = "FREED"]
        /\ ep' = [ep EXCEPT ![s] = "IDLE"]
    BY <1>9, <2>1, <2>2
  <2>4. state'[r] = "FREED" /\ state'[Other(r)] \in {"FREED", "DISCONNECTED"} /\ ep'["c"] # "NONE"
    BY <1>2, <1>3, <1>11, <2>1, <2>3 DEF Closed
  <2>5. Closed(r)'
    BY <1>11, <2>3, <2>4 DEF Closed, Nothing
  <2> QED
    BY <2>3, <2>5 DEF Phase
<1>12. ASSUME NEW u \in Thread, NEW v \in Thread, BothClosing(u, v) PROVE FALSE
  BY <1>12 DEF BothClosing, Stop
<1> QED
  BY <1>4, <1>5, <1>7, <1>8, <1>10, <1>11, <1>12 DEF Phase

\* The peer stops: the session is disconnected, and answers.
LEMMA OnDisconnectPhase ==
  ASSUME Sane, aborted = FALSE, Phase, NEW t \in Thread, NEW s \in End, OnDisconnect(t, s)
  PROVE  aborted' = FALSE /\ Phase'
<1> PICK e : e = Ev("DISCONNECT", s)
  OBVIOUS
<1> PICK r : r = Other(s)
  OBVIOUS
<1>1. /\ popped[t] /\ Head(flight[t]) = e /\ e.type = "DISCONNECT" /\ e.to = s /\ state[s] = "ACTIVE"
      /\ Leave(t, <<Ev("DISCONNECT", r)>>) /\ Disconnected(s)
  BY EventFacts DEF OnDisconnect, Handles
<1>2. r \in End /\ r # s /\ Other(r) = s /\ End = {s, r} /\ "c" \in End
  BY Ends DEF End
<1>3. Closing(r, t)
  <2>1. \A q : e # Ev("CONNECT", q) /\ e # Ev("READY", q) /\ e # Ev("ACCEPTED", q)
    BY <1>1, EventFacts
  <2>2. \A q \in End : e = Ev("DISCONNECT", q) => q = s
    BY <1>1, EventFacts
  <2>3. \A q \in End : Answered(q, t) => q # s
    BY <1>1 DEF Answered
  <2>4. \A q \in End : q # s => q = r
    BY <1>2
  <2>5. \A u \in Thread : ~BothClosing(t, u) /\ ~BothClosing(u, t)
    BY <1>1 DEF BothClosing
  <2>6. \A q \in End : e = Ev("DISCONNECT", Other(q)) => Other(q) = s
    BY <1>1, EventFacts
  <2>7. \A q \in End : Other(q) = s => q = r
    BY Ends
  <2> QED
    BY <1>1, <2>1, <2>2, <2>3, <2>5, <2>6, <2>7, HeadPhase
<1>4. Only(t, <<e>>)
  BY <1>2, <1>3 DEF Closing
<1>5. \A name : ~Active(s, name)
  BY <1>1, <1>4, LastPopped DEF Sane
<1>6. Only(t, <<Ev("DISCONNECT", r)>>)'
  <2>1. <<Ev("DISCONNECT", r)>> \in Seq(Event)
    BY <1>2, RaisedType
  <2> QED
    BY <1>1, <1>4, <2>1, LeaveOnly DEF Sane
<1>7. /\ state \in [End -> {"NONE", "CONNECTING", "READY", "ACTIVE",
                            "DISCONNECTED", "STOPPING_PEER", "STOPPING", "FREED"}]
      /\ ep \in [End -> {"NONE", "ACTIVE", "STOPPING", "IDLE"}]
      /\ pipe \in [End -> {"NONE", "UP", "DOWN"}]
  BY DEF Sane, TypeOK
<1>8. /\ aborted' = FALSE /\ ep'["c"] # "NONE"
      /\ state'[r] = "STOPPING_PEER" /\ state'[s] \in {"FREED", "DISCONNECTED"}
  <2>1. CASE kind[s] = "binproc"
    <3>1. Vanish(s, ep[s])
      BY <1>1, <2>1 DEF Disconnected
    <3>2. /\ state' = [state EXCEPT ![s] = "FREED"] /\ aborted' = FALSE
          /\ ep' = [ep EXCEPT ![s] = IF ep[s] = "STOPPING" THEN "IDLE" ELSE ep[s]]
      BY <1>5, <3>1, VanishQuiet
    <3>3. ep'["c"] # "NONE"
      BY <1>2, <1>3, <1>7, <3>2 DEF Closing
    <3> QED
      BY <1>2, <1>3, <1>7, <3>2, <3>3 DEF Closing
  <2>2. CASE kind[s] # "binproc"
    <3>1. state' = [state EXCEPT ![s] = "DISCONNECTED"] /\ UNCHANGED <<ep, aborted>>
      BY <1>1, <2>2 DEF Disconnected
    <3> QED
      BY <1>2, <1>3, <1>7, <3>1 DEF Closing
  <2> QED
    BY <2>1, <2>2
<1>9. \A q \in End : pipe'[q] = "DOWN"
  <2>1. pipe' = [pipe EXCEPT ![s] = "DOWN"]
    BY <1>1 DEF Disconnected
  <2> QED
    BY <1>2, <1>3, <1>7, <2>1 DEF Closing
<1>10. Answered(r, t)'
  BY <1>2, <1>6, <1>8, <1>9 DEF Answered
<1> QED
  BY <1>2, <1>8, <1>10 DEF Phase

\* The answer has come, or both stop at once.
LEMMA OnDisconnectAnswerPhase ==
  ASSUME Sane, aborted = FALSE, Phase, NEW t \in Thread, NEW s \in End, OnDisconnectAnswer(t, s)
  PROVE  aborted' = FALSE /\ Phase'
<1> PICK e : e = Ev("DISCONNECT", s)
  OBVIOUS
<1> PICK r : r = Other(s)
  OBVIOUS
<1>1. /\ popped[t] /\ Head(flight[t]) = e /\ e.type = "DISCONNECT" /\ e.to = s
      /\ state[s] = "STOPPING_PEER"
      /\ Leave(t, <<>>) /\ Vanish(s, ep[s]) /\ UNCHANGED <<pipe, sending, receiving, queue>>
  BY EventFacts DEF OnDisconnectAnswer, Handles, flagvars, datavars
<1>2. r \in End /\ r # s /\ Other(r) = s /\ End = {s, r} /\ "c" \in End
  BY Ends DEF End
<1>3. /\ state \in [End -> {"NONE", "CONNECTING", "READY", "ACTIVE",
                            "DISCONNECTED", "STOPPING_PEER", "STOPPING", "FREED"}]
      /\ ep \in [End -> {"NONE", "ACTIVE", "STOPPING", "IDLE"}]
  BY DEF Sane, TypeOK
\* What is left when nothing else is under way to the session.
<1>4. ASSUME \A name : ~Active(s, name), ep["c"] # "NONE"
      PROVE  aborted' = FALSE /\ state'[s] = "FREED" /\ state'[r] = state[r] /\ ep'["c"] # "NONE"
  <2>1. /\ state' = [state EXCEPT ![s] = "FREED"] /\ aborted' = FALSE
        /\ ep' = [ep EXCEPT ![s] = IF ep[s] = "STOPPING" THEN "IDLE" ELSE ep[s]]
    BY <1>1, <1>4, VanishQuiet
  <2>2. ep'["c"] # "NONE"
    BY <1>2, <1>3, <1>4, <2>1
  <2> QED
    BY <1>2, <1>3, <2>1, <2>2
<1>5. CASE Answered(s, t)
  <2>1. Only(t, <<e>>)
    BY <1>5 DEF Answered
  <2>2. \A name : ~Active(s, name)
    BY <1>1, <2>1, LastPopped DEF Sane
  <2>3. aborted' = FALSE /\ state'[s] = "FREED" /\ state'[r] = state[r] /\ ep'["c"] # "NONE"
    BY <1>4, <1>5, <2>2 DEF Answered
  <2>4. Only(t, <<>>)'
    <3>1. <<>> \in Seq(Event)
      OBVIOUS
    <3> QED
      BY <1>1, <2>1, <3>1, LeaveOnly DEF Sane
  <2>5. Nothing'
    BY <2>4 DEF Only, Nothing
  <2>6. Closed(s)'
    BY <1>1, <1>5, <2>3, <2>5 DEF Closed, Answered
  <2> QED
    BY <2>3, <2>6 DEF Phase
<1>6. ASSUME NEW u \in Thread, t # u, \A q \in End : state[q] = "STOPPING_PEER" /\ pipe[q] = "DOWN",
             ep["c"] # "NONE", flight[t] = <<e>>, flight[u] = <<Ev("DISCONNECT", r)>>,
             \A v \in Thread \ {t, u} : flight[v] = <<>>
      PROVE  aborted' = FALSE /\ Phase'
  <2>1. \A name : ~Active(s, name)
    <3> SUFFICES ASSUME NEW name, Active(s, name) PROVE FALSE
      OBVIOUS
    <3>1. PICK v \in Thread : \E x \in Queued(v) : Object(x) = <<s, name>>
      BY DEF Active
    <3>2. PICK x \in Queued(v) : Object(x) = <<s, name>>
      BY <3>1
    <3>3. Queued(t) = {}
      <4>1. Tail(<<e>>) = <<>>
        OBVIOUS
      <4> QED
        BY <1>1, <1>6, <4>1 DEF Queued, ToSet
    <3>4. v = u
      <4>1. ASSUME NEW w \in Thread \ {t, u} PROVE Queued(w) = {}
        <5>1. flight[w] = <<>> /\ ~popped[w]
          BY <1>6 DEF Sane, PoppedSound
        <5> QED
          BY <5>1 DEF Queued, ToSet
      <4> QED
        BY <3>2, <3>3, <4>1
    <3>5. x \in ToSet(flight[u]) \/ x \in ToSet(Tail(flight[u]))
      BY <3>2, <3>4 DEF Queued
    <3>6. x = Ev("DISCONNECT", r)
      <4>1. Tail(<<Ev("DISCONNECT", r)>>) = <<>>
        OBVIOUS
      <4>2. DOMAIN <<Ev("DISCONNECT", r)>> = {1}
            /\ <<Ev("DISCONNECT", r)>>[1] = Ev("DISCONNECT", r)
        OBVIOUS
      <4> QED
        BY <1>6, <3>5, <4>1, <4>2 DEF ToSet
    <3>7. Object(x) = <<r, "DISCONNECT">>
      BY <3>6, EventFacts DEF Object, Handshake
    <3> QED
      BY <1>2, <3>2, <3>7
  <2>2. aborted' = FALSE /\ state'[s] = "FREED" /\ state'[r] = state[r] /\ ep'["c"] # "NONE"
    BY <1>4, <1>6, <2>1
  <2>3. flight'[t] = <<>> /\ \A v \in Thread \ {t} : flight'[v] = flight[v]
    <3>1. <<>> \in Seq(Event) /\ Tail(<<e>>) = <<>> /\ <<>> \o <<>> = <<>>
      OBVIOUS
    <3>2. /\ flight'[t] = <<>> \o Tail(flight[t])
          /\ \A v \in Thread \ {t} : flight'[v] = flight[v]
      BY <1>1, <3>1, LeaveFlight DEF Sane
    <3> QED
      BY <1>6, <3>1, <3>2
  <2>4. Only(u, <<Ev("DISCONNECT", r)>>)'
    BY <1>6, <2>3 DEF Only
  <2>5. Answered(r, u)'
    BY <1>1, <1>2, <1>6, <2>2, <2>4 DEF Answered
  <2> QED
    BY <1>2, <2>2, <2>5 DEF Phase
<1>7. \/ Answered(s, t)
      \/ \E u \in Thread : s = "c" /\ BothClosing(t, u)
      \/ \E u \in Thread : s = "a" /\ BothClosing(u, t)
  <2>1. \A q : e # Ev("CONNECT", q) /\ e # Ev("READY", q) /\ e # Ev("ACCEPTED", q)
    BY <1>1, EventFacts
  <2>2. \A q : e = Ev("DISCONNECT", q) => q = s
    BY <1>1, EventFacts
  <2>3. \A q \in End : Closing(q, t) => Other(q) # s
    BY <1>1 DEF Closing
  <2>4. e.type \notin {"SENT", "RECEIVED"}
    BY <1>1
  <2>5. ASSUME NEW q \in End, e = Ev("DISCONNECT", Other(q)), Closing(q, t) PROVE FALSE
    BY <2>2, <2>3, <2>5
  <2>6. ASSUME NEW q \in End, e = Ev("DISCONNECT", q), Answered(q, t) PROVE Answered(s, t)
    BY <2>2, <2>6
  <2>7. ASSUME NEW u \in Thread, e = Ev("DISCONNECT", "c") PROVE s = "c"
    BY <2>2, <2>7
  <2>8. ASSUME NEW u \in Thread, e = Ev("DISCONNECT", "a") PROVE s = "a"
    BY <2>2, <2>8
  <2> QED
    BY <1>1, <2>1, <2>4, <2>5, <2>6, <2>7, <2>8, HeadPhase
<1>8. ASSUME NEW u \in Thread, s = "c", BothClosing(t, u) PROVE aborted' = FALSE /\ Phase'
  <2>1. r = "a"
    BY <1>8 DEF Other
  <2> QED
    BY <1>6, <1>8, <2>1 DEF BothClosing
<1>9. ASSUME NEW u \in Thread, s = "a", BothClosing(u, t) PROVE aborted' = FALSE /\ Phase'
  <2>1. r = "c"
    BY <1>9 DEF Other
  <2> QED
    BY <1>6, <1>9, <2>1 DEF BothClosing
<1> QED
  BY <1>5, <1>7, <1>8, <1>9

\* A step that changes none of this leaves the phase.
LEMMA PhaseStutters ==
  ASSUME UNCHANGED <<ep, state, peer, pipe, sending, receiving, queue, flight>>, Phase
  PROVE  Phase'
<1>1. UnderWay' = UnderWay
  BY DEF UnderWay
<1>2. \A s \in End : Flow(s)' <=> Flow(s)
  BY <1>1 DEF Flow
<1>3. Open => Open'
  BY <1>1, <1>2 DEF Open, EventsOnce
<1>4. ASSUME NEW u \in Thread PROVE (Connecting(u) => Connecting(u)') /\ (Accepting(u) => Accepting(u)')
  BY DEF Connecting, Accepting, Only
<1>5. ASSUME NEW s \in End, NEW u \in Thread
      PROVE  (Closing(s, u) => Closing(s, u)') /\ (Answered(s, u) => Answered(s, u)')
  BY DEF Closing, Answered, Only
<1>6. ASSUME NEW u \in Thread, NEW v \in Thread PROVE BothClosing(u, v) => BothClosing(u, v)'
  BY DEF BothClosing
<1>7. ASSUME NEW s \in End PROVE Closed(s) => Closed(s)'
  BY DEF Closed, Nothing
<1>8. Unconnected => Unconnected'
  BY DEF Unconnected, Nothing
<1> QED
  BY <1>3, <1>4, <1>5, <1>6, <1>7, <1>8 DEF Phase

\* Popping an event leaves the phase.
LEMMA PopPhase ==
  ASSUME aborted = FALSE, Phase, NEW t \in Thread, Pop(t)
  PROVE  aborted' = FALSE /\ Phase'
<1>1. UNCHANGED <<ep, state, peer, pipe, sending, receiving, queue, flight, aborted>>
  BY DEF Pop, flagvars, datavars
<1> QED
  BY <1>1, PhaseStutters

\* What is expected, event by event.
LEMMA ExpectedFacts ==
  ASSUME NEW e
  PROVE  /\ e.type = "CONNECT" /\ ep["a"] = "ACTIVE" => Expected(e)
         /\ e.type = "READY" /\ state[e.to] = "CONNECTING" => Expected(e)
         /\ e.type = "ACCEPTED" /\ state[e.to] = "READY" => Expected(e)
         /\ e.type = "SENT" /\ state[e.to] = "ACTIVE" => Expected(e)
         /\ e.type = "RECEIVED" /\ state[e.to] = "ACTIVE" /\ sending[e.to] => Expected(e)
         /\ e.type = "DISCONNECT" /\ state[e.to] \in {"ACTIVE", "STOPPING_PEER"} => Expected(e)
<1>1. CASE e.type = "CONNECT"
  BY <1>1 DEF Expected
<1>2. CASE e.type = "READY"
  BY <1>2 DEF Expected
<1>3. CASE e.type = "ACCEPTED"
  BY <1>3 DEF Expected
<1>4. CASE e.type = "SENT"
  BY <1>4 DEF Expected
<1>5. CASE e.type = "RECEIVED"
  BY <1>5 DEF Expected
<1>6. CASE e.type = "DISCONNECT"
  BY <1>6 DEF Expected
<1> QED
  BY <1>1, <1>2, <1>3, <1>4, <1>5, <1>6

\* Every event that is popped is expected, and none is ignored.
LEMMA NothingUnexpected ==
  ASSUME Sane, aborted = FALSE, Phase, NEW t \in Thread, NEW s \in End
  PROVE  ~Ignore(t) /\ ~Unexpected(t) /\ ~OnLastReceived(t, s)
<1> SUFFICES ASSUME popped[t]
             PROVE  ~Ignore(t) /\ ~Unexpected(t) /\ ~OnLastReceived(t, s)
  BY DEF Ignore, Unexpected, OnLastReceived, Handles
<1> PICK e : e = Head(flight[t])
  OBVIOUS
<1> DEFINE Fine == /\ Expected(e)
                   /\ e.type \in {"READY", "ACCEPTED", "SENT", "RECEIVED"} =>
                         state[e.to] \notin {"STOPPING_PEER", "DISCONNECTED", "STOPPING"}
<1>1. ASSUME e = Ev("CONNECT", "a") /\ ep["a"] = "ACTIVE"
      PROVE  Fine
  <2>1. e.type = "CONNECT"
    BY <1>1, EventFacts
  <2> QED
    BY <1>1, <2>1, ExpectedFacts
<1>2. ASSUME e = Ev("READY", "c") /\ Connecting(t)
      PROVE  Fine
  <2>1. e.type = "READY" /\ e.to = "c"
    BY <1>2, EventFacts
  <2>2. state["c"] = "CONNECTING"
    BY <1>2 DEF Connecting
  <2> QED
    BY <2>1, <2>2, ExpectedFacts
<1>3. ASSUME e = Ev("ACCEPTED", "a") /\ Accepting(t)
      PROVE  Fine
  <2>1. e.type = "ACCEPTED" /\ e.to = "a"
    BY <1>3, EventFacts
  <2>2. state["a"] = "READY"
    BY <1>3 DEF Accepting
  <2> QED
    BY <2>1, <2>2, ExpectedFacts
<1>4. ASSUME e.type \in {"SENT", "RECEIVED"} /\ Open /\ e \in UnderWay
      PROVE  Fine
  <2>1. e \in Event
    <3>1. \A u \in Thread : flight[u] \in Seq(Event)
      BY DEF Sane, TypeOK
    <3> QED
      BY <1>4, <3>1, UnderWayAt
  <2>2. e.to \in End /\ e = Ev(e.type, e.to)
    BY <2>1 DEF Event, Ev
  <2>3. state[e.to] = "ACTIVE"
    BY <1>4, <2>2 DEF Open
  <2>4. e.type = "RECEIVED" => sending[e.to]
    BY <1>4, <2>2 DEF Open, Flow
  <2> QED
    BY <1>4, <2>3, <2>4, ExpectedFacts
<1>5. ASSUME \E q \in End : e = Ev("DISCONNECT", Other(q)) /\ Closing(q, t)
      PROVE  Fine
  <2>1. e.type = "DISCONNECT"
    BY <1>5, EventFacts
  <2>2. state[e.to] \in {"ACTIVE", "STOPPING_PEER"}
    BY <1>5, EventFacts DEF Closing
  <2> QED
    BY <2>1, <2>2, ExpectedFacts
<1>6. ASSUME \E q \in End : e = Ev("DISCONNECT", q) /\ Answered(q, t)
      PROVE  Fine
  <2>1. e.type = "DISCONNECT"
    BY <1>6, EventFacts
  <2>2. state[e.to] \in {"ACTIVE", "STOPPING_PEER"}
    BY <1>6, EventFacts DEF Answered
  <2> QED
    BY <2>1, <2>2, ExpectedFacts
<1>7. ASSUME \E u \in Thread : e = Ev("DISCONNECT", "c") /\ BothClosing(t, u)
      PROVE  Fine
  <2>1. e.type = "DISCONNECT"
    BY <1>7, EventFacts
  <2>2. state[e.to] \in {"ACTIVE", "STOPPING_PEER"}
    BY <1>7, EventFacts DEF BothClosing, End
  <2> QED
    BY <2>1, <2>2, ExpectedFacts
<1>8. ASSUME \E u \in Thread : e = Ev("DISCONNECT", "a") /\ BothClosing(u, t)
      PROVE  Fine
  <2>1. e.type = "DISCONNECT"
    BY <1>8, EventFacts
  <2>2. state[e.to] \in {"ACTIVE", "STOPPING_PEER"}
    BY <1>8, EventFacts DEF BothClosing, End
  <2> QED
    BY <2>1, <2>2, ExpectedFacts
<1>9. Fine
  BY <1>1, <1>2, <1>3, <1>4, <1>5, <1>6, <1>7, <1>8, HeadPhase
<1> HIDE DEF Fine
<1>10. ~Unexpected(t)
  BY <1>9 DEF Unexpected, Fine
<1>11. ~OnLastReceived(t, s)
  BY <1>9, EventFacts DEF OnLastReceived, Handles, Fine
<1>12. ~Ignore(t)
  BY <1>9, EventFacts DEF Ignore, Handles, Fine
<1> QED
  BY <1>10, <1>11, <1>12

-----------------------------------------------------------------------------
(* The theorems.                                                            *)

\* A step without a race goes from phase to phase.
LEMMA PhaseKept ==
  ASSUME Sane, aborted = FALSE, Phase, Next, raced' = {}
  PROVE  aborted' = FALSE /\ Phase'
<1>1. PICK t \in Thread : Process(t) \/ Call(t)
  BY DEF Next
<1>2. CASE Connect(t)
  BY <1>2, ConnectPhase
<1>3. CASE \E s \in End : Send(t, s) \/ Recv(t, s) \/ Stop(t, s)
  BY <1>3, SendPhase, RecvPhase, StopPhase
<1>4. CASE Pop(t)
  BY <1>4, PopPhase
<1>5. CASE OnConnect(t) \/ OnReady(t) \/ OnAccepted(t)
  BY <1>5, OnConnectPhase, OnReadyPhase, OnAcceptedPhase
<1>6. CASE \E s \in End : OnSent(t, s) \/ OnReceived(t, s)
  BY <1>6, OnSentPhase, OnReceivedPhase
<1>7. CASE \E s \in End : OnDisconnect(t, s) \/ OnDisconnectAnswer(t, s)
  BY <1>7, OnDisconnectPhase, OnDisconnectAnswerPhase
<1>8. ~Ignore(t) /\ ~Unexpected(t) /\ \A s \in End : ~OnLastReceived(t, s)
  <2>1. "a" \in End
    BY DEF End
  <2> QED
    BY <2>1, NothingUnexpected
<1> QED
  BY <1>1, <1>2, <1>3, <1>4, <1>5, <1>6, <1>7, <1>8 DEF Process, Call

\* What has raced, has raced.
LEMMA RacedGrows ==
  ASSUME Sane, Next
  PROVE  raced \subseteq raced'
<1>1. PICK t \in Thread : Process(t) \/ Call(t)
  BY DEF Next
<1>2. CASE Call(t)
  BY <1>2 DEF Call, Connect, Send, Recv, Stop, Calls
<1>3. CASE Process(t)
  BY <1>3 DEF Process, Pop, Ignore, Unexpected, OnConnect, OnReady, OnAccepted, OnSent, OnReceived,
              OnLastReceived, OnDisconnect, OnDisconnectAnswer
<1> QED
  BY <1>1, <1>2, <1>3

\* The invariant holds at the start.
LEMMA InitIInv == Init => IInv
<1> SUFFICES ASSUME Init PROVE IInv
  OBVIOUS
<1>1. <<>> \in Seq(Event) /\ <<>> \in Seq(1..MaxMsg) /\ Len(<<>>) = 0
  OBVIOUS
<1>2. 0 \in 0..MaxMsg /\ 0 <= MaxQueue
  BY InprocAssumption
<1>3. kind \in [End -> {"binproc", "cinproc"}]
  BY DEF Init
<1>4. TypeOK
  BY <1>1, <1>2, <1>3 DEF Init, TypeOK
<1>5. PoppedSound
  BY DEF Init, PoppedSound
<1>6. Nothing
  BY DEF Init, Nothing
<1>7. UnderWay = {}
  BY <1>6 DEF Nothing, UnderWay, ToSet
<1>8. SentSound
  BY <1>7 DEF Init, SentSound
<1>9. Unconnected
  BY <1>6 DEF Init, Unconnected, End
<1> QED
  BY <1>4, <1>5, <1>8, <1>9 DEF Init, IInv, Phase

\* Every step keeps it.
LEMMA NextIInv == IInv /\ [Next]_vars => IInv'
<1> SUFFICES ASSUME IInv, [Next]_vars PROVE IInv'
  OBVIOUS
<1>1. Sane
  BY DEF IInv, Sane
<1>2. Sane'
  BY <1>1, SaneKept
<1>3. ASSUME raced' = {} PROVE aborted' = FALSE /\ Phase'
  <2>1. CASE Next
    <3>1. raced = {}
      BY <1>1, <1>3, <2>1, RacedGrows
    <3> QED
      BY <1>1, <1>3, <2>1, <3>1, PhaseKept DEF IInv
  <2>2. CASE UNCHANGED vars
    <3>1. aborted = FALSE /\ Phase
      BY <1>3, <2>2 DEF IInv, vars
    <3>2. UNCHANGED <<ep, state, peer, pipe, sending, receiving, queue, flight, aborted>>
      BY <2>2 DEF vars, flagvars, datavars
    <3>3. Phase'
      BY <3>1, <3>2, PhaseStutters
    <3> QED
      BY <3>1, <3>2, <3>3
  <2> QED
    BY <2>1, <2>2
<1> QED
  BY <1>2, <1>3 DEF IInv, Sane

\* The invariant always holds.
LEMMA Always == Spec => []IInv
BY InitIInv, NextIInv, PTL DEF Spec

\* While no two calls race, every event finds a state that expects it and the
\* event objects are raised one at a time (nn_sinproc_handler, nn_fsm_raiseto).
THEOREM EventsExpected == Spec => []AbortsOnlyByRace
<1>1. IInv => AbortsOnlyByRace
  BY DEF IInv, AbortsOnlyByRace, NeverAborts
<1> QED
  BY <1>1, Always, PTL

\* While no two calls race, nothing comes back to a session that is freed, and
\* its peer does not use it (nn_sinproc_shutdown).
THEOREM FreedIsAlone == Spec => []NothingDangles
<1>1. ASSUME IInv PROVE NothingDangles
  <2> SUFFICES ASSUME NEW s \in End, raced = {}, state[s] = "FREED"
               PROVE  /\ \A e \in UnderWay : Object(e)[1] # s /\ e.to # s
                      /\ state[Other(s)] \notin {"READY", "ACTIVE"}
    BY <1>1 DEF NothingDangles, IInv
  <2>1. Other(s) # s /\ Other(s) \in End /\ Other(Other(s)) = s
        /\ \A r \in End : r = s \/ r = Other(s)
    BY Ends
  <2>2. ASSUME NEW r \in End, NEW t \in Thread, Answered(r, t)
        PROVE  /\ \A e \in UnderWay : Object(e)[1] # s /\ e.to # s
               /\ state[Other(s)] \notin {"READY", "ACTIVE"}
    <3>1. r = Other(s) /\ state[r] = "STOPPING_PEER"
      BY <2>1, <2>2 DEF Answered
    <3>2. UnderWay = {Ev("DISCONNECT", r)}
      BY <2>2, OnlyUnderWay DEF Answered
    <3>3. Object(Ev("DISCONNECT", r)) = <<r, "DISCONNECT">>
      BY EventFacts DEF Object, Handshake
    <3> QED
      BY <2>1, <3>1, <3>2, <3>3, EventFacts
  <2>3. ASSUME NEW r \in End, Closed(r)
        PROVE  /\ \A e \in UnderWay : Object(e)[1] # s /\ e.to # s
               /\ state[Other(s)] \notin {"READY", "ACTIVE"}
    <3>1. UnderWay = {}
      BY <2>3 DEF Closed, Nothing, UnderWay, ToSet
    <3>2. state[Other(s)] \in {"FREED", "DISCONNECTED"}
      BY <2>1, <2>3 DEF Closed
    <3> QED
      BY <3>1, <3>2
  <2>4. state[s] \notin {"NONE", "CONNECTING", "READY", "ACTIVE", "STOPPING_PEER"}
    OBVIOUS
  <2>5. \/ \E r \in End, t \in Thread : Answered(r, t)
        \/ \E r \in End : Closed(r)
    <3>1. ~Unconnected /\ ~Open /\ \A t \in Thread : ~Connecting(t) /\ ~Accepting(t)
      <4>1. state["c"] = "FREED" \/ state["a"] = "FREED"
        BY DEF End
      <4>2. ~Unconnected /\ ~Open
        BY <2>4, <4>1 DEF Unconnected, Open
      <4>3. ASSUME NEW t \in Thread PROVE ~Connecting(t)
        BY <4>1 DEF Connecting
      <4>4. ASSUME NEW t \in Thread PROVE ~Accepting(t)
        BY <4>1 DEF Accepting
      <4> QED
        BY <4>2, <4>3, <4>4
    <3>2. ASSUME NEW r \in End, NEW t \in Thread PROVE ~Closing(r, t)
      BY <2>1, <2>4 DEF Closing
    <3>3. \A t, u \in Thread : ~BothClosing(t, u)
      BY <2>4 DEF BothClosing
    <3> QED
      BY <1>1, <3>1, <3>2, <3>3 DEF IInv, Phase
  <2> QED
    BY <2>2, <2>3, <2>5
<1> QED
  BY <1>1, Always, PTL

-----------------------------------------------------------------------------
(* The refinement: without races the two sessions implement the connection  *)
(* of Duplex.                                                               *)

\* A message for end s waits at its peer, or is on its way to be fetched.
Lingers(s) == receiving[s] \/ Ev("SENT", s) \in UnderWay

\* What the refinement says end s has still to receive.
Pending(s) == IF pipe[s] = "DOWN" THEN <<>>
              ELSE queue[s] \o IF Lingers(s) THEN <<nsent[Other(s)]>> ELSE <<>>

\* Nothing Duplex knows of changes.
LEMMA DuplexStutters ==
  ASSUME UNCHANGED <<pipe, nsent, taken>>, \A r \in End : Pending(r)' = Pending(r)
  PROVE  UNCHANGED D!duplexvars
<1> DEFINE chan == [r \in End |-> Pending(r)]
           chanNext == [r \in End |-> Pending(r)']
<1>1. chanNext = chan
  OBVIOUS
<1>2. /\ D!duplexvars = <<pipe, chan, nsent, taken>>
      /\ D!duplexvars' = <<pipe', chanNext, nsent', taken'>>
  BY DEF D!duplexvars, Pending, Lingers
<1> QED
  BY <1>1, <1>2

\* The pipe of an end comes up.
LEMMA DuplexUp ==
  ASSUME NEW s \in End, pipe[s] = "NONE", pipe' = [pipe EXCEPT ![s] = "UP"],
         UNCHANGED <<nsent, taken>>,
         \A r \in End : Pending(r)' = Pending(r)
  PROVE  D!DNext
<1> DEFINE chan == [r \in End |-> Pending(r)]
           chanNext == [r \in End |-> Pending(r)']
<1>1. chanNext = chan
  OBVIOUS
<1>2. chan[s] = Pending(s)
  OBVIOUS
<1>3. D!Up(s) <=>
         /\ pipe[s] = "NONE"
         /\ pipe' = [pipe EXCEPT ![s] = "UP"]
         /\ UNCHANGED <<nsent, taken>>
         /\ chanNext = chan
  BY DEF D!Up, Pending, Lingers
<1> HIDE DEF chan, chanNext
<1>4. D!Up(s)
  BY <1>1, <1>2, <1>3
<1> QED
  BY <1>4 DEF D!DNext

\* An end sends.
LEMMA DuplexTransfer ==
  ASSUME NEW s \in End, pipe[s] # "DOWN", pipe' = [pipe EXCEPT ![s] = "UP"],
         nsent' = [nsent EXCEPT ![s] = @ + 1], taken' = taken,
         \A r \in End : Pending(r)' = IF r = s \/ pipe[r] = "DOWN" THEN Pending(r) ELSE Append(Pending(r), nsent[s] + 1)
  PROVE  D!DNext
<1> DEFINE chan == [r \in End |-> Pending(r)]
           chanNext == [r \in End |-> Pending(r)']
<1>1. chanNext = [r \in End |-> IF r = s \/ pipe[r] = "DOWN" THEN chan[r] ELSE Append(chan[r], nsent[s] + 1)]
  OBVIOUS
<1>2. chan[s] = Pending(s)
  OBVIOUS
<1>3. D!Transfer(s) <=>
         /\ pipe[s] # "DOWN"
         /\ pipe' = [pipe EXCEPT ![s] = "UP"]
         /\ nsent' = [nsent EXCEPT ![s] = @ + 1]
         /\ taken' = taken
         /\ chanNext = [r \in End |-> IF r = s \/ pipe[r] = "DOWN" THEN chan[r] ELSE Append(chan[r], nsent[s] + 1)]
  BY DEF D!Transfer, Pending, Lingers
<1> HIDE DEF chan, chanNext
<1>4. D!Transfer(s)
  BY <1>1, <1>2, <1>3
<1> QED
  BY <1>4 DEF D!DNext

\* An end receives.
LEMMA DuplexTake ==
  ASSUME NEW s \in End, pipe[s] = "UP", Pending(s) # <<>>,
         taken' = [taken EXCEPT ![s] = Head(Pending(s))], UNCHANGED <<pipe, nsent>>,
         \A r \in End : Pending(r)' = IF r = s THEN Tail(Pending(r)) ELSE Pending(r)
  PROVE  D!DNext
<1> DEFINE chan == [r \in End |-> Pending(r)]
           chanNext == [r \in End |-> Pending(r)']
<1>1. chanNext = [chan EXCEPT ![s] = Tail(@)]
  OBVIOUS
<1>2. chan[s] = Pending(s)
  OBVIOUS
<1>3. D!Take(s) <=>
         /\ pipe[s] = "UP"
         /\ chan[s] # <<>>
         /\ taken' = [taken EXCEPT ![s] = Head(chan[s])]
         /\ UNCHANGED <<pipe, nsent>>
         /\ chanNext = [chan EXCEPT ![s] = Tail(@)]
  BY DEF D!Take, Pending, Lingers
<1> HIDE DEF chan, chanNext
<1>4. D!Take(s)
  BY <1>1, <1>2, <1>3
<1> QED
  BY <1>4 DEF D!DNext

\* The pipe of an end goes down.
LEMMA DuplexDown ==
  ASSUME NEW s \in End, pipe[s] # "DOWN", pipe' = [pipe EXCEPT ![s] = "DOWN"],
         UNCHANGED <<nsent, taken>>,
         \A r \in End : Pending(r)' = IF r = s THEN <<>> ELSE Pending(r)
  PROVE  D!DNext
<1> DEFINE chan == [r \in End |-> Pending(r)]
           chanNext == [r \in End |-> Pending(r)']
<1>1. chanNext = [chan EXCEPT ![s] = <<>>]
  OBVIOUS
<1>2. chan[s] = Pending(s)
  OBVIOUS
<1>3. D!Down(s) <=>
         /\ pipe[s] # "DOWN"
         /\ pipe' = [pipe EXCEPT ![s] = "DOWN"]
         /\ UNCHANGED <<nsent, taken>>
         /\ chanNext = [chan EXCEPT ![s] = <<>>]
  BY DEF D!Down, Pending, Lingers
<1> HIDE DEF chan, chanNext
<1>4. D!Down(s)
  BY <1>1, <1>2, <1>3
<1> QED
  BY <1>4 DEF D!DNext

\* Whether a message for each end is on its way does not change; or end s has
\* sent one.
SentSame == \A r \in End : Ev("SENT", r) \in UnderWay' <=> Ev("SENT", r) \in UnderWay
SentMore(s) == \A r \in End :
    Ev("SENT", r) \in UnderWay' <=> Ev("SENT", r) \in UnderWay \/ r = Other(s)

\* Nothing is lost but the event that was popped, and all that is raised is
\* under way.
LEMMA LeaveKeeps ==
  ASSUME Sane, NEW t \in Thread, NEW raised \in Seq(Event), Leave(t, raised)
  PROVE  /\ \A e \in UnderWay : (popped[t] => e # Head(flight[t])) => e \in UnderWay'
         /\ \A i \in 1..Len(raised) : raised[i] \in UnderWay'
<1> PICK rest : rest = IF popped[t] THEN Tail(flight[t]) ELSE flight[t]
  OBVIOUS
<1>1. /\ flight'[t] = raised \o rest
      /\ \A u \in Thread \ {t} : flight'[u] = flight[u]
  BY LeaveFlight DEF Sane
<1>2. flight[t] \in Seq(Event) /\ (popped[t] => flight[t] # <<>>)
  BY DEF Sane, TypeOK, PoppedSound
<1>3. rest \in Seq(Event)
  BY <1>2, TailFacts
<1>4. /\ Len(raised \o rest) = Len(raised) + Len(rest)
      /\ \A i \in 1..Len(raised \o rest) :
            (raised \o rest)[i] = IF i <= Len(raised) THEN raised[i] ELSE rest[i - Len(raised)]
      /\ Len(raised) \in Nat /\ Len(rest) \in Nat
      /\ DOMAIN (raised \o rest) = 1..(Len(raised) + Len(rest))
  BY <1>3, ConcatFacts
<1>5. ASSUME NEW i \in 1..Len(raised) PROVE raised[i] \in UnderWay'
  <2>1. i \in DOMAIN flight'[t] /\ flight'[t][i] = raised[i]
    BY <1>1, <1>4
  <2> QED
    BY <2>1, UnderWayAt
<1>6. ASSUME NEW j \in 1..Len(rest) PROVE rest[j] \in UnderWay'
  <2>1. /\ Len(raised) + j \in DOMAIN flight'[t]
        /\ flight'[t][Len(raised) + j] = rest[j]
    BY <1>1, <1>4
  <2> QED
    BY <2>1, UnderWayAt
<1>7. ASSUME NEW e \in UnderWay, popped[t] => e # Head(flight[t]) PROVE e \in UnderWay'
  <2>1. PICK u \in Thread : \E i \in DOMAIN flight[u] : e = flight[u][i]
    BY UnderWayAt
  <2>2. CASE u # t
    BY <1>1, <2>1, <2>2, UnderWayAt
  <2>3. CASE u = t
    <3>1. PICK i \in 1..Len(flight[t]) : e = flight[t][i]
      BY <1>2, <2>1, <2>3
    <3>2. CASE popped[t]
      <4>1. i # 1
        BY <1>2, <1>7, <3>1, <3>2, TailFacts
      <4>2. i - 1 \in 1..Len(rest) /\ rest[i - 1] = e
        BY <1>2, <3>1, <3>2, <4>1, TailFacts
      <4> QED
        BY <4>2, <1>6
    <3>3. CASE ~popped[t]
      BY <1>6, <3>1, <3>3
    <3> QED
      BY <3>2, <3>3
  <2> QED
    BY <2>2, <2>3
<1> QED
  BY <1>5, <1>7

\* No message was popped and none is sent.
LEMMA LeaveSame ==
  ASSUME Sane, NEW t \in Thread, NEW raised \in Seq(Event), Leave(t, raised),
         \A i \in 1..Len(raised) : raised[i].type # "SENT",
         popped[t] => Head(flight[t]).type # "SENT"
  PROVE  SentSame
<1> SUFFICES ASSUME NEW r \in End
             PROVE  Ev("SENT", r) \in UnderWay' <=> Ev("SENT", r) \in UnderWay
  BY DEF SentSame
<1>1. Ev("SENT", r) \in UnderWay' => Ev("SENT", r) \in UnderWay
  BY LeaveSane
<1>2. Ev("SENT", r) \in UnderWay => Ev("SENT", r) \in UnderWay'
  BY LeaveKeeps, EventFacts
<1> QED
  BY <1>1, <1>2

\* The same when nothing is raised, or one event.
LEMMA LeaveOneSame ==
  ASSUME Sane, NEW t \in Thread, popped[t] => Head(flight[t]).type # "SENT"
  PROVE  /\ Leave(t, <<>>) => SentSame
         /\ \A x \in Event : Leave(t, <<x>>) /\ x.type # "SENT" => SentSame
<1>1. <<>> \in Seq(Event) /\ \A i \in 1..Len(<<>>) : <<>>[i].type # "SENT"
  OBVIOUS
<1>2. ASSUME NEW x \in Event, x.type # "SENT"
      PROVE  <<x>> \in Seq(Event) /\ \A i \in 1..Len(<<x>>) : <<x>>[i].type # "SENT"
  BY <1>2
<1>3. Leave(t, <<>>) => SentSame
  BY <1>1, LeaveSame
<1> QED
  BY <1>2, <1>3, LeaveSame

\* No message was popped, and end s sends one.
LEMMA LeaveMore ==
  ASSUME Sane, NEW t \in Thread, NEW s \in End, NEW raised \in Seq(Event),
         Leave(t, Append(raised, Ev("SENT", Other(s)))),
         \A i \in 1..Len(raised) : raised[i].type # "SENT",
         popped[t] => Head(flight[t]).type # "SENT"
  PROVE  SentMore(s)
<1> PICK x : x = Ev("SENT", Other(s))
  OBVIOUS
<1> PICK all : all = Append(raised, x)
  OBVIOUS
<1>1. x \in Event
  BY Ends, RaisedType
<1>2. all \in Seq(Event) /\ Len(all) = Len(raised) + 1 /\ all[Len(raised) + 1] = x
      /\ \A i \in 1..Len(raised) : all[i] = raised[i]
  BY <1>1
<1>3. Leave(t, all)
  OBVIOUS
<1> SUFFICES ASSUME NEW r \in End
             PROVE  Ev("SENT", r) \in UnderWay' <=> Ev("SENT", r) \in UnderWay \/ r = Other(s)
  BY DEF SentMore
<1>4. Ev("SENT", r) \in UnderWay => Ev("SENT", r) \in UnderWay'
  <2>1. \A e \in UnderWay : (popped[t] => e # Head(flight[t])) => e \in UnderWay'
    BY <1>2, <1>3, LeaveKeeps
  <2>2. popped[t] => Ev("SENT", r) # Head(flight[t])
    BY EventFacts
  <2> QED
    BY <2>1, <2>2
<1>5. r = Other(s) => Ev("SENT", r) \in UnderWay'
  <2>1. Len(raised) + 1 \in 1..Len(all)
    BY <1>2
  <2> QED
    BY <1>2, <1>3, <2>1, LeaveKeeps
<1>6. ASSUME Ev("SENT", r) \in UnderWay', Ev("SENT", r) \notin UnderWay
      PROVE  r = Other(s)
  <2>1. PICK i \in 1..Len(all) : Ev("SENT", r) = all[i]
    BY <1>2, <1>3, <1>6, LeaveFlight DEF Sane
  <2>2. i = Len(raised) + 1
    BY <1>2, <2>1, EventFacts
  <2>3. Ev("SENT", r) = Ev("SENT", Other(s))
    BY <1>2, <2>1, <2>2
  <2> QED
    BY <2>3, EventFacts
<1> QED
  BY <1>4, <1>5, <1>6

\* One more element at the end.
LEMMA AppendFacts ==
  ASSUME NEW S, NEW q \in Seq(S), NEW x \in S
  PROVE  /\ q \o <<>> = q /\ q \o <<x>> = Append(q, x) /\ Append(q, x) \o <<>> = Append(q, x)
         /\ Append(q, x) # <<>>
         /\ q # <<>> => /\ Tail(Append(q, x)) = Append(Tail(q), x)
                        /\ Head(Append(q, x)) = Head(q)
<1>1. <<x>> \in Seq(S) /\ Append(q, x) \in Seq(S) /\ Len(Append(q, x)) = Len(q) + 1
  OBVIOUS
<1>2. q \o <<>> = q /\ Append(q, x) \o <<>> = Append(q, x)
  OBVIOUS
<1>3. q \o <<x>> = Append(q, x)
  OBVIOUS
<1>4. Append(q, x) # <<>>
  <2>1. Len(q) \in Nat /\ Len(<<>>) = 0
    OBVIOUS
  <2> QED
    BY <1>1, <2>1
<1>5. ASSUME q # <<>>
      PROVE  Tail(Append(q, x)) = Append(Tail(q), x) /\ Head(Append(q, x)) = Head(q)
  <2>1. Tail(q) \in Seq(S) /\ Tail(Append(q, x)) \in Seq(S) /\ Append(Tail(q), x) \in Seq(S)
    BY <1>1, <1>4, <1>5
  <2>2. Len(Tail(Append(q, x))) = Len(q) /\ Len(Append(Tail(q), x)) = Len(q)
    <3>1. Len(Tail(q)) = Len(q) - 1 /\ Tail(q) \in Seq(S)
      BY <1>5, TailFacts
    <3>2. Len(Tail(Append(q, x))) = Len(Append(q, x)) - 1
      BY <1>1, <1>4, TailFacts
    <3>3. Len(Append(Tail(q), x)) = Len(Tail(q)) + 1
      BY <3>1
    <3>4. Len(q) \in Nat
      OBVIOUS
    <3> QED
      BY <1>1, <3>1, <3>2, <3>3, <3>4
  <2>3. ASSUME NEW i \in 1..Len(q) PROVE Tail(Append(q, x))[i] = Append(Tail(q), x)[i]
    <3>1. Tail(q) \in Seq(S) /\ Len(Tail(q)) = Len(q) - 1 /\ Len(q) \in Nat
      BY <1>5, TailFacts
    <3>2. Tail(Append(q, x))[i] = Append(q, x)[i + 1]
      BY <1>1, <1>4, <2>2, TailFacts
    <3>3. CASE i = Len(q)
      <4>1. Append(q, x)[Len(q) + 1] = x
        OBVIOUS
      <4>2. Append(q, x)[i + 1] = x
        BY <3>3, <4>1, Zenon
      <4>3. Append(Tail(q), x)[Len(Tail(q)) + 1] = x
        BY <3>1
      <4>4. Len(Tail(q)) + 1 = i
        BY <3>1, <3>3
      <4>5. Append(Tail(q), x)[i] = x
        BY <4>3, <4>4, Zenon
      <4> QED
        BY <3>2, <4>2, <4>5, Zenon
    <3>4. CASE i # Len(q)
      <4>1. i \in 1..Len(Tail(q)) /\ i + 1 \in 1..Len(q)
        <5> PICK m : m = Len(q)
          OBVIOUS
        <5>1. m \in Nat /\ i \in 1..m /\ i # m
          BY <3>1, <3>4
        <5>2. i \in 1..m - 1 /\ i + 1 \in 1..m
          BY <5>1
        <5> QED
          BY <3>1, <5>2, Zenon
      <4>2. Tail(q)[i] = q[i + 1]
        BY <1>5, <4>1, TailFacts
      <4>3. Append(q, x)[i + 1] = q[i + 1] /\ Append(Tail(q), x)[i] = Tail(q)[i]
        BY <3>1, <4>1
      <4> QED
        BY <3>2, <4>2, <4>3
    <3> QED
      BY <3>3, <3>4
  <2>4. Tail(Append(q, x)) = Append(Tail(q), x)
    BY <2>1, <2>2, <2>3, SeqEqual
  <2>5. Head(Append(q, x)) = Head(q)
    BY <1>1, <1>4, <1>5
  <2> QED
    BY <2>4, <2>5
<1> QED
  BY <1>2, <1>3, <1>4, <1>5

\* The queues and the messages that linger.
LEMMA PendingType ==
  ASSUME Sane, NEW s \in End
  PROVE  /\ queue[s] \in Seq(Nat) /\ nsent[s] \in Nat /\ nsent[Other(s)] \in Nat
         /\ pipe[s] \in {"NONE", "UP", "DOWN"} /\ pipe \in [End -> {"NONE", "UP", "DOWN"}]
         /\ queue \in [End -> Seq(1..MaxMsg)] /\ nsent \in [End -> 0..MaxMsg] /\ MaxMsg \in Nat
<1>1. /\ queue \in [End -> Seq(1..MaxMsg)] /\ nsent \in [End -> 0..MaxMsg] /\ MaxMsg \in Nat
      /\ pipe \in [End -> {"NONE", "UP", "DOWN"}]
  BY InprocAssumption DEF Sane, TypeOK
<1>2. queue[s] \in Seq(Nat)
  <2>1. queue[s] \in Seq(1..MaxMsg) /\ 1..MaxMsg \subseteq Nat
    BY <1>1
  <2> QED
    BY <2>1, SeqMonotonic
<1>3. nsent[s] \in Nat /\ nsent[Other(s)] \in Nat
  BY <1>1, Ends
<1> QED
  BY <1>1, <1>2, <1>3

\* What an end has still to receive is told by these.
LEMMA PendingSame ==
  ASSUME NEW r \in End, pipe'[r] = "DOWN" <=> pipe[r] = "DOWN", queue'[r] = queue[r],
         Lingers(r)' <=> Lingers(r), nsent'[Other(r)] = nsent[Other(r)]
  PROVE  Pending(r)' = Pending(r)
<1>1. CASE pipe[r] = "DOWN"
  BY <1>1 DEF Pending
<1>2. CASE pipe[r] # "DOWN" /\ Lingers(r)
  BY <1>2 DEF Pending
<1>3. CASE pipe[r] # "DOWN" /\ ~Lingers(r)
  BY <1>3 DEF Pending
<1> QED
  BY <1>1, <1>2, <1>3

\* A message that lingers does so after the step.
LEMMA LingersSame ==
  ASSUME NEW r \in End, receiving' = receiving,
         Ev("SENT", r) \in UnderWay' <=> Ev("SENT", r) \in UnderWay
  PROVE  Lingers(r)' <=> Lingers(r)
BY DEF Lingers

\* Nothing happens to the messages.
LEMMA StutterStep ==
  ASSUME SentSame, UNCHANGED <<pipe, nsent, taken, queue, receiving>>
  PROVE  UNCHANGED D!duplexvars
<1>1. ASSUME NEW r \in End PROVE Pending(r)' = Pending(r)
  <2>1. Lingers(r)' <=> Lingers(r)
    BY LingersSame DEF SentSame
  <2> QED
    BY <2>1, PendingSame
<1> QED
  BY <1>1, DuplexStutters

\* The pipe comes up.
LEMMA UpStep ==
  ASSUME Sane, NEW s \in End, SentSame, UNCHANGED <<nsent, taken, queue, receiving>>,
         pipe[s] # "DOWN", pipe' = [pipe EXCEPT ![s] = "UP"]
  PROVE  D!DNext \/ UNCHANGED D!duplexvars
<1>1. pipe[s] \in {"NONE", "UP"} /\ pipe \in [End -> {"NONE", "UP", "DOWN"}]
  BY PendingType
<1>2. CASE pipe[s] = "UP"
  <2>1. pipe' = pipe
    BY <1>1, <1>2
  <2> QED
    BY <2>1, StutterStep
<1>3. CASE pipe[s] = "NONE"
  <2>1. ASSUME NEW r \in End PROVE Pending(r)' = Pending(r)
    <3>1. Lingers(r)' <=> Lingers(r)
      BY LingersSame DEF SentSame
    <3>2. pipe'[r] = "DOWN" <=> pipe[r] = "DOWN"
      BY <1>1, <1>3
    <3> QED
      BY <3>1, <3>2, PendingSame
  <2> QED
    BY <1>3, <2>1, DuplexUp
<1> QED
  BY <1>1, <1>2, <1>3

\* The pipe goes down.
LEMMA DownStep ==
  ASSUME Sane, NEW s \in End, SentSame, UNCHANGED <<nsent, taken, queue, receiving>>,
         pipe' = [pipe EXCEPT ![s] = "DOWN"]
  PROVE  D!DNext \/ UNCHANGED D!duplexvars
<1>1. pipe \in [End -> {"NONE", "UP", "DOWN"}]
  BY PendingType
<1>2. CASE pipe[s] = "DOWN"
  <2>1. pipe' = pipe
    BY <1>1, <1>2
  <2> QED
    BY <2>1, StutterStep
<1>3. CASE pipe[s] # "DOWN"
  <2>1. ASSUME NEW r \in End PROVE Pending(r)' = IF r = s THEN <<>> ELSE Pending(r)
    <3>1. CASE r = s
      <4>1. pipe'[r] = "DOWN"
        BY <1>1, <3>1
      <4> QED
        BY <3>1, <4>1 DEF Pending
    <3>2. CASE r # s
      <4>1. Lingers(r)' <=> Lingers(r)
        BY LingersSame DEF SentSame
      <4>2. pipe'[r] = pipe[r]
        BY <1>1, <3>2
      <4>3. Pending(r)' = Pending(r)
        BY <4>1, <4>2, PendingSame
      <4> QED
        BY <3>2, <4>3
    <3> QED
      BY <3>1, <3>2
  <2> QED
    BY <1>3, <2>1, DuplexDown
<1> QED
  BY <1>2, <1>3

\* A message is sent; none lingers at its sender.
LEMMA TransferStep ==
  ASSUME Sane, NEW s \in End, SentMore(s), UNCHANGED <<taken, queue, receiving>>,
         nsent' = [nsent EXCEPT ![s] = @ + 1],
         pipe[s] # "DOWN", pipe' = [pipe EXCEPT ![s] = "UP"], ~Lingers(Other(s))
  PROVE  D!DNext
<1>1. /\ pipe \in [End -> {"NONE", "UP", "DOWN"}] /\ nsent \in [End -> 0..MaxMsg]
      /\ MaxMsg \in Nat /\ pipe[s] \in {"NONE", "UP"}
  BY PendingType
<1>2. ASSUME NEW r \in End
      PROVE  Pending(r)' = IF r = s \/ pipe[r] = "DOWN" THEN Pending(r)
                           ELSE Append(Pending(r), nsent[s] + 1)
  <2>1. CASE r = s
    <3>1. Other(r) # r /\ Other(r) \in End
      BY Ends
    <3>2. Lingers(r)' <=> Lingers(r)
      BY <2>1, <3>1, LingersSame DEF SentMore
    <3>3. pipe'[r] = "DOWN" <=> pipe[r] = "DOWN"
      BY <1>1, <2>1
    <3>4. nsent'[Other(r)] = nsent[Other(r)]
      BY <1>1, <2>1, <3>1
    <3>5. Pending(r)' = Pending(r)
      BY <3>2, <3>3, <3>4, PendingSame
    <3> QED
      BY <2>1, <3>5
  <2>2. CASE r # s
    <3>1. r = Other(s) /\ Other(r) = s
      BY <2>2, Ends
    <3>2. pipe'[r] = pipe[r]
      BY <1>1, <2>2
    <3>3. CASE pipe[r] = "DOWN"
      BY <3>2, <3>3 DEF Pending
    <3>4. CASE pipe[r] # "DOWN"
      <4>1. Lingers(r)' /\ ~Lingers(r)
        BY <3>1 DEF Lingers, SentMore
      <4>2. nsent'[Other(r)] = nsent[s] + 1
        BY <1>1, <3>1
      <4>3. Pending(r) = queue[r] \o <<>>
        BY <3>4, <4>1 DEF Pending
      <4>4. Pending(r)' = queue[r] \o <<nsent[s] + 1>>
        BY <3>2, <3>4, <4>1, <4>2 DEF Pending
      <4>5. queue[r] \in Seq(Nat) /\ nsent[s] + 1 \in Nat
        BY PendingType
      <4> QED
        BY <2>2, <3>4, <4>3, <4>4, <4>5, AppendFacts
    <3> QED
      BY <3>3, <3>4
  <2> QED
    BY <2>1, <2>2
<1> QED
  BY <1>1, <1>2, DuplexTransfer

-----------------------------------------------------------------------------
(* Step by step.                                                            *)

\* A pipe has become writable, or has come up: a message may be sent at once.
LEMMA WritableStep ==
  ASSUME Sane, NEW t \in Thread, NEW s \in End, NEW raised \in Seq(Event),
         Writable(t, s, raised), \A i \in 1..Len(raised) : raised[i].type # "SENT",
         popped[t] => Head(flight[t]).type # "SENT",
         UNCHANGED <<taken, queue, receiving>>,
         pipe[s] # "DOWN", pipe' = [pipe EXCEPT ![s] = "UP"], ~Lingers(Other(s))
  PROVE  D!DNext \/ UNCHANGED D!duplexvars
<1>1. CASE Leave(t, raised) /\ UNCHANGED nsent
  BY <1>1, LeaveSame, UpStep
<1>2. CASE SendOn(s) /\ Leave(t, Append(raised, Ev("SENT", Other(s))))
  <2>1. SentMore(s)
    BY <1>2, LeaveMore
  <2>2. nsent' = [nsent EXCEPT ![s] = @ + 1]
    BY <1>2 DEF SendOn
  <2> QED
    BY <2>1, <2>2, TransferStep
<1> QED
  BY <1>1, <1>2 DEF Writable

\* The handshake starts, and an event is popped: nothing happens to the pipes.
LEMMA QuietSteps ==
  ASSUME Sane, NEW t \in Thread
  PROVE  /\ Connect(t) => UNCHANGED D!duplexvars
         /\ Pop(t) => UNCHANGED D!duplexvars
         /\ OnConnect(t) => UNCHANGED D!duplexvars
<1>1. ASSUME Connect(t) PROVE UNCHANGED D!duplexvars
  <2>1. ~popped[t]
    BY <1>1 DEF Connect, Idle, Sane, PoppedSound
  <2>2. Ev("CONNECT", "a") \in Event /\ Ev("CONNECT", "a").type # "SENT"
    BY RaisedType, EventFacts DEF Handshake, End
  <2>3. Leave(t, <<Ev("CONNECT", "a")>>)
    BY <1>1 DEF Connect
  <2>4. SentSame
    BY <2>1, <2>2, <2>3, LeaveOneSame
  <2> QED
    BY <1>1, <2>4, StutterStep DEF Connect, flagvars, datavars
<1>2. ASSUME Pop(t) PROVE UNCHANGED D!duplexvars
  <2>1. SentSame
    BY <1>2 DEF Pop, SentSame, UnderWay
  <2> QED
    BY <1>2, <2>1, StutterStep DEF Pop, flagvars, datavars
<1>3. ASSUME OnConnect(t) PROVE UNCHANGED D!duplexvars
  <2>1. Head(flight[t]).type # "SENT"
    BY <1>3, EventFacts DEF OnConnect, Handles
  <2>2. Ev("READY", "c") \in Event /\ Ev("READY", "c").type # "SENT"
    BY RaisedType, EventFacts DEF Handshake, End
  <2>3. Leave(t, <<Ev("READY", "c")>>)
    BY <1>3 DEF OnConnect
  <2>4. SentSame
    BY <2>1, <2>2, <2>3, LeaveOneSame
  <2> QED
    BY <1>3, <2>4, StutterStep DEF OnConnect, datavars
<1> QED
  BY <1>1, <1>2, <1>3

\* The pipe of the connecting end comes up.
LEMMA OnReadyStep ==
  ASSUME Sane, Phase, NEW t \in Thread, OnReady(t), raced' = {}
  PROVE  D!DNext \/ UNCHANGED D!duplexvars
<1>0. raced' # raced \cup {"connect refused"}
  OBVIOUS
<1>1. popped[t] /\ Head(flight[t]) = Ev("READY", "c") /\ Writable(t, "c", <<Ev("ACCEPTED", "a")>>)
  BY <1>0 DEF OnReady, Handles
<1>2. Connecting(t) /\ Only(t, <<Ev("READY", "c")>>)
  BY <1>1, HeadPhase, EventFacts
<1>3. /\ Ev("ACCEPTED", "a") \in Event /\ Ev("ACCEPTED", "a").type # "SENT"
      /\ "c" \in End /\ "a" \in End /\ Other("c") = "a"
  BY RaisedType, EventFacts DEF End, Handshake, Other
<1>4. <<Ev("ACCEPTED", "a")>> \in Seq(Event)
      /\ \A i \in 1..Len(<<Ev("ACCEPTED", "a")>>) : <<Ev("ACCEPTED", "a")>>[i].type # "SENT"
  BY <1>3
<1>5. Head(flight[t]).type # "SENT"
  BY <1>1, EventFacts
<1>6. ~Lingers("a")
  <2>1. UnderWay = {Ev("READY", "c")}
    BY <1>2, OnlyUnderWay
  <2>2. Ev("SENT", "a") \notin UnderWay
    BY <2>1, EventFacts
  <2> QED
    BY <1>2, <1>3, <2>2 DEF Lingers, Connecting
<1>7. pipe["c"] = "NONE"
  BY <1>2, <1>3 DEF Connecting
<1>8. pipe' = [pipe EXCEPT !["c"] = "UP"] /\ UNCHANGED <<taken, queue, receiving>>
  BY <1>0 DEF OnReady
<1> QED
  BY <1>1, <1>3, <1>4, <1>5, <1>6, <1>7, <1>8, WritableStep

\* The pipe of the accepting end comes up.
LEMMA OnAcceptedStep ==
  ASSUME Sane, Phase, NEW t \in Thread, OnAccepted(t), raced' = {}
  PROVE  D!DNext \/ UNCHANGED D!duplexvars
<1>1. popped[t] /\ Head(flight[t]) = Ev("ACCEPTED", "a")
  BY DEF OnAccepted, Handles
<1>2. Accepting(t)
  <2>1. PICK e : e = Ev("ACCEPTED", "a")
    OBVIOUS
  <2>2. e.type = "ACCEPTED" /\ Head(flight[t]) = e
    BY <1>1, <2>1, EventFacts
  <2>3. /\ e # Ev("CONNECT", "a") /\ e # Ev("READY", "c")
        /\ \A s : e # Ev("DISCONNECT", s)
    BY <2>2, EventFacts
  <2> QED
    BY <1>1, <2>2, <2>3, HeadPhase
<1>3. Writable(t, "a", <<>>) /\ pipe' = [pipe EXCEPT !["a"] = "UP"]
      /\ UNCHANGED <<taken, queue, receiving>>
  BY DEF OnAccepted
<1>4. "a" \in End /\ "c" \in End /\ Other("a") = "c"
  BY DEF End, Other
<1>5. <<>> \in Seq(Event) /\ \A i \in 1..Len(<<>>) : <<>>[i].type # "SENT"
  OBVIOUS
<1>6. Head(flight[t]).type # "SENT"
  BY <1>1, EventFacts
<1>7. ~Lingers("c")
  <2>1. CASE sending["c"]
    <3>1. UnderWay = {Ev("ACCEPTED", "a"), Ev("SENT", "a")}
      BY <1>2, <2>1, OnlyUnderWay DEF Accepting
    <3>2. Ev("SENT", "c") \notin UnderWay
      BY <3>1, EventFacts
    <3> QED
      BY <1>2, <1>4, <3>2 DEF Lingers, Accepting
  <2>2. CASE ~sending["c"]
    <3>1. UnderWay = {Ev("ACCEPTED", "a")}
      BY <1>2, <2>2, OnlyUnderWay DEF Accepting
    <3>2. Ev("SENT", "c") \notin UnderWay
      BY <3>1, EventFacts
    <3> QED
      BY <1>2, <1>4, <3>2 DEF Lingers, Accepting
  <2> QED
    BY <2>1, <2>2
<1>8. pipe["a"] = "NONE"
  BY <1>2 DEF Accepting
<1> QED
  BY <1>3, <1>4, <1>5, <1>6, <1>7, <1>8, WritableStep

\* While the connection is open, what an end asks for or what waits for it
\* keeps its peer from sending.
LEMMA OpenLingers ==
  ASSUME Open, NEW s \in End
  PROVE  /\ ~sending[s] => ~Lingers(Other(s))
         /\ Ev("RECEIVED", s) \in UnderWay => ~Lingers(Other(s))
         /\ Ev("SENT", s) \in UnderWay => ~receiving[s] /\ Ev("RECEIVED", Other(s)) \notin UnderWay
         /\ pipe[s] = "UP"
<1>1. Flow(s) /\ Flow(Other(s)) /\ Other(Other(s)) = s /\ pipe[s] = "UP"
  BY Ends DEF Open
<1> QED
  BY <1>1 DEF Flow, Lingers

\* A message is sent.
LEMMA SendStep ==
  ASSUME Sane, Phase, NEW t \in Thread, NEW s \in End, Send(t, s), raced' = {}
  PROVE  D!DNext \/ UNCHANGED D!duplexvars
<1>1. Open
  BY CallsOpen DEF Send
<1>2. ~Lingers(Other(s)) /\ pipe[s] = "UP"
  BY <1>1, OpenLingers DEF Send
<1>3. ~popped[t]
  BY DEF Send, Calls, Idle, Sane, PoppedSound
<1>4. Leave(t, Append(<<>>, Ev("SENT", Other(s))))
  BY DEF Send
<1>5. <<>> \in Seq(Event) /\ \A i \in 1..Len(<<>>) : <<>>[i].type # "SENT"
  OBVIOUS
<1>6. SentMore(s)
  BY <1>3, <1>4, <1>5, LeaveMore
<1>7. pipe' = [pipe EXCEPT ![s] = "UP"]
  <2>1. pipe' = pipe /\ pipe \in [End -> {"NONE", "UP", "DOWN"}]
    BY PendingType DEF Send
  <2> QED
    BY <1>2, <2>1
<1>8. nsent' = [nsent EXCEPT ![s] = @ + 1] /\ UNCHANGED <<taken, queue, receiving>>
  BY DEF Send, SendOn
<1> QED
  BY <1>2, <1>6, <1>7, <1>8, TransferStep

\* A message is acknowledged, and the next one may be sent.
LEMMA OnReceivedStep ==
  ASSUME Sane, Phase, NEW t \in Thread, NEW s \in End, OnReceived(t, s)
  PROVE  D!DNext \/ UNCHANGED D!duplexvars
<1> PICK e : e = Ev("RECEIVED", s)
  OBVIOUS
<1>1. popped[t] /\ Head(flight[t]) = e /\ e.type = "RECEIVED"
  BY EventFacts DEF OnReceived, Handles
<1>2. Open /\ e \in UnderWay
  <2>1. /\ \A r : e # Ev("CONNECT", r) /\ e # Ev("READY", r) /\ e # Ev("ACCEPTED", r)
                  /\ e # Ev("DISCONNECT", r)
    BY <1>1, EventFacts
  <2> QED
    BY <1>1, <2>1, HeadPhase
<1>3. ~Lingers(Other(s)) /\ pipe[s] = "UP"
  BY <1>2, OpenLingers
<1>4. <<>> \in Seq(Event) /\ \A i \in 1..Len(<<>>) : <<>>[i].type # "SENT"
  OBVIOUS
<1>5. pipe' = [pipe EXCEPT ![s] = "UP"]
  <2>1. pipe' = pipe /\ pipe \in [End -> {"NONE", "UP", "DOWN"}]
    BY PendingType DEF OnReceived
  <2> QED
    BY <1>3, <2>1
<1>6. Writable(t, s, <<>>) /\ UNCHANGED <<taken, queue, receiving>>
  BY DEF OnReceived
<1> QED
  BY <1>1, <1>3, <1>4, <1>5, <1>6, WritableStep

\* A message on its way is fetched, or waits: its receiver has still to
\* receive the same.
LEMMA OnSentStep ==
  ASSUME Sane, Phase, NEW t \in Thread, NEW s \in End, OnSent(t, s)
  PROVE  UNCHANGED D!duplexvars
<1> PICK e : e = Ev("SENT", s)
  OBVIOUS
<1> PICK x : x = Ev("RECEIVED", Other(s))
  OBVIOUS
<1>1. popped[t] /\ Head(flight[t]) = e /\ e.type = "SENT"
  BY EventFacts DEF OnSent, Handles
<1>2. Open /\ e \in UnderWay
  <2>1. /\ \A r : e # Ev("CONNECT", r) /\ e # Ev("READY", r) /\ e # Ev("ACCEPTED", r)
                  /\ e # Ev("DISCONNECT", r)
    BY <1>1, EventFacts
  <2> QED
    BY <1>1, <2>1, HeadPhase
<1>3. x \in Event /\ x.type = "RECEIVED" /\ <<x>> \in Seq(Event) /\ <<>> \in Seq(Event)
  BY Ends, RaisedType, EventFacts
<1>4. ~receiving[s] /\ x \notin UnderWay /\ pipe[s] = "UP"
  BY <1>2, OpenLingers
<1>5. UNCHANGED <<pipe, nsent, taken>>
  BY DEF OnSent
<1>6. /\ queue[s] \in Seq(Nat) /\ nsent[Other(s)] \in Nat
      /\ queue \in [End -> Seq(1..MaxMsg)] /\ receiving \in [End -> BOOLEAN]
  BY PendingType DEF Sane, TypeOK
<1>7. Pending(s) = queue[s] \o <<nsent[Other(s)]>>
  BY <1>2, <1>4 DEF Pending, Lingers
<1>8. PICK raised \in {<<>>, <<x>>} :
         /\ Leave(t, raised)
         /\ \/ /\ raised = <<x>> /\ queue' = [queue EXCEPT ![s] = Append(@, nsent[Other(s)])]
               /\ UNCHANGED receiving
            \/ raised = <<>> /\ receiving' = [receiving EXCEPT ![s] = TRUE] /\ UNCHANGED queue
  BY DEF OnSent
<1>9. raised \in Seq(Event) /\ \A i \in 1..Len(raised) : raised[i].type # "SENT"
  <2>1. CASE raised = <<>>
    BY <1>3, <2>1
  <2>2. CASE raised = <<x>>
    BY <1>3, <2>2
  <2> QED
    BY <1>8, <2>1, <2>2
<1>10. Ev("SENT", s) \notin UnderWay'
  BY <1>1, <1>2, <1>3, <1>4, <1>8, OpenUnderWay
<1>11. ASSUME NEW r \in End, r # s PROVE Pending(r)' = Pending(r)
  <2>1. Ev("SENT", r) # Head(flight[t])
    BY <1>1, <1>11, EventFacts
  <2>2. Ev("SENT", r) \in UnderWay => Ev("SENT", r) \in UnderWay'
    BY <1>8, <1>9, <2>1, LeaveKeeps
  <2>3. Ev("SENT", r) \in UnderWay' => Ev("SENT", r) \in UnderWay
    BY <1>8, <1>9, LeaveSane
  <2>4. receiving'[r] = receiving[r] /\ queue'[r] = queue[r]
    BY <1>6, <1>8, <1>11
  <2>5. Lingers(r)' <=> Lingers(r)
    BY <2>2, <2>3, <2>4 DEF Lingers
  <2> QED
    BY <1>5, <2>4, <2>5, PendingSame
<1>12. Pending(s)' = Pending(s)
  <2>1. CASE raised = <<x>>
    <3>1. queue'[s] = Append(queue[s], nsent[Other(s)]) /\ ~receiving'[s]
      BY <1>3, <1>4, <1>6, <1>8, <2>1
    <3>2. Pending(s)' = queue'[s] \o <<>>
      BY <1>4, <1>5, <1>10, <3>1 DEF Pending, Lingers
    <3> QED
      BY <1>6, <1>7, <3>1, <3>2, AppendFacts
  <2>2. CASE raised # <<x>>
    <3>1. queue'[s] = queue[s] /\ receiving'[s]
      BY <1>6, <1>8, <2>2
    <3>2. Pending(s)' = queue[s] \o <<nsent[Other(s)]>>
      BY <1>4, <1>5, <3>1 DEF Pending, Lingers
    <3> QED
      BY <1>7, <3>2
  <2> QED
    BY <2>1, <2>2
<1> QED
  BY <1>5, <1>11, <1>12, DuplexStutters

\* A message is received; the one that lingers with the peer is pulled in.
LEMMA RecvStep ==
  ASSUME Sane, Phase, NEW t \in Thread, NEW s \in End, Recv(t, s), raced' = {}
  PROVE  D!DNext
<1> PICK x : x = Ev("RECEIVED", Other(s))
  OBVIOUS
<1> PICK n : n = nsent[Other(s)]
  OBVIOUS
<1> PICK q : q = queue[s]
  OBVIOUS
<1>1. Open
  BY CallsOpen DEF Recv
<1>2. x \in Event /\ x.type = "RECEIVED"
  BY Ends, RaisedType, EventFacts
<1>3. UNCHANGED <<pipe, nsent>> /\ pipe[s] = "UP" /\ q # <<>> /\ ~popped[t]
      /\ taken' = [taken EXCEPT ![s] = Head(q)]
  BY DEF Recv, Calls, Idle, Sane, PoppedSound
<1>4. /\ q \in Seq(Nat) /\ n \in Nat
      /\ queue \in [End -> Seq(1..MaxMsg)] /\ receiving \in [End -> BOOLEAN]
  BY PendingType DEF Sane, TypeOK
<1>5. Tail(q) \in Seq(Nat)
  BY <1>3, <1>4, TailFacts
<1> DEFINE Fetches == /\ receiving[s] /\ queue' = [queue EXCEPT ![s] = Append(Tail(@), nsent[Other(s)])]
                     /\ receiving' = [receiving EXCEPT ![s] = FALSE] /\ Leave(t, <<x>>)
           Stays == /\ queue' = [queue EXCEPT ![s] = Tail(@)]
                    /\ UNCHANGED <<receiving, flight, popped>>
<1>51. Fetches \/ Stays
  BY DEF Recv
<1>6. SentSame
  <2>1. CASE Fetches
    BY <1>2, <1>3, <2>1, LeaveOneSame
  <2>2. CASE Stays
    BY <2>2 DEF SentSame, UnderWay
  <2> QED
    BY <1>51, <2>1, <2>2
<1>7. ASSUME NEW r \in End, r # s PROVE Pending(r)' = Pending(r)
  <2>1. receiving'[r] = receiving[r] /\ queue'[r] = queue[r]
    BY <1>4, <1>7, <1>51
  <2>2. Lingers(r)' <=> Lingers(r)
    BY <1>6, <2>1 DEF Lingers, SentSame
  <2> QED
    BY <1>3, <2>1, <2>2, PendingSame
<1>8. Pending(s) # <<>> /\ Head(Pending(s)) = Head(q) /\ Pending(s)' = Tail(Pending(s))
  <2>1. CASE Fetches
    <3>1. queue'[s] = Append(Tail(q), n) /\ receiving'[s] = FALSE
      BY <1>4, <2>1
    <3>2. Ev("SENT", s) \notin UnderWay'
      BY <1>1, <1>6, <2>1, OpenLingers DEF SentSame
    <3>3. Pending(s) = q \o <<n>>
      BY <1>3, <2>1 DEF Pending, Lingers
    <3>4. Pending(s)' = queue'[s] \o <<>>
      BY <1>3, <3>1, <3>2 DEF Pending, Lingers
    <3>5. q \o <<n>> = Append(q, n) /\ Append(q, n) # <<>>
          /\ Head(Append(q, n)) = Head(q) /\ Tail(Append(q, n)) = Append(Tail(q), n)
      BY <1>3, <1>4, AppendFacts
    <3>6. Append(Tail(q), n) \o <<>> = Append(Tail(q), n)
      BY <1>4, <1>5, AppendFacts
    <3> QED
      BY <3>1, <3>3, <3>4, <3>5, <3>6
  <2>2. CASE Stays
    <3>1. queue'[s] = Tail(q) /\ receiving' = receiving
      BY <1>4, <2>2
    <3>2. Lingers(s)' <=> Lingers(s)
      BY <1>6, <3>1, LingersSame DEF SentSame
    <3>3. CASE Lingers(s)
      <4>1. Pending(s) = q \o <<n>>
        BY <1>3, <3>3 DEF Pending
      <4>2. Pending(s)' = Tail(q) \o <<n>>
        BY <1>3, <3>1, <3>2, <3>3 DEF Pending
      <4>3. q \o <<n>> = Append(q, n) /\ Append(q, n) # <<>>
            /\ Head(Append(q, n)) = Head(q) /\ Tail(Append(q, n)) = Append(Tail(q), n)
        BY <1>3, <1>4, AppendFacts
      <4>4. Tail(q) \o <<n>> = Append(Tail(q), n)
        BY <1>4, <1>5, AppendFacts
      <4> QED
        BY <4>1, <4>2, <4>3, <4>4
    <3>4. CASE ~Lingers(s)
      <4>1. Pending(s) = q \o <<>>
        BY <1>3, <3>4 DEF Pending
      <4>2. Pending(s)' = Tail(q) \o <<>>
        BY <1>3, <3>1, <3>2, <3>4 DEF Pending
      <4>3. q \o <<>> = q /\ Tail(q) \o <<>> = Tail(q)
        BY <1>4, <1>5, AppendFacts
      <4> QED
        BY <1>3, <4>1, <4>2, <4>3
    <3> QED
      BY <3>3, <3>4
  <2> QED
    BY <1>51, <2>1, <2>2
<1>9. \A r \in End : Pending(r)' = IF r = s THEN Tail(Pending(r)) ELSE Pending(r)
  BY <1>7, <1>8
<1>10. taken' = [taken EXCEPT ![s] = Head(Pending(s))]
  BY <1>3, <1>8
<1> QED
  BY <1>3, <1>8, <1>9, <1>10, DuplexTake

\* An end stops, or is told to, or is answered: its pipe goes down, or is down
\* already.
LEMMA ShutdownStep ==
  ASSUME Sane, NEW t \in Thread, NEW s \in End
  PROVE  Stop(t, s) \/ OnDisconnect(t, s) \/ OnDisconnectAnswer(t, s) =>
            D!DNext \/ UNCHANGED D!duplexvars
<1> PICK x : x = Ev("DISCONNECT", Other(s))
  OBVIOUS
<1>1. x \in Event /\ x.type # "SENT"
  BY Ends, RaisedType, EventFacts
<1>2. ASSUME Stop(t, s) PROVE D!DNext \/ UNCHANGED D!duplexvars
  <2>1. ~popped[t] /\ UNCHANGED <<nsent, taken, queue, receiving>>
    BY <1>2 DEF Stop, Calls, Idle, Sane, PoppedSound, datavars
  <2>2. CASE UNCHANGED <<pipe, flight, popped>>
    <3>1. SentSame
      BY <2>2 DEF SentSame, UnderWay
    <3> QED
      BY <2>1, <2>2, <3>1, StutterStep
  <2>3. CASE pipe' = [pipe EXCEPT ![s] = "DOWN"] /\ Leave(t, <<x>>)
    <3>1. SentSame
      BY <1>1, <2>1, <2>3, LeaveOneSame
    <3> QED
      BY <2>1, <2>3, <3>1, DownStep
  <2> QED
    BY <1>2, <2>2, <2>3 DEF Stop
<1>3. ASSUME OnDisconnect(t, s) PROVE D!DNext \/ UNCHANGED D!duplexvars
  <2>1. Head(flight[t]).type # "SENT" /\ Leave(t, <<x>>)
        /\ UNCHANGED <<nsent, taken, queue, receiving>>
    BY <1>3, EventFacts DEF OnDisconnect, Handles, datavars
  <2>2. SentSame
    BY <1>1, <2>1, LeaveOneSame
  <2>3. pipe' = [pipe EXCEPT ![s] = "DOWN"]
    BY <1>3 DEF OnDisconnect, Disconnected
  <2> QED
    BY <2>1, <2>2, <2>3, DownStep
<1>4. ASSUME OnDisconnectAnswer(t, s) PROVE UNCHANGED D!duplexvars
  <2>1. Head(flight[t]).type # "SENT" /\ Leave(t, <<>>)
        /\ UNCHANGED <<pipe, nsent, taken, queue, receiving>>
    BY <1>4, EventFacts DEF OnDisconnectAnswer, Handles, datavars, flagvars
  <2>2. SentSame
    BY <2>1, LeaveOneSame
  <2> QED
    BY <2>1, <2>2, StutterStep
<1> QED
  BY <1>2, <1>3, <1>4

\* At the start nothing is sent.
LEMMA InitDuplex == Init => D!DInit
<1> SUFFICES ASSUME Init PROVE D!DInit
  OBVIOUS
<1>1. UnderWay = {}
  BY DEF Init, UnderWay, ToSet
<1>2. ASSUME NEW s \in End PROVE Pending(s) = <<>>
  <2>1. ~Lingers(s) /\ pipe[s] = "NONE" /\ queue[s] = <<>>
    BY <1>1 DEF Init, Lingers
  <2> QED
    BY <2>1 DEF Pending
<1>3. [s \in End |-> Pending(s)] = [s \in End |-> <<>>]
  BY <1>2
<1>4. D!DInit <=>
         /\ pipe = [s \in End |-> "NONE"]
         /\ [s \in End |-> Pending(s)] = [s \in End |-> <<>>]
         /\ nsent = [s \in End |-> 0]
         /\ taken = [s \in End |-> 0]
  BY DEF D!DInit, Pending, Lingers
<1> QED
  BY <1>3, <1>4 DEF Init

\* Every step without a race is a step of the connection, or none.
LEMMA NextDuplex ==
  ASSUME Sane, aborted = FALSE, Phase, Next, raced' = {}
  PROVE  D!DNext \/ UNCHANGED D!duplexvars
<1>1. PICK t \in Thread : Process(t) \/ Call(t)
  BY DEF Next
<1>2. CASE Connect(t) \/ Pop(t) \/ OnConnect(t)
  BY <1>2, QuietSteps
<1>3. CASE OnReady(t) \/ OnAccepted(t)
  BY <1>3, OnReadyStep, OnAcceptedStep
<1>4. CASE \E s \in End : Send(t, s) \/ Recv(t, s)
  BY <1>4, SendStep, RecvStep
<1>5. CASE \E s \in End : OnSent(t, s) \/ OnReceived(t, s)
  BY <1>5, OnSentStep, OnReceivedStep
<1>6. CASE \E s \in End : Stop(t, s) \/ OnDisconnect(t, s) \/ OnDisconnectAnswer(t, s)
  BY <1>6, ShutdownStep
<1>7. ~Ignore(t) /\ ~Unexpected(t) /\ \A s \in End : ~OnLastReceived(t, s)
  <2>1. "a" \in End
    BY DEF End
  <2> QED
    BY <2>1, NothingUnexpected
<1> QED
  BY <1>1, <1>2, <1>3, <1>4, <1>5, <1>6, <1>7 DEF Process, Call

\* Where calls that race are excluded, the two sessions implement a reliable
\* duplex connection: nothing is lost, duplicated or reordered on the way from
\* the message that waits in its sender, over the one that is on its way or
\* lingers, to the queue of the receiver (nn_sinproc_send, nn_sinproc_recv,
\* nn_sinproc_handler).
THEOREM ConnectionIsDuplex == ASSUME Races = {} PROVE Spec => RefinesDuplex
<1>1. Init => D!DInit
  BY InitDuplex
<1>2. IInv /\ IInv' /\ [Next]_vars => [D!DNext]_D!duplexvars
  <2> SUFFICES ASSUME IInv, IInv', [Next]_vars PROVE [D!DNext]_D!duplexvars
    OBVIOUS
  <2>1. raced = {} /\ raced' = {}
    BY DEF IInv, TypeOK
  <2>2. Sane /\ aborted = FALSE /\ Phase
    BY <2>1 DEF IInv, Sane
  <2>3. CASE Next
    <3>1. D!DNext \/ UNCHANGED D!duplexvars
      BY <2>1, <2>2, <2>3, NextDuplex
    <3> QED
      BY <3>1
  <2>4. CASE UNCHANGED vars
    <3>1. SentSame /\ UNCHANGED <<pipe, nsent, taken, queue, receiving>>
      BY <2>4 DEF SentSame, UnderWay, vars, flagvars, datavars
    <3>2. UNCHANGED D!duplexvars
      BY <3>1, StutterStep
    <3> QED
      BY <3>2
  <2> QED
    BY <2>3, <2>4
<1> QED
  BY <1>1, <1>2, Always, PTL DEF Spec, RefinesDuplex, D!DSpec
=============================================================================
