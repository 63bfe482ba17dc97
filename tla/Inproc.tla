------------------------------- MODULE Inproc -------------------------------
(***************************************************************************)
(* One connection of the inproc transport: the two sessions (sinproc.c) of *)
(* a bound and a connected endpoint (binproc.c, cinproc.c), in different   *)
(* sockets and so in different contexts.  End "c" is the session created   *)
(* by the endpoint that comes second (it finds the other one in the global *)
(* list, ins.c), end "a" the one that accepts.                             *)
(*                                                                         *)
(* The ends talk through events: a session in one context collects those   *)
(* it raises for the other, and after unlocking the same thread pops one   *)
(* after the other, locks the other context and processes it, with the     *)
(* events of that session first (nn_ctx_leave, ctx.c).  So every event is  *)
(* carried by a thread, in the order of that thread, and between threads   *)
(* in any order; an event is "active" from the raise to the pop, not to    *)
(* the processing.                                                         *)
(***************************************************************************)
EXTENDS Naturals, Sequences, FiniteSets, SequencesExt

CONSTANTS
    Thread,     \* the application's threads
    MaxQueue,   \* bound: messages in the inbound queue
    MaxMsg,     \* bound: messages sent from each end
    Races       \* the hazardous things that may happen, a subset of Race

\* What two threads may do at the same time, and the protocol of the connecting
\* or of the accepting end refuses the pipe (excl.c), a PAIR that has a peer.
Race == {"connect+close", "connect+send", "send+close", "receive+close",
         "connect refused", "accept refused"}

ASSUME InprocAssumption ==
    /\ IsFiniteSet(Thread)
    /\ MaxQueue \in Nat \ {0}
    /\ MaxMsg \in Nat
    /\ Races \subseteq Race

VARIABLES
    kind,       \* the endpoints: "binproc" and "cinproc"
    ep,         \* their state machines: "NONE", "ACTIVE", "STOPPING", "IDLE"
    state,      \* nn_sinproc.state, with "NONE" before and "FREED" after
    peer,       \* nn_sinproc.peer is set
    pipe,       \* nn_pipebase: "NONE", "UP" or "DOWN"
    sending,    \* NN_SINPROC_FLAG_SENDING
    receiving,  \* NN_SINPROC_FLAG_RECEIVING
    queue,      \* nn_sinproc.msgqueue
    flight,     \* the events each thread has to process, the next one first
    popped,     \* whether it has popped that one
    nsent,      \* how many messages each end sent; the last one is in .msg
    taken,      \* the message each end's user received last
    aborted,    \* an assertion or a bad state, or freed memory was used
    raced       \* history: what happened of Race

flagvars == <<peer, pipe, sending, receiving>>
datavars == <<queue, nsent, taken>>
vars == <<kind, ep, state, flagvars, datavars, flight, popped, aborted, raced>>

End == {"c", "a"}
Other(s) == IF s = "c" THEN "a" ELSE "c"

Handshake == {"CONNECT", "READY", "ACCEPTED"}
Event == [type : Handshake \cup {"SENT", "RECEIVED", "DISCONNECT"}, to : End]
Ev(type, s) == [type |-> type, to |-> s]

Init ==
    /\ kind \in {k \in [End -> {"binproc", "cinproc"}] : k["a"] # k["c"]}
    /\ ep = [s \in End |-> IF s = "a" THEN "ACTIVE" ELSE "NONE"]
    /\ state = [s \in End |-> "NONE"]
    /\ peer = [s \in End |-> FALSE]
    /\ pipe = [s \in End |-> "NONE"]
    /\ sending = [s \in End |-> FALSE]
    /\ receiving = [s \in End |-> FALSE]
    /\ queue = [s \in End |-> <<>>]
    /\ flight = [t \in Thread |-> <<>>]
    /\ popped = [t \in Thread |-> FALSE]
    /\ nsent = [s \in End |-> 0]
    /\ taken = [s \in End |-> 0]
    /\ aborted = FALSE
    /\ raced = {}

-----------------------------------------------------------------------------
(* Events.                                                                 *)

\* The event object, a member of a session: CONNECT, READY and ACCEPTED are
\* raised through the sender's own event_connect, the others through the
\* receiver's event_sent, event_received and event_disconnect.
Object(e) == IF e.type \in Handshake THEN <<Other(e.to), "connect">>
                                     ELSE <<e.to, e.type>>

\* The events still in a queue of thread t, and those it has yet to process.
Queued(t) == IF popped[t] THEN ToSet(Tail(flight[t])) ELSE ToSet(flight[t])
UnderWay == UNION {ToSet(flight[t]) : t \in Thread}

\* nn_fsm_event_active
Active(s, name) ==
    \E t \in Thread : \E e \in Queued(t) : Object(e) = <<s, name>>

\* The session of thread t ends, having raised events: nn_fsm_raiseto, which
\* asserts that the object is in no queue, and nn_ctx_leave.
Leave(t, raised) ==
    /\ flight' = [flight EXCEPT ![t] = raised \o IF popped[t] THEN Tail(@) ELSE @]
    /\ popped' = [popped EXCEPT ![t] = FALSE]

Clash(raised) ==
    \E i \in 1..Len(raised) : LET o == Object(raised[i]) IN Active(o[1], o[2])

\* The thread is inside no call.
Idle(t) == ~aborted /\ flight[t] = <<>>

\* What a call joins in which of Race while an event of a type is under way.
Joins(call, type) ==
    {r \in Race :
        \/ r = "connect+send"  /\ call = "send" /\ type \in Handshake
        \/ r = "connect+close" /\ call = "stop" /\ type \in Handshake
        \/ r = "send+close"    /\ <<call, type>> \in {<<"send", "DISCONNECT">>, <<"stop", "SENT">>}
        \/ r = "receive+close" /\ <<call, type>> \in {<<"recv", "DISCONNECT">>, <<"stop", "RECEIVED">>}}

\* A call of thread t, made while other threads carry their events.
Calls(t, call) ==
    LET joined == UNION {Joins(call, e.type) :
                            e \in UNION {ToSet(flight[u]) : u \in Thread \ {t}}}
    IN
    /\ Idle(t)
    /\ joined \subseteq Races
    /\ raced' = raced \cup joined

\* The peer's session is used although it is gone.
Gone(s) == ~peer[s] \/ state[Other(s)] = "FREED"

-----------------------------------------------------------------------------
(* Calls of the application.                                               *)

\* nn_bind or nn_connect -> nn_ins_bind, nn_ins_connect -> nn_binproc_connect,
\* nn_cinproc_connect: the second endpoint finds the first one.
Connect(t) ==
    /\ Idle(t)
    /\ UNCHANGED raced
    /\ ep["c"] = "NONE" /\ ep["a"] = "ACTIVE"
    /\ ep' = [ep EXCEPT !["c"] = "ACTIVE"]
    /\ state' = [state EXCEPT !["c"] = "CONNECTING"]
    /\ Leave(t, <<Ev("CONNECT", "a")>>)
    /\ UNCHANGED <<kind, flagvars, datavars, aborted>>

\* What nn_sinproc_send does to the state, in any session of end s.
SendOn(s) ==
    /\ sending' = [sending EXCEPT ![s] = TRUE]
    /\ nsent' = [nsent EXCEPT ![s] = @ + 1]

\* nn_send -> nn_pipe_send -> nn_sinproc_send; the pipe takes a message at a
\* time (nn_pipebase_sent makes it writable again).
Send(t, s) ==
    /\ Calls(t, "send")
    /\ pipe[s] = "UP" /\ ~sending[s] /\ nsent[s] < MaxMsg
    /\ SendOn(s)
    /\ Leave(t, <<Ev("SENT", Other(s))>>)
    /\ aborted' = (state[s] # "ACTIVE" \/ Gone(s) \/ Clash(<<Ev("SENT", Other(s))>>))
    /\ UNCHANGED <<kind, ep, state, peer, pipe, receiving, queue, taken>>

\* Faulty variant: the lingering message is acknowledged but not stored.
RecvDrops(t, s) ==
    /\ Calls(t, "recv")
    /\ pipe[s] = "UP" /\ queue[s] # <<>>
    /\ taken' = [taken EXCEPT ![s] = Head(queue[s])]
    /\ queue' = [queue EXCEPT ![s] = Tail(@)]
    /\ \/ /\ receiving[s]
          /\ receiving' = [receiving EXCEPT ![s] = FALSE]
          /\ Leave(t, <<Ev("RECEIVED", Other(s))>>)
          /\ aborted' = (Gone(s) \/ Clash(<<Ev("RECEIVED", Other(s))>>))
       \/ /\ receiving[s] => Len(queue[s]) > 1
          /\ UNCHANGED <<receiving, flight, popped, aborted>>
    /\ UNCHANGED <<kind, ep, state, peer, pipe, sending, nsent>>

\* nn_recv -> nn_pipe_recv -> nn_sinproc_recv, which pulls in the message that
\* lingers with the peer; behind another message it may still not fit.
Recv(t, s) ==
    /\ Calls(t, "recv")
    /\ pipe[s] = "UP" /\ queue[s] # <<>>
    /\ taken' = [taken EXCEPT ![s] = Head(queue[s])]
    /\ \/ /\ receiving[s]
          /\ queue' = [queue EXCEPT ![s] = Append(Tail(@), nsent[Other(s)])]
          /\ receiving' = [receiving EXCEPT ![s] = FALSE]
          /\ Leave(t, <<Ev("RECEIVED", Other(s))>>)
          /\ aborted' = (Gone(s) \/ Clash(<<Ev("RECEIVED", Other(s))>>))
       \/ /\ receiving[s] => Len(queue[s]) > 1
          /\ queue' = [queue EXCEPT ![s] = Tail(@)]
          /\ UNCHANGED <<receiving, flight, popped, aborted>>
    /\ UNCHANGED <<kind, ep, state, peer, pipe, sending, nsent>>

\* The end of nn_sinproc_shutdown in state STOPPING, for a session whose
\* endpoint is in state e: wait for events that cannot be cancelled, otherwise
\* NN_SINPROC_STOPPED lets the endpoint free it and stop when it is stopping.
Vanish(s, e) ==
    LET waits == Active(s, "RECEIVED") \/ Active(s, "DISCONNECT") IN
    /\ state' = [state EXCEPT ![s] = IF waits THEN "STOPPING" ELSE "FREED"]
    /\ ep' = [ep EXCEPT ![s] = IF e = "STOPPING" /\ ~waits THEN "IDLE" ELSE e]
    /\ aborted' = (~waits /\ (Active(s, "connect") \/ Active(s, "SENT")))

\* Faulty variant: the answer of the peer is not waited for.
StopForgets(t, s) ==
    /\ Calls(t, "stop")
    /\ ep[s] = "ACTIVE"
    /\ s = "c" => \A e \in UnderWay : e.type \notin Handshake
    /\ \/ /\ state[s] \in {"NONE", "FREED"}
          /\ ep' = [ep EXCEPT ![s] = "IDLE"]
          /\ UNCHANGED <<state, pipe, flight, popped, aborted>>
       \/ /\ state[s] = "STOPPING"
          /\ ep' = [ep EXCEPT ![s] = "STOPPING"]
          /\ UNCHANGED <<state, pipe, flight, popped, aborted>>
       \/ /\ state[s] = "DISCONNECTED"
          /\ Vanish(s, "STOPPING")
          /\ UNCHANGED <<pipe, flight, popped>>
       \/ /\ state[s] \in {"CONNECTING", "READY", "ACTIVE"}
          /\ ep' = [ep EXCEPT ![s] = "IDLE"]
          /\ state' = [state EXCEPT ![s] = "FREED"]
          /\ pipe' = [pipe EXCEPT ![s] = "DOWN"]
          /\ Leave(t, <<Ev("DISCONNECT", Other(s))>>)
          /\ aborted' = (Gone(s) \/ Clash(<<Ev("DISCONNECT", Other(s))>>))
    /\ UNCHANGED <<kind, peer, sending, receiving, datavars>>

\* Faulty variant: a peer that is gone is told, too.
StopAgain(t, s) ==
    /\ Calls(t, "stop")
    /\ ep[s] = "ACTIVE"
    /\ s = "c" => \A e \in UnderWay : e.type \notin Handshake
    /\ \/ /\ state[s] \in {"NONE", "FREED"}
          /\ ep' = [ep EXCEPT ![s] = "IDLE"]
          /\ UNCHANGED <<state, pipe, flight, popped, aborted>>
       \/ /\ state[s] = "STOPPING"
          /\ ep' = [ep EXCEPT ![s] = "STOPPING"]
          /\ UNCHANGED <<state, pipe, flight, popped, aborted>>
       \/ /\ state[s] \in {"CONNECTING", "READY", "ACTIVE", "DISCONNECTED"}
          /\ ep' = [ep EXCEPT ![s] = "STOPPING"]
          /\ state' = [state EXCEPT ![s] = "STOPPING_PEER"]
          /\ pipe' = [pipe EXCEPT ![s] = "DOWN"]
          /\ Leave(t, <<Ev("DISCONNECT", Other(s))>>)
          /\ aborted' = (Gone(s) \/ Clash(<<Ev("DISCONNECT", Other(s))>>))
    /\ UNCHANGED <<kind, peer, sending, receiving, datavars>>

\* nn_shutdown, nn_close -> nn_binproc_stop, nn_cinproc_stop: out of the global
\* list, then nn_sinproc_stop for the session.  The endpoint that another thread
\* is still creating is left alone in any case.
Stop(t, s) ==
    /\ Calls(t, "stop")
    /\ ep[s] = "ACTIVE"
    /\ s = "c" => \A e \in UnderWay : e.type \notin Handshake
    /\ \/ /\ state[s] \in {"NONE", "FREED"}
          /\ ep' = [ep EXCEPT ![s] = "IDLE"]
          /\ UNCHANGED <<state, pipe, flight, popped, aborted>>
       \/ /\ state[s] = "STOPPING"
          /\ ep' = [ep EXCEPT ![s] = "STOPPING"]
          /\ UNCHANGED <<state, pipe, flight, popped, aborted>>
       \/ /\ state[s] = "DISCONNECTED"
          /\ Vanish(s, "STOPPING")
          /\ UNCHANGED <<pipe, flight, popped>>
       \/ /\ state[s] \in {"CONNECTING", "READY", "ACTIVE"}
          /\ ep' = [ep EXCEPT ![s] = "STOPPING"]
          /\ state' = [state EXCEPT ![s] = "STOPPING_PEER"]
          /\ pipe' = [pipe EXCEPT ![s] = "DOWN"]
          /\ Leave(t, <<Ev("DISCONNECT", Other(s))>>)
          /\ aborted' = (Gone(s) \/ Clash(<<Ev("DISCONNECT", Other(s))>>))
    /\ UNCHANGED <<kind, peer, sending, receiving, datavars>>

-----------------------------------------------------------------------------
(* Events, once popped.                                                    *)

Pop(t) ==
    /\ ~aborted /\ flight[t] # <<>> /\ ~popped[t]
    /\ UNCHANGED raced
    /\ popped' = [popped EXCEPT ![t] = TRUE]
    /\ UNCHANGED <<kind, ep, state, flagvars, datavars, flight, aborted>>

\* Thread t processes an event of this type for end s, whose session is in one
\* of the states expected.
Handles(t, type, s, expected) ==
    /\ ~aborted /\ popped[t] /\ Head(flight[t]) = Ev(type, s)
    /\ state[s] \in expected

\* A session that is stopping does not care about most events.
Ignore(t) ==
    /\ \E s \in End :
          \/ \E type \in {"READY", "ACCEPTED", "SENT", "RECEIVED"} :
                Handles(t, type, s, {"STOPPING_PEER"})
          \/ Handles(t, "RECEIVED", s, {"DISCONNECTED"})
    /\ Leave(t, <<>>)
    /\ UNCHANGED <<kind, ep, state, flagvars, datavars, aborted, raced>>

\* NN_SINPROC_CONNECT at the endpoint: nn_sinproc_accept.
OnConnect(t) ==
    /\ Handles(t, "CONNECT", "a", {"NONE"})
    /\ ep["a"] = "ACTIVE"
    /\ state' = [state EXCEPT !["a"] = "READY"]
    /\ peer' = [peer EXCEPT !["a"] = TRUE]
    /\ Leave(t, <<Ev("READY", "c")>>)
    /\ UNCHANGED <<kind, ep, pipe, sending, receiving, datavars, aborted, raced>>

\* The pipe of end s has become writable in a session that raised the events:
\* a protocol with a delayed message (REQ) sends at once.
Writable(t, s, raised) ==
    \/ /\ sending' = [sending EXCEPT ![s] = FALSE]
       /\ Leave(t, raised)
       /\ aborted' = Clash(raised)
       /\ UNCHANGED nsent
    \/ LET all == Append(raised, Ev("SENT", Other(s))) IN
       /\ nsent[s] < MaxMsg
       /\ SendOn(s)
       /\ Leave(t, all)
       /\ aborted' = (state[Other(s)] = "FREED" \/ Clash(all))

\* NN_SINPROC_READY at the connecting session, which asserts that the protocol
\* takes the pipe.
OnReady(t) ==
    /\ Handles(t, "READY", "c", {"CONNECTING"})
    /\ peer' = [peer EXCEPT !["c"] = TRUE]
    /\ \/ /\ state' = [state EXCEPT !["c"] = "ACTIVE"]
          /\ pipe' = [pipe EXCEPT !["c"] = "UP"]
          /\ Writable(t, "c", <<Ev("ACCEPTED", "a")>>)
          /\ UNCHANGED raced
       \/ /\ "connect refused" \in Races
          /\ raced' = raced \cup {"connect refused"}
          /\ aborted' = TRUE
          /\ UNCHANGED <<state, pipe, sending, nsent, flight, popped>>
    /\ UNCHANGED <<kind, ep, receiving, queue, taken>>

\* Faulty variant: the protocol is not told.
DisconnectedKeepsPipe(s) ==
    /\ UNCHANGED pipe
    /\ peer' = [peer EXCEPT ![s] = FALSE]
    /\ IF kind[s] = "binproc" THEN Vanish(s, ep[s])
       ELSE /\ state' = [state EXCEPT ![s] = "DISCONNECTED"]
            /\ UNCHANGED <<ep, aborted>>

\* The session is DISCONNECTED and its endpoint told: a bound endpoint stops
\* it, a connected one keeps it.
Disconnected(s) ==
    /\ pipe' = [pipe EXCEPT ![s] = "DOWN"]
    /\ peer' = [peer EXCEPT ![s] = FALSE]
    /\ IF kind[s] = "binproc" THEN Vanish(s, ep[s])
       ELSE /\ state' = [state EXCEPT ![s] = "DISCONNECTED"]
            /\ UNCHANGED <<ep, aborted>>

\* NN_SINPROC_ACCEPTED at the accepting session.
OnAccepted(t) ==
    /\ Handles(t, "ACCEPTED", "a", {"READY"})
    /\ \/ /\ state' = [state EXCEPT !["a"] = "ACTIVE"]
          /\ pipe' = [pipe EXCEPT !["a"] = "UP"]
          /\ Writable(t, "a", <<>>)
          /\ UNCHANGED <<ep, peer, raced>>
       \/ /\ "accept refused" \in Races
          /\ raced' = raced \cup {"accept refused"}
          /\ Disconnected("a")
          /\ Leave(t, <<>>)
          /\ UNCHANGED <<sending, nsent>>
    /\ UNCHANGED <<kind, receiving, queue, taken>>

\* NN_SINPROC_SENT: the message is fetched from the peer if it fits, as any
\* message does into an empty queue; nn_msgqueue_send limits the octets.
OnSent(t, s) ==
    /\ Handles(t, "SENT", s, {"ACTIVE"})
    /\ \/ /\ Len(queue[s]) < MaxQueue
          /\ queue' = [queue EXCEPT ![s] = Append(@, nsent[Other(s)])]
          /\ Leave(t, <<Ev("RECEIVED", Other(s))>>)
          /\ aborted' = (Gone(s) \/ Clash(<<Ev("RECEIVED", Other(s))>>))
          /\ UNCHANGED receiving
       \/ /\ queue[s] # <<>>
          /\ receiving' = [receiving EXCEPT ![s] = TRUE]
          /\ Leave(t, <<>>)
          /\ UNCHANGED <<queue, aborted>>
    /\ UNCHANGED <<kind, ep, state, peer, pipe, sending, nsent, taken, raced>>

\* NN_SINPROC_RECEIVED: the pipe can send again.
OnReceived(t, s) ==
    /\ Handles(t, "RECEIVED", s, {"ACTIVE"})
    /\ sending[s]
    /\ Writable(t, s, <<>>)
    /\ UNCHANGED <<kind, ep, state, peer, pipe, receiving, queue, taken, raced>>

\* The last event a session in state STOPPING waited for.
OnLastReceived(t, s) ==
    /\ Handles(t, "RECEIVED", s, {"STOPPING"})
    /\ Vanish(s, ep[s])
    /\ Leave(t, <<>>)
    /\ UNCHANGED <<kind, flagvars, datavars, raced>>

\* Faulty variant: the peer is not answered.
OnDisconnectSilent(t, s) ==
    /\ Handles(t, "DISCONNECT", s, {"ACTIVE"})
    /\ Disconnected(s)
    /\ Leave(t, <<>>)
    /\ UNCHANGED <<kind, sending, receiving, datavars, raced>>

\* NN_SINPROC_DISCONNECT: the peer stops, and is answered.
OnDisconnect(t, s) ==
    /\ Handles(t, "DISCONNECT", s, {"ACTIVE"})
    /\ Disconnected(s)
    /\ Leave(t, <<Ev("DISCONNECT", Other(s))>>)
    /\ UNCHANGED <<kind, sending, receiving, datavars, raced>>

\* The answer, or both stop at once.
OnDisconnectAnswer(t, s) ==
    /\ Handles(t, "DISCONNECT", s, {"STOPPING_PEER"})
    /\ Vanish(s, ep[s])
    /\ Leave(t, <<>>)
    /\ UNCHANGED <<kind, flagvars, datavars, raced>>

Expected(e) ==
    LET s == e.to IN
    CASE e.type = "CONNECT"    -> ep["a"] = "ACTIVE"
      [] e.type = "READY"      -> state[s] \in {"CONNECTING", "STOPPING_PEER"}
      [] e.type = "ACCEPTED"   -> state[s] \in {"READY", "STOPPING_PEER"}
      [] e.type = "SENT"       -> state[s] \in {"ACTIVE", "STOPPING_PEER"}
      [] e.type = "RECEIVED"   -> \/ state[s] = "ACTIVE" /\ sending[s]
                                  \/ state[s] \in {"DISCONNECTED",
                                                   "STOPPING_PEER", "STOPPING"}
      [] e.type = "DISCONNECT" -> state[s] \in {"ACTIVE", "STOPPING_PEER"}

\* nn_fsm_bad_state, nn_fsm_bad_action, nn_fsm_bad_source, or a session that
\* is freed already.
Unexpected(t) ==
    /\ ~aborted /\ popped[t] /\ ~Expected(Head(flight[t]))
    /\ UNCHANGED raced
    /\ aborted' = TRUE
    /\ UNCHANGED <<kind, ep, state, flagvars, datavars, flight, popped>>

-----------------------------------------------------------------------------
Process(t) ==
    \/ Pop(t) \/ Ignore(t) \/ Unexpected(t)
    \/ OnConnect(t) \/ OnReady(t) \/ OnAccepted(t)
    \/ \E s \in End : OnSent(t, s) \/ OnReceived(t, s) \/ OnLastReceived(t, s)
                      \/ OnDisconnect(t, s) \/ OnDisconnectAnswer(t, s)

Call(t) == Connect(t) \/ \E s \in End : Send(t, s) \/ Recv(t, s) \/ Stop(t, s)

Next == \E t \in Thread : Process(t) \/ Call(t)

Spec == Init /\ [][Next]_vars

\* A thread inside a call goes on.
Fairness == \A t \in Thread : WF_vars(Process(t))

FairSpec == Spec /\ Fairness

-----------------------------------------------------------------------------
TypeOK ==
    /\ kind \in [End -> {"binproc", "cinproc"}]
    /\ ep \in [End -> {"NONE", "ACTIVE", "STOPPING", "IDLE"}]
    /\ state \in [End -> {"NONE", "CONNECTING", "READY", "ACTIVE",
                          "DISCONNECTED", "STOPPING_PEER", "STOPPING", "FREED"}]
    /\ peer \in [End -> BOOLEAN]
    /\ pipe \in [End -> {"NONE", "UP", "DOWN"}]
    /\ sending \in [End -> BOOLEAN]
    /\ receiving \in [End -> BOOLEAN]
    /\ queue \in [End -> Seq(1..MaxMsg)]
    /\ \A s \in End : Len(queue[s]) <= MaxQueue
    /\ flight \in [Thread -> Seq(Event)]
    /\ popped \in [Thread -> BOOLEAN]
    /\ nsent \in [End -> 0..MaxMsg]
    /\ taken \in [End -> 0..MaxMsg]
    /\ aborted \in BOOLEAN
    /\ raced \in SUBSET Races

\* Every event finds a state that expects it, the event objects are raised one
\* at a time, and the events "deemed to be impossible" (sinproc.c:301) in a
\* session that is through are impossible.
NeverAborts == ~aborted

\* That is true of a connection on which none of Race has happened.
AbortsOnlyByRace == raced = {} => NeverAborts

\* Unless one of Race has happened, a session is freed only when nothing will
\* come back to it: no event is under way to it or lies in it, not even one
\* already popped, and its peer is in no state that uses the pointer to it.
NothingDangles ==
    /\ TypeOK
    /\ \A s \in End : raced = {} /\ state[s] = "FREED" =>
       /\ \A e \in UnderWay : Object(e)[1] # s /\ e.to # s
       /\ state[Other(s)] \notin {"READY", "ACTIVE"}

\* Without races an endpoint that is stopped gets there.
StopEnds == \A s \in End : ep[s] = "STOPPING" ~> (ep[s] = "IDLE" \/ raced # {})

\* Without races the pipe of the other end goes down, too: its socket learns
\* that the connection is gone.
PeerLearns ==
    \A s \in End : ep[s] = "STOPPING" /\ pipe[Other(s)] = "UP"
                      ~> (pipe[Other(s)] = "DOWN" \/ raced # {})

\* The two sessions implement a reliable duplex connection.
D == INSTANCE Duplex WITH
        chan <- [s \in End |->
                   IF pipe[s] = "DOWN" THEN <<>>
                   ELSE queue[s] \o IF receiving[s] \/ Ev("SENT", s) \in UnderWay
                                    THEN <<nsent[Other(s)]>> ELSE <<>>]

RefinesDuplex == D!DSpec
=============================================================================
