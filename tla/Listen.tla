-------------------------------- MODULE Listen --------------------------------
(* A bound endpoint - btcp, bipc or bws - with the usock it listens on, and   *)
(* the connections it accepts: atcp, aipc or aws.  At any time one of them     *)
(* waits for a peer and owns the listening usock for as long; the accepted     *)
(* ones are in a list.  The session of a connection is in Stream and Sws; here *)
(* it ends by itself or is stopped, which takes a while during the handshake.  *)
EXTENDS Context, FiniteSets, SequencesExt

CONSTANT Conn  \* connections there is room for at once

\* The fields of m:
\*   kind, ep        the transport and the state of btcp, bipc or bws
\*   failed          the endpoint could not be created
\*   file            who is at the ipc address: nobody, a file left over by an
\*                   earlier run, another program, or this endpoint
\*   usock, owner, asock, poll, errnum
\*                   the listening usock, who gets its events, for whom it
\*                   accepts, what the poller knows, and whether the system was
\*                   out of resources before
\*   conn, conns     the connection that waits for a peer, and the accepted ones
\*   c               of each connection: its state, its usock, its session, and
\*                   whom the listening usock was taken from

NoConn == [state |-> "NONE", usock |-> "IDLE", session |-> "IDLE", saved |-> NULL]
Free(x) == {c \in Conn : x.c[c].state = "NONE"}

\* What accept() may find: a peer, none, or no resources for one.
Accepted == {"peer", "none", "resource"}
MayAccept(x, r) == r = "peer" => Free(x) # {}

-----------------------------------------------------------------------------
(* The two usocks.                                                           *)

ListenerEvent(x, type) ==
    IF x.owner = "ep" THEN Raise(x, Ev("ep", "USOCK", type))
                      ELSE Raise(x, Ev(x.owner, "LISTENER", type))

\* nn_usock_accept.
Accept(x, c, r) ==
    LET y == [x EXCEPT !.c[c].usock = "BEING_ACCEPTED", !.usock = "ACCEPTING"]
    IN CASE x.usock \notin {"LISTENING", "ACCEPTING_ERROR"} -> Abort(x)
         [] x.usock \in {"LISTENING", "ACCEPTING_ERROR"} /\ r = "peer" ->
               Raise([y EXCEPT !.c[c].usock = "ACCEPTED", !.usock = "LISTENING", !.asock = NULL],
                     Ev(c, "ACCEPTED", "ACCEPTED"))
         [] x.usock \in {"LISTENING", "ACCEPTING_ERROR"} /\ r = "resource" /\ ~x.errnum ->
               ListenerEvent([y EXCEPT !.asock = c, !.usock = "ACCEPTING_ERROR", !.errnum = TRUE],
                             "ACCEPT_ERROR")
         [] OTHER -> Execute([y EXCEPT !.asock = c], "listener", "ACCEPT")

\* The listening usock is no longer in use when it is asked to stop.
ListenerStop(x) ==
    CASE x.usock = "IDLE" -> x
      [] x.usock \in {"STARTING", "LISTENING", "ACCEPTING_ERROR"} ->
            ListenerEvent([x EXCEPT !.usock = "IDLE", !.errnum = FALSE], "STOPPED")
      [] OTHER -> Abort(x)

\* nn_usock_stop of an accepted usock, or of one that waits to be accepted.
AcceptedStop(x, c) ==
    CASE x.c[c].usock \in {"DONE", "ACCEPTED"} ->
            Raise([x EXCEPT !.c[c].usock = "IDLE"], Ev(c, "ACCEPTED", "STOPPED"))
      [] x.c[c].usock = "BEING_ACCEPTED" ->
            IF x.usock = "ACCEPTING"
            THEN Execute([x EXCEPT !.c[c].usock = "STOPPING_ACCEPT", !.usock = "CANCELLING"],
                         "listener", "STOP")
            ELSE Abort(x)
      [] x.c[c].usock = "ACTIVE" ->
            Raise(Execute([x EXCEPT !.c[c].usock = "STOPPING"], c, "STOP"),
                  Ev(c, "ACCEPTED", "SHUTDOWN"))
      [] OTHER -> x

\* What the worker does for a task of the listening usock.
ListenerTask(x, what) ==
    CASE what = "ACCEPT" -> [x EXCEPT !.poll = {"FD", "IN"}]
      [] what = "STOP" /\ x.usock = "CANCELLING" ->
            Raise([x EXCEPT !.poll = {}, !.usock = "LISTENING", !.c[x.asock].usock = "IDLE"],
                  Ev(x.asock, "ACCEPTED", "STOPPED"))
      [] OTHER -> Abort(x)

AcceptedTask(x, c) ==
    IF x.c[c].usock = "STOPPING"
    THEN Raise([x EXCEPT !.c[c].usock = "IDLE"], Ev(c, "ACCEPTED", "STOPPED"))
    ELSE Abort(x)

-----------------------------------------------------------------------------
(* The session and the connection.                                           *)

Session == "SESSION"
AcceptedIdle(x, c) ==
    /\ x.c[c].usock = "IDLE"
    /\ \A i \in DOMAIN x.events : x.events[i] # Ev(c, "ACCEPTED", "STOPPED")
ServedIdle(x, c) ==
    /\ x.c[c].session = "IDLE"
    /\ \A i \in DOMAIN x.events : x.events[i] # Ev(c, Session, "STOPPED")
ConnIdle(x, c) == FsmIdle(x, c, x.c[c].state)

ServedStop(x, c) ==
    CASE x.c[c].session = "HANDSHAKE" -> [x EXCEPT !.c[c].session = "STOPPING"]
      [] x.c[c].session \in {"ACTIVE", "DONE"} ->
            Raise([x EXCEPT !.c[c].session = "IDLE"], Ev(c, Session, "STOPPED"))
      [] OTHER -> x

ReturnListener(x, c) ==
    IF x.c[c].saved = NULL THEN x
    ELSE [x EXCEPT !.owner = x.c[c].saved, !.c[c].saved = NULL]

\* nn_a*_shutdown, for the stop itself and for every event after it.
ConnFinish(x, c) ==
    LET y == IF x.c[c].state = "STOPPING_SESSION_FINAL" /\ ServedIdle(x, c)
             THEN AcceptedStop([x EXCEPT !.c[c].state = "STOPPING"], c) ELSE x
    IN IF y.c[c].state = "STOPPING" /\ AcceptedIdle(y, c)
       THEN Raise([ReturnListener(y, c) EXCEPT !.c[c].state = "IDLE"], Ev("ep", c, "STOPPED"))
       ELSE y

ConnStop(x, c) ==
    IF x.c[c].state \in {"IDLE", "STOPPING_SESSION_FINAL", "STOPPING"} THEN x
    ELSE ConnFinish([ServedStop(x, c) EXCEPT !.c[c].state = "STOPPING_SESSION_FINAL"], c)

\* nn_b*_start_accepting, and nn_a*_start: the next connection waits for a peer.
StartAccepting(x, r) ==
    LET c == CHOOSE d \in Free(x) : TRUE
        y == [x EXCEPT !.conn = c, !.owner = c,
                       !.c[c] = [NoConn EXCEPT !.state = "ACCEPTING", !.saved = x.owner]]
    IN CASE x.conn # NULL -> {Abort(x)}
         [] x.conn = NULL /\ MayAccept(y, r) -> {Accept(y, c, r)}
         [] OTHER -> {}

-----------------------------------------------------------------------------
(* Creating and stopping the endpoint.                                       *)

Bound(kind, file) ==
    [kind |-> kind, ep |-> "ACTIVE", failed |-> FALSE, file |-> file,
     usock |-> "IDLE", owner |-> "ep", asock |-> NULL, poll |-> {}, errnum |-> FALSE,
     conn |-> NULL, conns |-> <<>>, c |-> [d \in Conn |-> NoConn],
     tasks |-> <<>>, events |-> <<>>, timer |-> <<>>, armed |-> {},
     odd |-> {}, aborted |-> FALSE]

\* nn_b*_listen: there is no socket to be had, the address is in use, or the
\* first connection starts to wait.
Listening(x) == UNION {StartAccepting([x EXCEPT !.usock = "LISTENING"], r) : r \in Accepted}
NotBound(x) ==
    {[x EXCEPT !.failed = TRUE],
     ListenerStop([x EXCEPT !.failed = TRUE, !.usock = "STARTING"])}

BtcpListen == Listening(Bound("tcp", "none"))
\* A file nobody listens on any more is removed first.
BipcListen(file) ==
    IF file = "foreign" THEN NotBound(Bound("ipc", file)) ELSE Listening(Bound("ipc", "own"))
BwsListen == LET x == Bound("ws", "none") IN Listening(x) \cup NotBound(x)

\* Only btcp cleans up after itself when it cannot listen.
BtcpCreate ==
    m \in BtcpListen \cup
         {Raise(x, Ev("ep", "EP", "LISTEN_ERR")) : x \in NotBound(Bound("tcp", "none"))}
BipcCreate == \E file \in {"none", "stale", "foreign"} : m \in BipcListen(file)
BwsCreate == m \in BwsListen

ListenInit == BtcpCreate \/ BipcCreate \/ BwsCreate

\* nn_b*_shutdown, one state at a time.
FinishWaiting(x) ==
    IF x.ep = "STOPPING_CONN" /\ ConnIdle(x, x.conn)
    THEN ListenerStop([x EXCEPT !.ep = "STOPPING_USOCK", !.c[x.conn] = NoConn, !.conn = NULL,
                                !.file = IF x.kind = "ipc" THEN "none" ELSE @])
    ELSE x
\* The accepted connections are stopped one after the other.
StopConns(x) ==
    LET stopped[n \in 0..Len(x.conns)] ==
            IF n = 0 THEN x ELSE ConnStop(stopped[n - 1], x.conns[n])
    IN stopped[Len(x.conns)]
FinishEp(x) ==
    IF x.conns = <<>> THEN Raise([x EXCEPT !.ep = "IDLE"], Ev("sock", "EP", "STOPPED")) ELSE x
ListenerIdle(x) == FsmIdle(x, "USOCK", x.usock)
FinishListening(x) ==
    IF x.ep = "STOPPING_USOCK" /\ ListenerIdle(x)
    THEN FinishEp(StopConns([x EXCEPT !.ep = "STOPPING_CONNS"]))
    ELSE x
FinishBound(x) == FinishListening(FinishWaiting(x))

\* nn_shutdown or nn_close, at any moment.
ListenStop ==
    /\ Outside /\ m.ep = "ACTIVE" /\ ~m.failed
    /\ m' = IF m.conn = NULL THEN FinishBound([m EXCEPT !.ep = "STOPPING_USOCK"])
            ELSE FinishBound(ConnStop([m EXCEPT !.ep = "STOPPING_CONN"], m.conn))

-----------------------------------------------------------------------------
(* The events of the endpoint.                                               *)

RemoveConn(x, c) ==
    LET i == CHOOSE i \in DOMAIN x.conns : x.conns[i] = c
    IN [x EXCEPT !.conns = RemoveAt(@, i), !.c[c] = NoConn]

ListenErr ==
    /\ On("ep", "EP", "LISTEN_ERR") /\ m.ep = "ACTIVE"
    /\ m' = [Rest EXCEPT !.ep = "FREED"]

ListenerStopped ==
    /\ On("ep", "USOCK", "STOPPED") /\ m.ep = "ACTIVE"
    /\ m' = Rest

ConnAccepted(c, r) ==
    /\ On("ep", c, "ACCEPTED") /\ m.ep = "ACTIVE"
    /\ m' \in IF m.kind = "tcp" /\ m.conn # c THEN {Abort(Rest)}
              ELSE StartAccepting([Rest EXCEPT !.conn = NULL, !.conns = Append(@, c)], r)

ConnFailed(c) ==
    /\ On("ep", c, "ERROR") /\ m.ep = "ACTIVE"
    /\ m' = ConnStop(Rest, c)

ConnStopped(c) ==
    /\ On("ep", c, "STOPPED") /\ m.ep = "ACTIVE"
    /\ m' = RemoveConn(Rest, c)

EpFinishing ==
    /\ OnAny("ep")
    /\ \/ m.ep \in {"STOPPING_CONN", "STOPPING_USOCK"} /\ m' = FinishBound(Rest)
       \/ /\ m.ep = "STOPPING_CONNS"
          /\ m' = LET e == Head(m.events)
                  IN IF e.src \in Conn /\ e.type = "STOPPED"
                     THEN FinishEp(RemoveConn(Rest, e.src)) ELSE Abort(Rest)

\* The socket destroys the endpoint, which asserts that nothing is left of it.
DestroyBound ==
    /\ On("sock", "EP", "STOPPED")
    /\ m' = IF /\ m.ep = "IDLE" /\ m.conn = NULL /\ m.conns = <<>> /\ m.usock = "IDLE"
               /\ \A i \in DOMAIN m.tasks : m.tasks[i][1] = "listener"
            THEN [Rest EXCEPT !.ep = "FREED"] ELSE Abort(Rest)

Serving ==
    \/ ListenerStopped
    \/ \E c \in Conn : ConnFailed(c) \/ ConnStopped(c) \/ \E r \in Accepted : ConnAccepted(c, r)
    \/ EpFinishing

BtcpHandle == m.kind = "tcp" /\ (Serving \/ ListenErr)
BipcHandle == m.kind = "ipc" /\ Serving
BwsHandle == m.kind = "ws" /\ Serving

-----------------------------------------------------------------------------
(* The events of a connection.                                               *)

\* A peer: the listening usock goes back to the endpoint, the session starts.
PeerAccepted(c) ==
    /\ On(c, "ACCEPTED", "ACCEPTED") /\ m.c[c].state = "ACCEPTING"
    /\ m' = Raise([ReturnListener(Rest, c) EXCEPT
                     !.c[c].usock = "ACTIVE", !.c[c].session = "HANDSHAKE",
                     !.c[c].state = "ACTIVE"],
                  Ev("ep", c, "ACCEPTED"))

\* Faulty variant: after an error nobody accepts any more.
AcceptFailedOnce(c, r) ==
    /\ On(c, "LISTENER", "ACCEPT_ERROR") /\ m.c[c].state = "ACCEPTING"
    /\ m' = Rest

AcceptFailed(c, r) ==
    /\ On(c, "LISTENER", "ACCEPT_ERROR") /\ m.c[c].state = "ACCEPTING"
    /\ MayAccept(m, r)
    /\ m' = Accept(Rest, c, r)

ServiceFailed(c, result) ==
    /\ On(c, Session, result) /\ m.c[c].state = "ACTIVE"
    /\ m' = ServedStop([Rest EXCEPT !.c[c].state = "STOPPING_SESSION"], c)

ServiceStopped(c) ==
    /\ On(c, Session, "STOPPED") /\ m.c[c].state = "STOPPING_SESSION"
    /\ m' = AcceptedStop([Rest EXCEPT !.c[c].state = "STOPPING_USOCK"], c)

AcceptedStopped(c) ==
    /\ m.c[c].state = "STOPPING_USOCK"
    /\ \/ On(c, "ACCEPTED", "SHUTDOWN") /\ m' = Rest
       \/ /\ On(c, "ACCEPTED", "STOPPED")
          /\ m' = Raise([Rest EXCEPT !.c[c].state = "DONE"], Ev("ep", c, "ERROR"))

ConnFinishing(c) ==
    /\ OnAny(c)
    /\ m.c[c].state \in {"STOPPING_SESSION_FINAL", "STOPPING"}
    /\ m' = ConnFinish(Rest, c)

ConnAccepts(c) ==
    PeerAccepted(c) \/ (\E r \in Accepted : AcceptFailed(c, r)) \/ ConnFinishing(c)
ConnServes(c) == ServiceFailed(c, "ERROR") \/ ServiceStopped(c) \/ AcceptedStopped(c)

AtcpHandle == m.kind = "tcp" /\ \E c \in Conn : ConnAccepts(c) \/ ConnServes(c)
AipcAccepts == m.kind = "ipc" /\ \E c \in Conn : ConnAccepts(c)
AipcServes == m.kind = "ipc" /\ \E c \in Conn : ConnServes(c)
AwsAccepts == m.kind = "ws" /\ \E c \in Conn : ConnAccepts(c)
AwsServes ==
    m.kind = "ws" /\ \E c \in Conn : ConnServes(c) \/ ServiceFailed(c, "CLOSE_HANDSHAKE")

ListenHandle ==
    \/ BtcpHandle \/ BipcHandle \/ BwsHandle \/ DestroyBound
    \/ AtcpHandle \/ AipcAccepts \/ AipcServes \/ AwsAccepts \/ AwsServes

-----------------------------------------------------------------------------
(* Steps of the worker, the peers and the sessions.                          *)

ListenTask ==
    /\ Outside /\ m.tasks # <<>>
    /\ LET x == [m EXCEPT !.tasks = Tail(@)]
           what == Head(m.tasks)[2]
       IN m' = IF Head(m.tasks)[1] = "listener" THEN ListenerTask(x, what)
               ELSE AcceptedTask(x, Head(m.tasks)[1])

\* A peer connects, or the system cannot accept it.  A connection that was
\* aborted meanwhile changes nothing.
PeerArrives ==
    /\ Outside /\ m.poll = {"FD", "IN"} /\ m.usock # "CANCELLING"
    /\ \/ /\ m.usock = "ACCEPTING" /\ Free(m) # {}
          /\ m' = Raise([m EXCEPT !.c[m.asock].usock = "ACCEPTED", !.asock = NULL, !.poll = {},
                                  !.usock = "LISTENING"],
                        Ev(m.asock, "ACCEPTED", "ACCEPTED"))
       \/ /\ m.usock = "ACCEPTING"
          /\ m' = ListenerEvent([m EXCEPT !.errnum = TRUE, !.usock = "ACCEPTING_ERROR", !.poll = {}],
                                "ACCEPT_ERROR")
       \/ m.usock # "ACCEPTING" /\ m' = Abort(m)

\* The session of a connection ends its handshake, or fails; the connection may
\* be broken then.
HandshakeDone(c) ==
    /\ Outside /\ m.c[c].session = "HANDSHAKE"
    /\ m' = [m EXCEPT !.c[c].session = "ACTIVE"]

ServiceEnds(c) ==
    /\ Outside /\ m.c[c].session \in {"HANDSHAKE", "ACTIVE"}
    /\ \E result \in {"ERROR"} \cup (IF m.kind = "ws" THEN {"CLOSE_HANDSHAKE"} ELSE {}) :
       \E usock \in {"ACTIVE", "DONE"} :
          m' = Raise([m EXCEPT !.c[c].session = "DONE", !.c[c].usock = usock],
                     Ev(c, Session, result))

ServiceStops(c) ==
    /\ Outside /\ m.c[c].session = "STOPPING"
    /\ m' = Raise([m EXCEPT !.c[c].session = "IDLE"], Ev(c, Session, "STOPPED"))

ListenEnter ==
    \/ ListenTask \/ PeerArrives
    \/ \E c \in Conn : HandshakeDone(c) \/ ServiceEnds(c) \/ ServiceStops(c)
=============================================================================
