------------------------------ MODULE Endpoints ------------------------------
(* An endpoint of one of the three transports that use sockets, connecting    *)
(* or bound, in the context of its socket.                                     *)
EXTENDS Connect, Listen

\* Events and tasks tell connections from the parts of an endpoint.
Part == {"ep", "sock", "session", "header", "usock", "listener",
         "EP", "PIPE", "USOCK", "HEADER", "DNS", "SESSION", "ACCEPTED", "LISTENER"} \cup Timer
ASSUME EndpointsAssumption ==
    /\ Conn # {} /\ Conn \cap Part = {}
    /\ NULL \notin Conn \cup Part
    /\ MaxReads \in Nat

\* Whether the endpoint connects or is bound, which is settled when it is made.
VARIABLE side
vars == <<m, side>>

Init ==
    \/ side = "connect" /\ ConnectInit
    \/ side = "listen" /\ ListenInit

Enter ==
    \/ side = "connect" /\ StreamEnter
    \/ side = "listen" /\ ListenEnter
Handle ==
    \/ side = "connect" /\ ConnectHandle
    \/ side = "listen" /\ ListenHandle
Stop ==
    \/ side = "connect" /\ ConnectStop
    \/ side = "listen" /\ ListenStop

Expected == ENABLED Handle

\* nn_fsm_bad_state, _source, _action: nobody expects the event.
Unexpected ==
    /\ m.events # <<>> /\ ~m.aborted
    /\ ~Expected
    /\ m' = Abort(Rest)

Finished == m.ep = "FREED" \/ m.aborted \/ (side = "listen" /\ m.failed)

Next ==
    /\ Enter \/ Handle \/ Unexpected \/ Stop \/ (Finished /\ UNCHANGED m)
    /\ UNCHANGED side

Spec == Init /\ [][Next]_vars

Work ==
    \/ Handle \/ Unexpected
    \/ side = "connect" /\ ExecuteTask
    \/ side = "listen" /\ ListenTask
Answer ==
    \/ side = "connect" /\ \E t \in Timer : Timeout(t)
    \/ side = "connect" /\ m.usock = "CONNECTING" /\ FdOut
    \/ side = "listen" /\ \E c \in Conn : ServiceStops(c)

\* The thread in the context handles every event and the worker executes its
\* tasks; the worker takes expired timers, the system answers a connect(), and
\* a session that is being stopped stops.
FairSpec == Spec /\ WF_vars(Work /\ UNCHANGED side) /\ WF_vars(Answer /\ UNCHANGED side)

-----------------------------------------------------------------------------
\* No assertion fails, whatever the peers, the system and the user do: no event
\* comes to a state machine that does not expect it, no task or event is queued
\* twice, no timer or usock is started twice, and what is destroyed is idle.
NeverAborts == m.aborted => m.odd \cap {"bind", "early", "left"} # {}

PipeWorks ==
    /\ m.pipe = "ACTIVE" <=> m.session = "ACTIVE"
    /\ m.pipe = "ACTIVE" => m.usock = "ACTIVE"

\* Between two events the protocol has the pipe exactly while the session runs,
\* and then the connection is up; unless it broke while the timer of the header
\* exchange was stopping.
PipeIsConnected == side = "connect" /\ Outside => PipeWorks \/ "lost" \in m.odd

\* A bound endpoint always accepts: between two events one connection owns the
\* listening usock and waits for a peer, and the worker polls the usock or is about
\* to, however many connections were accepted, failed or had no resources.  And a
\* connection that failed waits for nothing but the worker to close its usock.
KeepsListening ==
    side = "listen" /\ Outside /\ m.ep = "ACTIVE" /\ ~m.failed =>
       /\ m.conn # NULL /\ m.owner = m.conn /\ m.asock = m.conn
       /\ m.c[m.conn].state = "ACCEPTING"
       /\ m.usock = "ACCEPTING"
       /\ m.poll = {"FD", "IN"} \/ <<"listener", "ACCEPT">> \in Range(m.tasks)
       /\ \A c \in Conn :
             m.c[c].state \in {"STOPPING_SESSION", "STOPPING_USOCK", "DONE"} =>
                <<c, "STOP">> \in Range(m.tasks)

\* What is left when an endpoint was freed: no event or task for it, no descriptor
\* in the poller, no connection, and no file of its own at an ipc address.
FreedClean ==
    m.ep = "FREED" =>
       /\ m.tasks = <<>> /\ m.events = <<>> /\ "FD" \notin m.poll
       /\ side = "listen" => m.file # "own" /\ \A c \in Conn : m.c[c] = NoConn

Stopping ==
    \/ side = "connect" /\ m.ep \in {"STOPPING_SESSION_FINAL", "STOPPING"}
    \/ side = "listen" /\ m.ep \in {"STOPPING_CONN", "STOPPING_USOCK", "STOPPING_CONNS"}

\* An endpoint that is told to stop is freed, whatever its parts are doing then.
StopEnds == Stopping ~> m.ep = "FREED" \/ m.aborted

Connects == side = "connect" /\ ~m.aborted

\* A connection that is down is up again or tried again after the interval, unless
\* the ws peer is gone for good or does not take the frame that closes the
\* connection.
KeepsTrying ==
    /\ Connects /\ m.session # "ACTIVE" ~>
          ~Connects \/ m.session \in {"ACTIVE", "CLOSING_CONNECTION"}
          \/ m.ep \in {"WAITING", "FREED"} \/ m.peerGone
    /\ Connects /\ m.ep = "WAITING" ~> ~Connects \/ m.ep # "WAITING"
=============================================================================
