------------------------------- MODULE Connect -------------------------------
(* A connecting endpoint - ctcp, cipc or cws: it resolves the address,      *)
(* connects, lets the session run, and tries again after a while when       *)
(* anything fails, until it is stopped.  cipc has no name to resolve, and   *)
(* cws gives up when its session says that the peer is gone for good.       *)
EXTENDS Sws

DnsIdle(x) == FsmIdle(x, "DNS", x.dns)

\* nn_dns_start looks the name up before it returns.
StartResolving(x, found) ==
    IF x.dns = "IDLE"
    THEN Raise([x EXCEPT !.dns = "DONE", !.found = found, !.ep = "RESOLVING"],
               Ev("ep", "DNS", "DONE"))
    ELSE Abort(x)

DnsStop(x) ==
    IF x.dns = "IDLE" THEN x
    ELSE Raise([x EXCEPT !.dns = "IDLE"], Ev("ep", "DNS", "STOPPED"))

StartWaiting(x) == TimerStart([x EXCEPT !.ep = "WAITING"], "RECONNECT_TIMER")

\* nn_usock_start once the system has opened a socket.
UsockStart(x) ==
    IF x.usock = "IDLE" THEN [x EXCEPT !.usock = "STARTING"] ELSE Abort(x)

\* nn_usock_connect.
UsockConnect(x, r) ==
    CASE r = "done" -> UsockEvent(Execute([x EXCEPT !.usock = "ACTIVE"], "usock", "CONNECTED"),
                                  "CONNECTED")
      [] r = "again" -> Execute([x EXCEPT !.usock = "CONNECTING"], "usock", "CONNECTING")
      [] r = "reset" -> UsockEvent([x EXCEPT !.usock = "DONE"], "ERROR")

\* What may come of an attempt to connect: there is no socket to be had, it
\* cannot be bound, or the system answers the connect().
CipcStartConnecting(x) ==
    {StartWaiting(x)}
    \cup {UsockConnect([UsockStart(x) EXCEPT !.ep = "CONNECTING"], r) : r \in Result}
CtcpStartConnecting(x) ==
    CipcStartConnecting(x) \cup {StartWaiting(UsockStart(Odd(x, "bind")))}
CwsStartConnecting(x) == CtcpStartConnecting(x)

-----------------------------------------------------------------------------
\* nn_c*_shutdown, called for every event after the stop.
FinishSession(x) ==
    IF x.ep = "STOPPING_SESSION_FINAL" /\ SessionIdle(x)
    THEN UsockStop(TimerStop([x EXCEPT !.ep = "STOPPING"], "RECONNECT_TIMER"))
    ELSE x

FinishParts(x, idle) ==
    IF x.ep = "STOPPING" /\ idle /\ TimerIdle(x, "RECONNECT_TIMER") /\ UsockIdle(x)
    THEN Raise([x EXCEPT !.ep = "IDLE"], Ev("sock", "EP", "STOPPED"))
    ELSE x

CipcFinish(x) == FinishParts(FinishSession(x), TRUE)
CtcpFinish(x) ==
    LET y == IF x.ep = "STOPPING_SESSION_FINAL" /\ SessionIdle(x)
             THEN DnsStop(FinishSession(x)) ELSE x
    IN FinishParts(y, DnsIdle(y))
CwsFinish(x) == CtcpFinish(x)

EpFinish(x) ==
    CASE x.kind = "tcp" -> CtcpFinish(x)
      [] x.kind = "ipc" -> CipcFinish(x)
      [] x.kind = "ws" -> CwsFinish(x)

-----------------------------------------------------------------------------
Created(kind) ==
    [kind |-> kind, ep |-> "IDLE", dns |-> "IDLE", found |-> FALSE, peerGone |-> FALSE,
     usock |-> "IDLE", owner |-> "ep", poll |-> {},
     header |-> "IDLE", saved |-> [session |-> NULL, header |-> NULL], reads |-> 0,
     session |-> "IDLE", in |-> NULL, out |-> NULL, chunks |-> FALSE, continuing |-> FALSE,
     pipe |-> "IDLE", pipeIn |-> NULL, pipeOut |-> NULL,
     timer |-> [t \in Timer |-> "IDLE"], armed |-> {},
     tasks |-> <<>>, events |-> <<>>, odd |-> {}, aborted |-> FALSE]

CtcpCreate == \E found \in BOOLEAN : m = StartResolving(Created("tcp"), found)
CipcCreate == m \in CipcStartConnecting(Created("ipc"))
CwsCreate == \E found \in BOOLEAN : m = StartResolving(Created("ws"), found)

ConnectInit == CtcpCreate \/ CipcCreate \/ CwsCreate

Resolved ==
    /\ On("ep", "DNS", "DONE") /\ m.ep = "RESOLVING"
    /\ m' = DnsStop([Rest EXCEPT !.ep = "STOPPING_DNS"])

DnsStopped(attempts) ==
    /\ On("ep", "DNS", "STOPPED") /\ m.ep = "STOPPING_DNS"
    /\ m' \in IF m.found THEN attempts ELSE {StartWaiting(Rest)}

Connected(r) ==
    /\ On("ep", "USOCK", "CONNECTED") /\ m.ep = "CONNECTING"
    /\ m' = SessionStart([Rest EXCEPT !.ep = "ACTIVE", !.peerGone = FALSE], r)

ConnectError ==
    /\ On("ep", "USOCK", "ERROR") /\ m.ep = "CONNECTING"
    /\ m' = UsockStop([Rest EXCEPT !.ep = "STOPPING_USOCK"])

SessionFailed ==
    /\ On("ep", "SESSION", "ERROR") /\ m.ep = "ACTIVE"
    /\ m' = SessionStop([Rest EXCEPT !.ep = "STOPPING_SESSION"])

SessionClosed ==
    /\ On("ep", "SESSION", "CLOSE_HANDSHAKE") /\ m.ep = "ACTIVE"
    /\ m' = SessionStop([Rest EXCEPT !.ep = "STOPPING_SESSION", !.peerGone = TRUE])

SessionStopped ==
    /\ On("ep", "SESSION", "STOPPED") /\ m.ep = "STOPPING_SESSION"
    /\ m' = UsockStop([Rest EXCEPT !.ep = "STOPPING_USOCK"])

UsockStopped ==
    /\ m.ep = "STOPPING_USOCK"
    /\ \/ On("ep", "USOCK", "SHUTDOWN") /\ m' = Rest
       \/ On("ep", "USOCK", "STOPPED") /\ m' = IF m.peerGone THEN Rest ELSE StartWaiting(Rest)

Waited ==
    /\ On("ep", "RECONNECT_TIMER", "TIMEOUT") /\ m.ep = "WAITING"
    /\ m' = TimerStop([Rest EXCEPT !.ep = "STOPPING_BACKOFF"], "RECONNECT_TIMER")

Retry(next) ==
    /\ On("ep", "RECONNECT_TIMER", "STOPPED") /\ m.ep = "STOPPING_BACKOFF"
    /\ m' \in next

ResolveAgain == {StartResolving(Rest, found) : found \in BOOLEAN}

EpStopping ==
    /\ OnAny("ep")
    /\ m.ep \in {"STOPPING_SESSION_FINAL", "STOPPING"}
    /\ m' = EpFinish(Rest)

\* nn_shutdown or nn_close, at any moment.
ConnectStop ==
    /\ Outside
    /\ m.ep \notin {"IDLE", "STOPPING_SESSION_FINAL", "STOPPING", "FREED"}
    /\ m' = EpFinish([SessionStop(m) EXCEPT !.ep = "STOPPING_SESSION_FINAL"])

\* The socket destroys the endpoint, which asserts that its parts are idle and
\* no task of its timers is waiting; those of the usock are taken back.
Quiet(x) ==
    /\ x.usock = "IDLE" /\ x.header = "IDLE" /\ x.session = "IDLE" /\ x.dns = "IDLE"
    /\ x.pipe = "IDLE"
    /\ \A t \in Timer : x.timer[t] = "IDLE" /\ t \notin x.armed
    /\ \A i \in DOMAIN x.tasks : x.tasks[i][1] = "usock"
Destroy ==
    /\ On("sock", "EP", "STOPPED")
    /\ m' = IF Quiet(m) THEN [Rest EXCEPT !.ep = "FREED"] ELSE Abort(Rest)

-----------------------------------------------------------------------------
Connection == (\E r \in Result : Connected(r)) \/ ConnectError \/ SessionFailed \/ SessionStopped

CtcpHandle ==
    /\ m.kind = "tcp"
    /\ \/ Resolved \/ DnsStopped(CtcpStartConnecting(Rest))
       \/ Connection \/ UsockStopped \/ Waited \/ Retry(ResolveAgain)

CipcConnection == m.kind = "ipc" /\ Connection
CipcRetry ==
    /\ m.kind = "ipc"
    /\ UsockStopped \/ Waited \/ Retry(CipcStartConnecting(Rest))

CwsConnection ==
    /\ m.kind = "ws"
    /\ \/ Resolved \/ DnsStopped(CwsStartConnecting(Rest))
       \/ Connection \/ SessionClosed
CwsRetry ==
    /\ m.kind = "ws"
    /\ UsockStopped \/ Waited \/ Retry(ResolveAgain)

ConnectHandle ==
    \/ HeaderHandle \/ StcpHandle \/ SipcSetUp \/ SipcActive \/ SwsSetUp \/ SwsActive
    \/ CtcpHandle \/ CipcConnection \/ CipcRetry \/ CwsConnection \/ CwsRetry
    \/ EpStopping \/ Destroy
=============================================================================
