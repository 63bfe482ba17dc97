------------------------------- MODULE Stream -------------------------------
(* One stream connection, from the end that connects: the usock with the    *)
(* worker that polls it, the exchange of headers (streamhdr, or ws_handshake *)
(* of a client), the session (stcp, sipc or sws) and its pipe.  stcp and     *)
(* sipc are written here; what sws does differently is in Sws.               *)
EXTENDS Context

CONSTANT MaxReads  \* reads for which the response of a ws server has room

\* The fields of m:
\*   kind                    the transport: tcp, ipc or ws
\*   ep                      state of ctcp, cipc or cws
\*   dns, found, peerGone    its resolver, the result of it, and cws.peer_gone
\*   usock, owner, poll      the connection, who gets its events, and what the
\*                           poller knows: "FD" when it has the descriptor, "IN"
\*                           and "OUT" for what it is asked to wait for
\*   header, saved, reads    state of the header exchange; whom the usock was
\*                           taken from; how often the response was read
\*   session, in, out        state of the session and of its two directions
\*   chunks, continuing      whether a ws session has parts of a message, and
\*                           whether it is to be continued by another frame
\*   pipe, pipeIn, pipeOut   state of the pipe
\* and m.odd has
\*   "lost"   the connection broke while the timer of the header was stopping;
\*   "early"  a request was sent in the same session in which data arrived;
\*   "bind"   the socket could not be bound to the local address;
\*   "left"   a ws session starts with parts of a message of the last one.

-----------------------------------------------------------------------------
(* The usock.                                                                *)

UsockEvent(x, type) == Raise(x, Ev(x.owner, "USOCK", type))

AsyncStop(x) == UsockEvent(Execute(x, "usock", "STOP"), "SHUTDOWN")

\* NN_USOCK_ACTION_ERROR.
UsockError(x) ==
    CASE x.usock = "ACTIVE" -> AsyncStop([x EXCEPT !.usock = "REMOVING_FD"])
      [] x.usock \in {"REMOVING_FD", "DONE", "STOPPING"} -> x
      [] OTHER -> Abort(x)

\* nn_usock_send and nn_usock_recv.
UsockSend(x, r) ==
    CASE x.usock # "ACTIVE" \/ r = "reset" -> UsockError(x)
      [] x.usock = "ACTIVE" /\ r = "done" -> UsockEvent(x, "SENT")
      [] x.usock = "ACTIVE" /\ r = "again" -> Execute(x, "usock", "SEND")

UsockRecv(x, r) ==
    CASE x.usock # "ACTIVE" \/ r = "reset" -> UsockError(x)
      [] x.usock = "ACTIVE" /\ r = "done" -> UsockEvent(x, "RECEIVED")
      [] x.usock = "ACTIVE" /\ r = "again" -> Execute(x, "usock", "RECV")

UsockIdle(x) == FsmIdle(x, "USOCK", x.usock)

\* Faulty variant: a descriptor that is being removed already is removed again.
UsockStopTwice(x) ==
    CASE x.usock \in {"IDLE", "STOPPING"} -> x
      [] x.usock \in {"STARTING", "DONE"} ->
            UsockEvent([x EXCEPT !.usock = "IDLE"], "STOPPED")
      [] OTHER -> AsyncStop([x EXCEPT !.usock = "STOPPING"])

\* nn_usock_stop.
UsockStop(x) ==
    CASE x.usock \in {"IDLE", "STOPPING"} -> x
      [] x.usock \in {"STARTING", "DONE"} ->
            UsockEvent([x EXCEPT !.usock = "IDLE"], "STOPPED")
      [] x.usock = "REMOVING_FD" -> [x EXCEPT !.usock = "STOPPING"]
      [] x.usock \in {"CONNECTING", "ACTIVE"} ->
            AsyncStop([x EXCEPT !.usock = "STOPPING"])

\* The descriptor is taken from the poller and closed.
UsockBroken(x) ==
    UsockEvent([x EXCEPT !.poll = @ \ {"FD"}, !.usock = "DONE"], "ERROR")

\* What the worker does with the poller for a task; a descriptor that was closed
\* meanwhile is not added.
Polled(x) == IF x.usock \in {"IDLE", "DONE"} THEN {} ELSE {"FD"}

\* Faulty variant: a descriptor that is stopped stays in the poller.
UsockTaskKeepsFd(x, what) ==
    CASE what = "RECV" -> [x EXCEPT !.poll = @ \cup {"IN"}]
      [] what = "SEND" -> [x EXCEPT !.poll = @ \cup {"OUT"}]
      [] what = "CONNECTED" -> [x EXCEPT !.poll = Polled(x)]
      [] what = "CONNECTING" -> [x EXCEPT !.poll = Polled(x) \cup {"OUT"}]
      [] what = "STOP" /\ x.usock = "REMOVING_FD" -> UsockBroken(x)
      [] what = "STOP" /\ x.usock = "STOPPING" ->
            UsockEvent([x EXCEPT !.usock = "IDLE"], "STOPPED")
      [] what = "STOP" /\ x.usock = "DONE" -> x
      [] OTHER -> Abort(x)

UsockTask(x, what) ==
    CASE what = "RECV" -> [x EXCEPT !.poll = @ \cup {"IN"}]
      [] what = "SEND" -> [x EXCEPT !.poll = @ \cup {"OUT"}]
      [] what = "CONNECTED" -> [x EXCEPT !.poll = Polled(x)]
      [] what = "CONNECTING" -> [x EXCEPT !.poll = Polled(x) \cup {"OUT"}]
      [] what = "STOP" /\ x.usock = "REMOVING_FD" -> UsockBroken(x)
      [] what = "STOP" /\ x.usock = "STOPPING" ->
            UsockEvent([x EXCEPT !.poll = @ \ {"FD"}, !.usock = "IDLE"], "STOPPED")
      [] what = "STOP" /\ x.usock = "DONE" -> x
      [] OTHER -> Abort(x)

\* nn_usock_swap_owner: s takes the usock over, or gives it back.
Take(x, s) ==
    IF x.saved[s] = NULL
    THEN [x EXCEPT !.owner = s, !.saved[s] = x.owner]
    ELSE Abort(x)
GiveBack(x, s) == [x EXCEPT !.owner = x.saved[s], !.saved[s] = NULL]

-----------------------------------------------------------------------------
(* The header exchange.                                                      *)

HeaderIdle(x) == FsmIdle(x, "HEADER", x.header)

\* Faulty variant: nobody watches how long the peer takes.
HeaderStartUntimed(x, r) ==
    UsockSend(Take([x EXCEPT !.header = "SENDING", !.reads = 0], "header"), r)

HeaderStart(x, r) ==
    UsockSend(TimerStart(Take([x EXCEPT !.header = "SENDING", !.reads = 0], "header"), "TIMER"), r)

HeaderFinish(x) ==
    IF TimerIdle(x, "TIMER")
    THEN Raise([x EXCEPT !.header = "IDLE"], Ev("session", "HEADER", "STOPPED"))
    ELSE x

\* Faulty variant: it waits for a timer that has stopped already.
HeaderStopWaits(x) ==
    IF x.header \in {"IDLE", "STOPPING"} THEN x
    ELSE TimerStop([x EXCEPT !.header = "STOPPING"], "TIMER")

HeaderStop(x) ==
    IF x.header \in {"IDLE", "STOPPING"} THEN x
    ELSE HeaderFinish(TimerStop([x EXCEPT !.header = "STOPPING"], "TIMER"))

-----------------------------------------------------------------------------
(* The pipe.                                                                 *)

PipeStart(x) ==
    IF x.pipe = "IDLE"
    THEN Raise([x EXCEPT !.pipe = "ACTIVE", !.pipeIn = "ASYNC", !.pipeOut = "IDLE"],
               Ev("sock", "PIPE", "OUT"))
    ELSE Abort(x)

PipeStop(x) == [x EXCEPT !.pipe = "IDLE"]

PipeReceived(x) ==
    IF x.pipeIn = "ASYNC"
    THEN Raise([x EXCEPT !.pipeIn = "IDLE"], Ev("sock", "PIPE", "IN"))
    ELSE Abort(x)

PipeSent(x) ==
    IF x.pipeOut = "ASYNC"
    THEN Raise([x EXCEPT !.pipeOut = "IDLE"], Ev("sock", "PIPE", "OUT"))
    ELSE Abort(x)

\* The next header is read; parts of an earlier message must have been fetched.
NextHeader(x, r) ==
    IF x.chunks /\ ~x.continuing
    THEN Abort(Odd(x, "left"))
    ELSE UsockRecv([x EXCEPT !.in = "HDR"], r)

\* nn_pipe_send and nn_stcp_send, nn_pipe_recv and nn_stcp_recv.
PipeSend(x, r) ==
    IF x.pipeOut = "IDLE" /\ x.session = "ACTIVE" /\ x.out = "IDLE"
    THEN UsockSend([x EXCEPT !.pipeOut = "ASYNC", !.out = "SENDING"], r)
    ELSE Abort(x)

PipeRecv(x, r) ==
    IF x.pipeIn = "IDLE" /\ x.session = "ACTIVE" /\ x.in \in {"HASMSG", "HASCONTROL"}
    THEN NextHeader([x EXCEPT !.pipeIn = "ASYNC",
                              !.chunks = @ /\ x.in = "HASCONTROL"], r)
    ELSE Abort(x)

-----------------------------------------------------------------------------
(* The session.                                                              *)

SessionIdle(x) == FsmIdle(x, "SESSION", x.session)

SessionStart(x, r) ==
    HeaderStart(Take([x EXCEPT !.session = "PROTOHDR"], "session"), r)

\* What the next session sets before it uses it is forgotten at once.
Forget(x) == [x EXCEPT !.reads = 0, !.in = NULL, !.out = NULL, !.pipeIn = NULL, !.pipeOut = NULL]

SessionFinish(x) ==
    IF HeaderIdle(x)
    THEN Raise(GiveBack([Forget(x) EXCEPT !.session = "IDLE"], "session"),
               Ev("ep", "SESSION", "STOPPED"))
    ELSE x

SessionStop(x) ==
    IF x.session \in {"IDLE", "STOPPING"} THEN x
    ELSE SessionFinish(HeaderStop(PipeStop([x EXCEPT !.session = "STOPPING"])))

SessionDone(x, result) ==
    Raise([x EXCEPT !.session = "DONE"], Ev("ep", "SESSION", result))

-----------------------------------------------------------------------------
(* Steps.                                                                   *)

ExecuteTask ==
    /\ Outside /\ m.tasks # <<>>
    /\ LET x == [m EXCEPT !.tasks = Tail(@)]
           fsm == Head(m.tasks)[1]
           what == Head(m.tasks)[2]
       IN m' = IF fsm = "usock" THEN UsockTask(x, what) ELSE TimerTask(x, fsm, what)

\* Events of the poller are ignored while the descriptor is being removed, and
\* change nothing when the system has no data or no room after all.
FdIn ==
    /\ Outside /\ {"FD", "IN"} \subseteq m.poll
    /\ m.usock \notin {"REMOVING_FD", "STOPPING"}
    /\ \/ m.usock = "ACTIVE" /\ m' = UsockEvent([m EXCEPT !.poll = @ \ {"IN"}], "RECEIVED")
       \/ m.usock = "ACTIVE" /\ m' = UsockBroken(m)
       \/ m.usock # "ACTIVE" /\ m' = Abort(m)

FdOut ==
    /\ Outside /\ {"FD", "OUT"} \subseteq m.poll
    /\ m.usock \notin {"REMOVING_FD", "STOPPING"}
    /\ \/ m.usock = "ACTIVE" /\ m' = UsockEvent([m EXCEPT !.poll = @ \ {"OUT"}], "SENT")
       \/ /\ m.usock = "CONNECTING"
          /\ m' = UsockEvent([m EXCEPT !.poll = @ \ {"OUT"}, !.usock = "ACTIVE"], "CONNECTED")
       \/ m.usock \in {"ACTIVE", "CONNECTING"} /\ m' = UsockBroken(m)
       \/ m.usock \notin {"ACTIVE", "CONNECTING"} /\ m' = Abort(m)

\* An error or hang-up is reported whatever is polled for.
FdErr ==
    /\ Outside /\ "FD" \in m.poll
    /\ m.usock \notin {"REMOVING_FD", "STOPPING"}
    /\ m' = CASE m.header = "STOPPING_TIMER_DONE" -> UsockBroken(Odd(m, "lost"))
              [] m.header # "STOPPING_TIMER_DONE" /\ m.usock \in {"ACTIVE", "CONNECTING"} ->
                    UsockBroken(m)
              [] OTHER -> Abort(m)

\* The protocol uses the pipe in a call of the user.
UserSend(r) ==
    /\ Outside /\ m.pipe = "ACTIVE" /\ m.pipeOut = "IDLE"
    /\ m' = PipeSend(m, r)

UserRecv(r) ==
    /\ Outside /\ m.pipe = "ACTIVE" /\ m.pipeIn = "IDLE"
    /\ m' = PipeRecv(m, r)

\* The protocol is told that the pipe is ready.  REQ and SURVEYOR read at once.
\* REQ also sends at once a request that had to wait for a pipe; its peer, a
\* REP, should not have sent anything before.
SockPipeIn(r) ==
    /\ On("sock", "PIPE", "IN")
    /\ m' \in IF m.pipe = "ACTIVE" THEN {Rest, PipeRecv(Rest, r)} ELSE {Abort(Rest)}

SockPipeOut(r) ==
    /\ On("sock", "PIPE", "OUT")
    /\ \/ m' = IF m.pipe = "ACTIVE" THEN Rest ELSE Abort(Rest)
       \/ /\ m.pipe = "ACTIVE"
          /\ m' = IF \E i \in DOMAIN m.events : m.events[i].type = "RECEIVED"
                  THEN PipeSend(Odd(Rest, "early"), r)
                  ELSE PipeSend(Rest, r)

HeaderSent(r) ==
    /\ On("header", "USOCK", "SENT") /\ m.header = "SENDING"
    /\ m' = UsockRecv([Rest EXCEPT !.header = "RECEIVING"], r)

HeaderGiveUp(x) ==
    TimerStop([x EXCEPT !.header = "STOPPING_TIMER_ERROR", !.reads = 0], "TIMER")

\* The header of the peer is checked.
HeaderReceived ==
    /\ On("header", "USOCK", "RECEIVED") /\ m.header = "RECEIVING"
    /\ \/ m' = TimerStop([Rest EXCEPT !.header = "STOPPING_TIMER_DONE"], "TIMER")
       \/ m' = HeaderGiveUp(Rest)

HeaderFailed ==
    /\ m.header \in {"SENDING", "RECEIVING"}
    /\ On("header", "USOCK", "ERROR") \/ On("header", "TIMER", "TIMEOUT")
    /\ m' = HeaderGiveUp(Rest)

HeaderIgnored ==
    \/ /\ m.header \in {"SENDING", "RECEIVING"}
       /\ On("header", "USOCK", "SHUTDOWN")
       /\ m' = Rest
    \/ /\ m.header \in {"STOPPING_TIMER_ERROR", "STOPPING_TIMER_DONE"}
       /\ OnAny("header") /\ Head(m.events).src = "USOCK"
       /\ m' = Rest

HeaderTimerStopped ==
    /\ On("header", "TIMER", "STOPPED")
    /\ \/ /\ m.header = "STOPPING_TIMER_ERROR"
          /\ m' = Raise(GiveBack([Rest EXCEPT !.header = "DONE"], "header"),
                        Ev("session", "HEADER", "ERROR"))
       \/ /\ m.header = "STOPPING_TIMER_DONE"
          /\ m' = Raise(GiveBack([Rest EXCEPT !.header = "DONE"], "header"),
                        Ev("session", "HEADER", "OK"))

HeaderStopping ==
    /\ OnAny("header")
    /\ m.header = "STOPPING"
    /\ m' = HeaderFinish(Rest)

SessionHeaderOk ==
    /\ On("session", "HEADER", "OK") /\ m.session = "PROTOHDR"
    /\ m' = HeaderStop([Rest EXCEPT !.session = "STOPPING_HEADER"])

SessionHeaderError(result) ==
    /\ On("session", "HEADER", "ERROR") /\ m.session = "PROTOHDR"
    /\ m' = SessionDone(Rest, result)

\* The protocol may refuse the pipe.
SessionStartPipe(r) ==
    /\ On("session", "HEADER", "STOPPED") /\ m.session = "STOPPING_HEADER"
    /\ \/ m' = NextHeader([PipeStart(Rest) EXCEPT !.out = "IDLE", !.session = "ACTIVE"], r)
       \/ m' = SessionDone([Rest EXCEPT !.pipe = "FAILED", !.pipeIn = "ASYNC",
                                     !.pipeOut = "IDLE"], "ERROR")

SessionSent ==
    /\ On("session", "USOCK", "SENT") /\ m.session = "ACTIVE"
    /\ m' = IF m.out = "SENDING" THEN PipeSent([Rest EXCEPT !.out = "IDLE"])
                                 ELSE Abort(Rest)

\* A header announces a message that is too long, empty, or to be read.
SessionReceived(r) ==
    /\ On("session", "USOCK", "RECEIVED") /\ m.session = "ACTIVE"
    /\ \/ m.in = "HDR" /\ m' = SessionDone(Rest, "ERROR")
       \/ m.in = "HDR" /\ m' = UsockRecv([Rest EXCEPT !.in = "BODY"], r)
       \/ m.in \in {"HDR", "BODY"} /\ m' = PipeReceived([Rest EXCEPT !.in = "HASMSG"])
       \/ m.in = "HASMSG" /\ m' = Abort(Rest)

\* Faulty variant: the pipe is left to the protocol until the connection is gone.
SessionShutdownKeepsPipe ==
    /\ On("session", "USOCK", "SHUTDOWN") /\ m.session = "ACTIVE"
    /\ m' = [Rest EXCEPT !.session = "SHUTTING_DOWN"]

SessionShutdown ==
    /\ On("session", "USOCK", "SHUTDOWN") /\ m.session = "ACTIVE"
    /\ m' = PipeStop([Rest EXCEPT !.session = "SHUTTING_DOWN"])

SessionError ==
    /\ On("session", "USOCK", "ERROR")
    /\ \/ m.session = "ACTIVE" /\ m' = SessionDone(PipeStop(Rest), "ERROR")
       \/ m.session = "SHUTTING_DOWN" /\ m' = SessionDone(Rest, "ERROR")

SessionStopping ==
    /\ OnAny("session")
    /\ m.session = "STOPPING"
    /\ m' = SessionFinish(Rest)

\* What the three sessions and their header exchanges have in common.
HeaderHandle ==
    \/ \E r \in Result : SockPipeIn(r) \/ SockPipeOut(r) \/ HeaderSent(r)
    \/ HeaderFailed \/ HeaderIgnored \/ HeaderTimerStopped \/ HeaderStopping
SessionSetUp == SessionHeaderOk \/ \E r \in Result : SessionStartPipe(r)
SessionEnds == SessionShutdown \/ SessionError \/ SessionStopping

StcpHandle ==
    /\ m.kind = "tcp"
    /\ \/ HeaderReceived \/ SessionSetUp \/ SessionHeaderError("ERROR")
       \/ SessionSent \/ (\E r \in Result : SessionReceived(r))
       \/ SessionEnds

\* sipc is stcp with a byte for the type of a message, which is always the same.
SipcSetUp ==
    m.kind = "ipc" /\ (HeaderReceived \/ SessionSetUp \/ SessionHeaderError("ERROR"))
SipcActive ==
    /\ m.kind = "ipc"
    /\ SessionSent \/ (\E r \in Result : SessionReceived(r)) \/ SessionEnds

StreamEnter ==
    \/ ExecuteTask
    \/ \E t \in Timer : Timeout(t)
    \/ FdIn \/ FdOut \/ FdErr
    \/ \E r \in Result : UserSend(r) \/ UserRecv(r)
=============================================================================
