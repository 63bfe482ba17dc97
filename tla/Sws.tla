--------------------------------- MODULE Sws ---------------------------------
(* What a WebSocket session does differently from the other two: a request  *)
(* and a response instead of headers, messages in frames, and a connection  *)
(* that is closed by saying so.  The frames themselves are in WsFrames; here *)
(* a frame ends well, ends a message, or fails the connection.              *)
EXTENDS Stream

\* ws_handshake of a client: the response is read a few bytes at a time.
WsResponse(r) ==
    /\ On("header", "USOCK", "RECEIVED") /\ m.header = "RECEIVING"
    /\ \/ m' = TimerStop([Rest EXCEPT !.header = "STOPPING_TIMER_DONE", !.reads = 0], "TIMER")
       \/ m' = HeaderGiveUp(Rest)
       \/ m.reads < MaxReads /\ m' = UsockRecv([Rest EXCEPT !.reads = @ + 1], r)

\* nn_sws_fail_conn: the protocol loses the pipe, the peer is told why.
FailConn(x, r) ==
    LET y == PipeStop([x EXCEPT !.in = "CLOSED", !.chunks = FALSE])
    IN IF x.out = "IDLE"
       THEN UsockSend([y EXCEPT !.out = "SENDING", !.session = "CLOSING_CONNECTION"], r)
       ELSE SessionDone(y, "CLOSE_HANDSHAKE")

\* A frame may be empty, have a payload, and be the last one of its message or
\* not; one for control interrupts a message without an effect on it.
SwsHeader(r) ==
    \/ m' = FailConn(Rest, r)
    \/ m' = PipeReceived([Rest EXCEPT !.in = "HASCONTROL"])
    \/ m' = PipeReceived([Rest EXCEPT !.in = "HASMSG", !.continuing = FALSE])
    \/ m' = NextHeader([Rest EXCEPT !.continuing = TRUE], r)
    \/ m' = UsockRecv([Rest EXCEPT !.in = "CONTROL"], r)
    \/ \E final \in BOOLEAN :
          m' = UsockRecv([Rest EXCEPT !.in = "BODY", !.chunks = TRUE,
                                      !.continuing = ~final], r)

\* The payload may be ill-formed text, or that of a close frame.
SwsPayload(r) ==
    \/ m' = FailConn(Rest, r)
    \/ m.in = "CONTROL" /\ m' = PipeReceived([Rest EXCEPT !.in = "HASCONTROL"])
    \/ m.in = "BODY" /\ m' = IF m.continuing THEN NextHeader(Rest, r)
                             ELSE PipeReceived([Rest EXCEPT !.in = "HASMSG"])

SwsReceived(r) ==
    /\ On("session", "USOCK", "RECEIVED") /\ m.session = "ACTIVE"
    /\ \/ m.in = "HDR" /\ SwsHeader(r)
       \/ m.in \in {"BODY", "CONTROL"} /\ SwsPayload(r)
       \/ m.in \in {"HASMSG", "HASCONTROL"} /\ m' = Abort(Rest)

SwsClosing ==
    /\ m.session = "CLOSING_CONNECTION"
    /\ \/ On("session", "USOCK", "SENT")
          /\ m' = SessionDone([Rest EXCEPT !.out = "IDLE"], "CLOSE_HANDSHAKE")
       \/ On("session", "USOCK", "SHUTDOWN") /\ m' = Rest
       \/ On("session", "USOCK", "ERROR") /\ m' = SessionDone(Rest, "ERROR")

\* A failed opening handshake is reported as a closing one.
SwsSetUp ==
    /\ m.kind = "ws"
    /\ \/ \E r \in Result : WsResponse(r)
       \/ SessionSetUp \/ SessionHeaderError("CLOSE_HANDSHAKE")

SwsActive ==
    /\ m.kind = "ws"
    /\ \/ SessionSent \/ \E r \in Result : SwsReceived(r)
       \/ SessionEnds \/ SwsClosing
=============================================================================
