----------------------------- MODULE WsHandshake -----------------------------
(* The opening handshake of a WebSocket session (ws_handshake.c): the client *)
(* sends a request, the server checks it and replies, the client checks the  *)
(* reply.  One session is looked at; its peer is another session of the      *)
(* library, or a foreign program that may send anything.                     *)
EXTENDS Naturals, Sequences

CONSTANTS
    MaxReads,   \* further reads for which the buffer of a handshake has room
    Sockets     \* the protocols that are looked at, a subset of Protocol

\* The fields of m that matter here:
\*   mode, proto   "client" or "server"; the protocol of the local socket
\*   peer          the protocol of the peer's socket, or "foreign"
\*   session       state of sws: HANDSHAKE, ACTIVE, CLOSING_CONNECTION or DONE
\*   hs, reads     state of ws_handshake; how often it had to read on
\*   code          response_code of a server
\*   broken        the time is up or the connection broke
\*   retry         a client's session ended so that its endpoint connects again
\*   odd           history: what was met on this connection that goes wrong
VARIABLE m

Odd(x, what) == [x EXCEPT !.odd = @ \cup {what}]
Abort(x) == [x EXCEPT !.aborted = TRUE]

\* NN_WS_HANDSHAKE_SP_MAP: who may connect to a server of a protocol.
ClientOf ==
    [PAIR |-> "PAIR", REQ |-> "REP", REP |-> "REQ", PUB |-> "SUB", SUB |-> "PUB",
     SURVEYOR |-> "RESPONDENT", RESPONDENT |-> "SURVEYOR", PUSH |-> "PULL",
     PULL |-> "PUSH", BUS |-> "BUS"]
Protocol == DOMAIN ClientOf

ASSUME SocketsAssumption == Sockets \subseteq Protocol
ASSUME MaxReadsAssumption == MaxReads \in Nat

-----------------------------------------------------------------------------
(* What is said.  Of the text only what the other end looks at is kept.     *)

\* A request: whether its first line and its version are right, whether the
\* required headers are there and ask for an upgrade, the protocol it names, and
\* whether octets come after the empty line at its end.
Opening ==
    [line : BOOLEAN, required : BOOLEAN, version : BOOLEAN, upgrade : BOOLEAN,
     sp : Sockets \cup {"unknown", "none"}, rest : BOOLEAN]

\* nn_ws_handshake_client_request: it names the protocol of the server it wants.
ClientRequest(proto) ==
    [line |-> TRUE, required |-> TRUE, version |-> TRUE, upgrade |-> TRUE,
     sp |-> CHOOSE p \in Protocol : ClientOf[p] = proto, rest |-> FALSE]

\* A response: whether it has a status line and the required headers, what they
\* say, whether the response comes to an end, and what comes after it.
Response ==
    [ended : BOOLEAN, line : BOOLEAN, required : BOOLEAN, status : BOOLEAN,
     upgrade : BOOLEAN, key : BOOLEAN, rest : BOOLEAN]

\* nn_ws_handshake_server_reply: a failure has no empty line at its end.
ServerReply(code) ==
    [ended |-> code = "OK", line |-> TRUE, required |-> code = "OK",
     status |-> code = "OK", upgrade |-> code = "OK", key |-> code = "OK", rest |-> FALSE]


\* nn_ws_handshake_parse_client_opening, as the response_code it leaves; "NULL"
\* for a first line that is not understood.
ParseOpening(proto, o) ==
    CASE ~o.line -> "NULL"
      [] o.line /\ ~o.required -> "WSPROTO"
      [] o.line /\ o.required /\ ~o.version -> "WSVERSION"
      [] o.line /\ o.required /\ o.version /\ ~o.upgrade -> "WSPROTO"
      [] OTHER ->
            CASE o.sp = "unknown" -> "UNKNOWNTYPE"
              [] o.sp = "none" -> IF proto = "PAIR" THEN "OK" ELSE "NOTPEER"
              [] o.sp \in Protocol -> IF o.sp = proto THEN "OK" ELSE "NOTPEER"

\* nn_ws_handshake_parse_server_response of a response that has ended.
ParseResponse(r) ==
    CASE ~r.line -> "RECV_MORE"
      [] r.line /\ r.required /\ r.status /\ r.upgrade /\ r.key -> "VALID"
      [] OTHER -> "INVALID"

-----------------------------------------------------------------------------
(* The state machine.                                                       *)

Handshaking == m.session = "HANDSHAKE" /\ ~m.aborted

\* nn_ws_handshake_start.
Started(mode, proto, peer) ==
    [mode |-> mode, proto |-> proto, peer |-> peer, session |-> "HANDSHAKE",
     hs |-> IF mode = "client" THEN "CLIENT_SEND" ELSE "SERVER_RECV",
     reads |-> 0, code |-> "NULL", broken |-> FALSE, retry |-> FALSE,
     odd |-> {}, aborted |-> FALSE]

Reply(x, code) ==
    LET y == [x EXCEPT !.hs = "SERVER_REPLY", !.code = code]
    IN IF code = "NULL" THEN Abort(Odd(y, "line")) ELSE y

\* The bytes so far are no whole handshake.  More are read until the buffer is
\* full; one that is full to the last byte has no room for the final zero.  A
\* zero hides the empty line after it from the parser, not from the handler.
ReadOn(full) ==
    \/ m.reads < MaxReads /\ m' = [m EXCEPT !.reads = @ + 1]
    \/ m.reads >= MaxReads /\ m' \in {full, Abort(Odd(m, "full"))}
    \/ m.peer = "foreign" /\ m' = Abort(Odd(m, "zero"))

\* Octets after the empty line come with the first read, whose length is fixed;
\* every other one ends where that line may end.
Extra(rest) == rest => m.reads = 0

OpeningRead ==
    /\ Handshaking /\ m.hs = "SERVER_RECV"
    /\ \/ m.peer = "foreign" /\ ReadOn(Reply(m, "TOO_BIG"))
       \/ \E o \in IF m.peer = "foreign" THEN Opening ELSE {ClientRequest(m.peer)} :
             /\ Extra(o.rest)
             /\ m' = IF o.rest /\ o.line THEN Abort(Odd(m, "rest"))
                     ELSE Reply(m, ParseOpening(m.proto, o))

\* Whatever the reply is, the handshake of the server is done.
ReplySent ==
    /\ Handshaking /\ m.hs = "SERVER_REPLY"
    /\ m' = [m EXCEPT !.hs = "STOPPING_TIMER_DONE",
                      !.odd = @ \cup (IF m.code = "OK" THEN {} ELSE {"rejected"})]

RequestSent ==
    /\ Handshaking /\ m.hs = "CLIENT_SEND"
    /\ m' = [m EXCEPT !.hs = "CLIENT_RECV"]

\* The answer of a peer of the library is that of its ParseOpening, and nothing
\* follows it.  A status line that is not understood is taken for one not yet read.
ResponseRead ==
    /\ Handshaking /\ m.hs = "CLIENT_RECV"
    /\ m.peer = "foreign" \/ m.reads = 0
    /\ \E r \in IF m.peer = "foreign" THEN Response
                ELSE {ServerReply(ParseOpening(m.peer, ClientRequest(m.proto)))} :
          LET parsed == ParseResponse(r)
              more   == ReadOn([m EXCEPT !.hs = "STOPPING_TIMER_ERROR"])
          IN
          /\ Extra(r.rest)
          /\ CASE ~r.ended -> more
               [] r.ended /\ parsed = "RECV_MORE" ->
                     IF r.rest THEN more ELSE m' = Abort(Odd(m, "line"))
               [] r.ended /\ parsed # "RECV_MORE" /\ r.rest -> m' = Abort(Odd(m, "rest"))
               [] r.ended /\ parsed = "INVALID" /\ ~r.rest ->
                     m' = [m EXCEPT !.hs = "STOPPING_TIMER_ERROR"]
               [] r.ended /\ parsed = "VALID" /\ ~r.rest ->
                     m' = [m EXCEPT !.hs = "STOPPING_TIMER_DONE"]

\* The time is up, or the connection breaks.
HandshakeBreaks ==
    /\ Handshaking
    /\ m.hs \in {"SERVER_RECV", "SERVER_REPLY", "CLIENT_SEND", "CLIENT_RECV"}
    /\ m' = [m EXCEPT !.hs = "STOPPING_TIMER_ERROR", !.broken = TRUE]

\* nn_ws_handshake_leave with NN_WS_HANDSHAKE_ERROR, and what sws makes of it.
HandshakeFailed ==
    /\ Handshaking /\ m.hs = "STOPPING_TIMER_ERROR"
    /\ m' = [m EXCEPT !.hs = "DONE", !.session = "DONE"]

HandshakeNext ==
    OpeningRead \/ ReplySent \/ RequestSent \/ ResponseRead \/ HandshakeBreaks \/ HandshakeFailed
=============================================================================
