------------------------------ MODULE WsFrames ------------------------------
(* The frames of a WebSocket session (sws.c): messages in several frames,   *)
(* control frames between them, text that must be UTF-8, and connections    *)
(* failed with a close frame.  That the socket underneath may break at any  *)
(* time is in Endpoints; here it breaks between two frames.                 *)
EXTENDS WsHandshake, Integers, SequencesExt

CONSTANTS
    Octet,       \* the kinds of octets looked at, a subset of DOMAIN Lead
    MaxChunk,    \* the longest payload of a frame
    Limit,       \* NN_RCVMAXSIZE
    MaxFrames,   \* how many frames the peers send
    Memory,      \* the longest chunk that can be allocated
    Word,        \* how many values a size_t has
    Excess       \* what a length may announce beyond the payload

\* A session adds to m:
\*   out, in        outstate and instate
\*   frame          the frame whose header was read
\*   continuing     a message was begun and not ended
\*   type           opcode of inmsg_hdr, that of the message in the making
\*   array, total   inmsg_array and inmsg_total_size
\*   utf8           utf8_code_pt_fragment
\*   close          why the connection was failed
\*   frames, due    history: frames sent by the peers, and all octets of the
\*                  message in the making
\* What a client's session gathered it still has when it connects again.

\* How long the code point is that an octet leads: "a" is one by itself, "c"
\* continues one, and with "x" there is none.
Lead == [a |-> 1, L2 |-> 2, L3 |-> 3, L4 |-> 4, c |-> 0, x |-> 0]
MaxCodePoint == 4

ASSUME OctetAssumption == Octet \subseteq DOMAIN Lead
ASSUME BoundsAssumption == MaxChunk \in Nat /\ Limit \in Nat /\ MaxFrames \in Nat

\* A message that is not too long can be allocated, and it takes a length that
\* cannot be allocated to pass the end of a size_t.  Of the lengths of 64 bits a
\* size_t of 32 cuts, Word more than is there stands for all.
ASSUME WordAssumption ==
    /\ Memory \in Nat \ {0} /\ Word \in Nat
    /\ MaxChunk <= Memory /\ Limit + Memory < Word
    /\ Excess \subseteq Memory + 1 .. Word

Payload == SeqOf(Octet, MaxChunk)

\* "half" is a close frame of one octet, which is no code; "reserved" a code
\* that may not be sent.  The payload of a close frame is the reason after it.
Code == {"none", "half", "known", "reserved"}

Data == {"TEXT", "BINARY", "FRAGMENT"}

NoFrame == [fin |-> TRUE, opcode |-> "NONE", rsv |-> FALSE, masked |-> FALSE,
            long |-> FALSE, code |-> "none", payload |-> <<>>, excess |-> 0]

\* Frames without a fault in their first two octets.
FramesOf(opcode, fin, masked, code, payload, excess) ==
    [fin : fin, opcode : opcode, rsv : {FALSE}, masked : {masked}, long : {FALSE},
     code : code, payload : payload, excess : excess]

\* Every kind of frame a foreign program may send: a data frame, one whose length
\* is too much, a control frame, and one with a fault in its first two octets.
AnyFrame(masked) ==
         FramesOf(Data, BOOLEAN, masked, {"none"}, Payload, {0})
    \cup FramesOf(Data, BOOLEAN, masked, {"none"}, {<<>>}, Excess)
    \cup FramesOf(Data, BOOLEAN, masked, {"none"}, {<<"c">>}, Excess \cap {Word})
    \cup FramesOf({"PING", "PONG"}, {TRUE}, masked, {"none"}, {<<>>, <<"a">>}, {0})
    \cup FramesOf({"CLOSE"}, {TRUE}, masked, Code \ {"none"},
                  {<<>>, <<"a">>, <<"c">>, <<"L2">>}, {0})
    \cup [fin : BOOLEAN, opcode : Data \cup {"PING", "PONG", "CLOSE", "other"},
          rsv : BOOLEAN, masked : BOOLEAN, long : {FALSE}, code : {"none"},
          payload : {<<>>}, excess : {0}]
    \cup [fin : {TRUE}, opcode : {"PING", "PONG", "CLOSE"}, rsv : {FALSE}, masked : {masked},
          long : {TRUE}, code : {"none"}, payload : {<<>>}, excess : {0}]

\* nn_sws_send: one final frame, masked by a client, with all there is to send.
\* Its first octet is the user's: TEXT or BINARY by NN_WS_MSG_TYPE, anything by a
\* control header.  A message may be longer than the receiver allows.
SentFrame(mode) ==
    LET masked == mode = "client"
    IN  {f \in AnyFrame(masked) : f.fin /\ f.masked = masked /\ f.excess = 0}
        \cup FramesOf({"TEXT", "BINARY"}, {TRUE}, masked, {"none"},
                      {[i \in 1 .. Limit + 1 |-> "a"]}, {0})

-----------------------------------------------------------------------------
(* UTF-8.                                                                   *)

Invalid == -2
Fragment == -1

\* nn_utf8_code_point: what the octets begin with, as the length of a code
\* point.  That it is no fragment of one is found when all octets are there.
CodePoint(buf) ==
    IF buf = <<>> THEN Fragment
    ELSE LET n == Lead[buf[1]]
         IN CASE n = 0 -> Invalid
              [] n > Len(buf) -> Fragment
              [] n \in 1 .. Len(buf) ->
                    IF \A i \in 2 .. n : buf[i] = "c" THEN n ELSE Invalid

\* Faulty variant: a message that ends within a code point is let through.
ScanLenient(buf) ==
    LET scan[i \in 1 .. Len(buf) + 1] ==
            LET rest == SubSeq(buf, i, Len(buf))
            IN IF rest = <<>> THEN [result |-> "ok", rest |-> <<>>]
               ELSE CASE CodePoint(rest) > 0 -> scan[i + CodePoint(rest)]
                      [] CodePoint(rest) = Fragment -> [result |-> "ok", rest |-> <<>>]
                      [] CodePoint(rest) = Invalid -> [result |-> "invalid", rest |-> <<>>]
    IN scan[1]

\* The loop over a buffer: it ends with nothing left, with a fragment of a code
\* point, or with octets that are none.
Scan(buf) ==
    LET scan[i \in 1 .. Len(buf) + 1] ==
            LET rest == SubSeq(buf, i, Len(buf))
            IN IF rest = <<>> THEN [result |-> "ok", rest |-> <<>>]
               ELSE CASE CodePoint(rest) > 0 -> scan[i + CodePoint(rest)]
                      [] CodePoint(rest) = Fragment -> [result |-> "fragment", rest |-> rest]
                      [] CodePoint(rest) = Invalid -> [result |-> "invalid", rest |-> <<>>]
    IN scan[1]

-----------------------------------------------------------------------------
(* What is done with a frame.                                               *)

RecvHdr(x) ==
    LET y == [x EXCEPT !.in = "RECV_HDR", !.frame = NoFrame]
    IN CASE x.continuing -> y
         [] ~x.continuing /\ x.array = <<>> -> [y EXCEPT !.total = 0]
         [] ~x.continuing /\ x.array # <<>> -> Abort(y)

\* nn_sws_fail_conn.
FailConn(x, why) ==
    [x EXCEPT !.in = "CLOSED", !.array = <<>>, !.close = why,
              !.out = IF @ = "IDLE" THEN "SENDING" ELSE @,
              !.session = IF x.out = "IDLE" THEN "CLOSING_CONNECTION" ELSE "DONE"]

Chunked(x) == IF x.frame.fin THEN [x EXCEPT !.in = "RECVD_CHUNKED"] ELSE RecvHdr(x)

\* nn_sws_acknowledge_close_handshake.
AcknowledgeClose(x) ==
    CASE x.frame.code = "none" -> FailConn(x, "NORMAL")
      [] x.frame.code # "none" /\ Scan(x.frame.payload).result # "ok" -> FailConn(x, "PROTO")
      [] x.frame.code # "none" /\ Scan(x.frame.payload).result = "ok" ->
            FailConn(x, IF x.frame.code = "known" THEN "ECHO" ELSE "PROTO")

\* The second loop of nn_sws_validate_utf8_chunk, over what the first one left.
ValidateRest(x, buf) ==
    LET s == Scan(buf)
    IN CASE s.result = "ok" -> Chunked([x EXCEPT !.utf8 = <<>>])
         [] s.result = "invalid" -> FailConn([x EXCEPT !.utf8 = <<>>], "INVALID_FRAME")
         [] s.result = "fragment" ->
               LET y == [x EXCEPT !.utf8 = s.rest]
               IN IF x.frame.fin THEN FailConn(y, "INVALID_FRAME") ELSE RecvHdr(y)

\* nn_sws_validate_utf8_chunk, which asserts that what it kept of a code point has
\* room for an octet.  Its first loop never takes a second octet: one that leaves
\* the code point a fragment is taken for the last of the chunk.
ValidateUtf8(x) ==
    LET buf == x.frame.payload
        tried == Append(x.utf8, Head(buf))
        y == [x EXCEPT !.utf8 = tried]
        begun == x.utf8 # <<>> /\ Len(x.utf8) < MaxCodePoint
    IN CASE x.utf8 = <<>> -> ValidateRest(x, buf)
         [] Len(x.utf8) >= MaxCodePoint -> Abort(x)
         [] begun /\ CodePoint(tried) = Invalid -> FailConn(y, "INVALID_FRAME")
         [] begun /\ CodePoint(tried) = Fragment ->
               LET z == IF Len(buf) > 1 THEN Odd(y, "split") ELSE y
               IN IF x.frame.fin THEN FailConn(z, "INVALID_FRAME") ELSE RecvHdr(z)
         [] begun /\ CodePoint(tried) > 0 ->
               IF Len(tried) = MaxCodePoint THEN Abort(Odd(y, "whole"))
               ELSE ValidateRest(y, Tail(buf))

\* A frame without a payload.  That it ends a text within a code point is not
\* noticed.
Empty(x) ==
    CASE x.frame.opcode \in Data ->
            IF x.frame.fin /\ x.type = "TEXT" /\ x.utf8 # <<>>
            THEN Odd(Chunked(x), "empty") ELSE Chunked(x)
      [] x.frame.opcode \in {"PING", "PONG"} -> [x EXCEPT !.in = "RECVD_CONTROL"]
      [] x.frame.opcode = "CLOSE" -> AcknowledgeClose(x)

\* What a size_t makes of a sum or of a length of 64 bits.
Cast(n) == IF n < Word THEN n ELSE n - Word

\* The length of a frame as it is understood.
Length(f) == Cast(Len(f.payload) + f.excess)

\* A frame whose length is known: it is checked before there is room for it.
Announce(x) ==
    LET f == x.frame
        total == Cast(x.total + Length(f))
    IN CASE f.opcode \notin Data -> [x EXCEPT !.in = "RECV_PAYLOAD"]
         [] f.opcode \in Data /\ total > Limit -> FailConn([x EXCEPT !.total = total], "TOOBIG")
         [] f.opcode \in Data /\ total <= Limit /\ Length(f) > Memory -> Abort(Odd(x, "huge"))
         [] f.opcode \in Data /\ total <= Limit /\ Length(f) <= Memory ->
               [x EXCEPT !.total = total, !.array = Append(@, f.payload), !.in = "RECV_PAYLOAD"]

IsEmpty(f) == Length(f) = 0 /\ f.code = "none"

-----------------------------------------------------------------------------
(* The handler of sws in state ACTIVE.                                      *)

\* Faulty variant: a new message may begin within another one.
RefusedInterleaved(x, f) ==
    \/ f.rsv
    \/ f.masked # (x.mode = "server")
    \/ f.opcode = "FRAGMENT" /\ ~x.continuing
    \/ f.opcode \in {"PING", "PONG", "CLOSE"} /\ (f.long \/ ~f.fin)
    \/ f.opcode = "CLOSE" /\ f.code = "half"
    \/ f.opcode = "other"

\* The first two octets of a frame fail the connection.
Refused(x, f) ==
    \/ f.rsv
    \/ f.masked # (x.mode = "server")
    \/ f.opcode = "FRAGMENT" /\ ~x.continuing
    \/ f.opcode \in {"TEXT", "BINARY"} /\ x.continuing
    \/ f.opcode \in {"PING", "PONG", "CLOSE"} /\ (f.long \/ ~f.fin)
    \/ f.opcode = "CLOSE" /\ f.code = "half"
    \/ f.opcode = "other"

\* Faulty variant: a control frame is taken for the end of a message.
AcceptedControl(x, f) ==
    [x EXCEPT !.frame = f,
              !.type = IF x.continuing THEN @ ELSE f.opcode,
              !.continuing = ~f.fin]

\* What is remembered of the first two octets.
Accepted(x, f) ==
    [x EXCEPT !.frame = f,
              !.type = IF x.continuing THEN @ ELSE f.opcode,
              !.continuing = IF f.opcode \in Data THEN ~f.fin ELSE @]

\* What the peer means to send with a frame; no octet of the excess is looked at.
Said(f) == f.payload \o [i \in 1 .. f.excess |-> "x"]

\* History: what the peer means to say, whether its length is understood, and
\* whether a socket of the library sent something that is no message.
Noted(x, f) ==
    LET before == IF f.opcode = "FRAGMENT" THEN x.due ELSE <<>>
        told == (IF f.excess = Word THEN {"cut"} ELSE {})
                \cup IF x.peer # "foreign" /\ (f.rsv \/ f.opcode \notin {"TEXT", "BINARY"})
                     THEN {"raw"} ELSE {}
    IN [x EXCEPT !.frames = @ + 1, !.odd = @ \cup told,
                 !.due = IF f.opcode \in Data THEN before \o Said(f) ELSE @]

\* The rest of a header is read when there is a mask or a longer length.
HdrRead ==
    /\ m.session = "ACTIVE" /\ ~m.aborted /\ m.in = "RECV_HDR" /\ m.frames < MaxFrames
    /\ \E f \in IF m.peer = "foreign" THEN AnyFrame(m.mode = "server")
                ELSE SentFrame(IF m.mode = "server" THEN "client" ELSE "server") :
          LET x == Accepted(Noted(m, f), f)
          IN m' = CASE Refused(m, f) -> FailConn(Noted(m, f), "PROTO")
                    [] ~Refused(m, f) /\ m.mode = "server" -> [x EXCEPT !.in = "RECV_HDREXT"]
                    [] ~Refused(m, f) /\ m.mode = "client" ->
                          IF IsEmpty(f) THEN Empty(x) ELSE Announce(x)

HdrExtRead ==
    /\ m.session = "ACTIVE" /\ ~m.aborted /\ m.in = "RECV_HDREXT"
    /\ m' = IF IsEmpty(m.frame) THEN Empty(m) ELSE Announce(m)

PayloadRead ==
    /\ m.session = "ACTIVE" /\ ~m.aborted /\ m.in = "RECV_PAYLOAD"
    /\ m' = CASE m.frame.opcode \in Data ->
                   IF m.type = "TEXT" THEN ValidateUtf8(m) ELSE Chunked(m)
              [] m.frame.opcode \in {"PING", "PONG"} -> [m EXCEPT !.in = "RECVD_CONTROL"]
              [] m.frame.opcode = "CLOSE" -> AcknowledgeClose(m)

-----------------------------------------------------------------------------
(* The session and the protocol above it.                                   *)

\* The handshake was stopped; the protocol may refuse the pipe.
StartSession ==
    /\ Handshaking /\ m.hs = "STOPPING_TIMER_DONE"
    /\ \/ m' = [m EXCEPT !.hs = "DONE", !.session = "DONE", !.broken = TRUE, !.retry = TRUE]
       \/ m' = RecvHdr([m EXCEPT !.hs = "DONE", !.reads = 0, !.code = "NULL",
                                 !.session = "ACTIVE", !.out = "IDLE"])

\* nn_sws_recv of a message and of a control frame.
Recv ==
    /\ m.session = "ACTIVE" /\ ~m.aborted
    /\ \/ /\ m.in = "RECVD_CHUNKED"
          /\ m' = IF m.frame.fin /\ m.type \in {"TEXT", "BINARY"}
                     /\ Len(FlattenSeq(m.array)) = m.total
                  THEN RecvHdr([m EXCEPT !.array = <<>>, !.continuing = FALSE])
                  ELSE Abort(m)
       \/ m.in = "RECVD_CONTROL" /\ m' = RecvHdr(m)

Send ==
    /\ m.session = "ACTIVE" /\ ~m.aborted /\ m.out = "IDLE"
    /\ m' = [m EXCEPT !.out = "SENDING"]

\* NN_USOCK_SENT: of a message, or of the close frame.
Sent ==
    /\ m.session \in {"ACTIVE", "CLOSING_CONNECTION"} /\ ~m.aborted /\ m.out = "SENDING"
    /\ m' = [m EXCEPT !.out = "IDLE",
                      !.session = IF @ = "ACTIVE" THEN @ ELSE "DONE"]

\* NN_USOCK_ERROR, at once or after NN_USOCK_SHUTDOWN.
Broken ==
    /\ m.session \in {"ACTIVE", "CLOSING_CONNECTION"} /\ ~m.aborted
    /\ m' = [m EXCEPT !.session = "DONE", !.broken = TRUE, !.retry = TRUE]

\* A record with the fields of two.
Joined(x, y) ==
    [k \in DOMAIN x \cup DOMAIN y |-> IF k \in DOMAIN x THEN x[k] ELSE y[k]]

\* The peers there may be.
Peer == Sockets \cup {"foreign"}

Init ==
    \E mode \in {"client", "server"}, proto \in Sockets, peer \in Peer :
       m = Joined(Started(mode, proto, peer),
                  [out |-> "NULL", in |-> "NULL", frame |-> NoFrame, continuing |-> FALSE,
                   type |-> "NONE", array |-> <<>>, total |-> 0, utf8 |-> <<>>,
                   close |-> "NO", frames |-> 0, due |-> <<>>])

\* A connection broke within a message, or within a code point.
LeftOver(x) == x.continuing \/ x.array # <<>> \/ x.utf8 # <<>>

\* The endpoint of a client connects again, to whoever is there by now.  Its session
\* is the same one: nn_sws_start resets nothing of what was received.  What the
\* new connection overwrites before it is read is put back here.
Reconnect ==
    /\ m.session = "DONE" /\ m.mode = "client" /\ m.retry /\ ~m.aborted
    /\ m.frames < MaxFrames
    /\ \E peer \in Peer :
          m' = [Joined(Started("client", m.proto, peer), m)
                  EXCEPT !.odd = IF LeftOver(m) THEN {"left"} ELSE {},
                         !.type = IF m.continuing THEN @ ELSE "NONE",
                         !.total = IF m.continuing THEN @ ELSE 0,
                         !.out = "NULL", !.in = "NULL",
                         !.frame = NoFrame, !.close = "NO", !.due = <<>>]

Next ==
    \/ HandshakeNext \/ StartSession
    \/ HdrRead \/ HdrExtRead \/ PayloadRead
    \/ Recv \/ Send \/ Sent \/ Broken
    \/ Reconnect

\* The peer answers within the handshake: what it sends arrives or the time is
\* up.  What is sent leaves, or the connection breaks.
Spec ==
    /\ Init /\ [][Next]_m
    /\ WF_m(HandshakeNext) /\ WF_m(StartSession) /\ WF_m(Sent)

-----------------------------------------------------------------------------
(* Properties.                                                              *)

\* UTF-8 as it is defined: an octet continues a code point exactly when one
\* close enough before it leads a code point that long.
WellFormed(s) ==
    /\ \A i \in DOMAIN s :
          (s[i] = "c") <=> (\E j \in 1 .. i - 1 : i - j < Lead[s[j]])
    /\ \A i \in DOMAIN s : s[i] # "c" => Lead[s[i]] > 0 /\ i + Lead[s[i]] - 1 <= Len(s)

\* Octets with which a well-formed text can go on.
Beginning(s) == \E n \in 0 .. MaxCodePoint - 1 : WellFormed(s \o [i \in 1 .. n |-> "c"])

TypeOK ==
    /\ m.session \in {"HANDSHAKE", "ACTIVE", "CLOSING_CONNECTION", "DONE"}
    /\ m.in \in {"NULL", "RECV_HDR", "RECV_HDREXT", "RECV_PAYLOAD", "RECVD_CHUNKED",
                 "RECVD_CONTROL", "CLOSED"}
    /\ m.out \in {"NULL", "IDLE", "SENDING"}
    /\ m.close \in {"NO", "NORMAL", "ECHO", "PROTO", "INVALID_FRAME", "TOOBIG"}
    /\ m.total \in Nat /\ Len(m.utf8) <= MaxCodePoint
    /\ m.odd \subseteq {"line", "full", "zero", "rest", "rejected", "split", "whole",
                        "empty", "huge", "cut", "raw", "left"}

\* Whatever a peer sends, no assertion fails but those that are known: in the
\* handshake for a first line that is not understood ("line"), a full buffer
\* ("full"), a zero before the end ("zero") and octets after it ("rest"); later
\* for a code point of four octets that is completed by another frame ("whole"),
\* a length that passes the end of a size_t ("huge"), and in a session that
\* starts with what another connection left ("left").
NeverAborts ==
    m.aborted => m.odd \cap {"line", "full", "zero", "rest", "whole", "huge", "left"} # {}

\* A message is handed over with all octets its frames brought, in their order
\* and no others, whatever control frames came between them, and none is longer
\* than the user allows (sws.c, inmsg_array and inmsg_total_size); but for what
\* another connection left, and where the length of a frame was cut to 32 bits.
Reassembled ==
    /\ TypeOK
    /\ m.odd \cap {"left", "cut"} = {} =>
          /\ m.session = "ACTIVE" => m.total <= Limit
          /\ m.session = "ACTIVE" /\ m.in = "RECVD_CHUNKED" => FlattenSeq(m.array) = m.due

\* A text is handed over only when it is UTF-8 (nn_sws_validate_utf8_chunk), and
\* a connection is failed for it only when no UTF-8 begins or goes on that way:
\* but for a code point that goes on over three frames or is cut by an empty one,
\* for what another connection left, and for a frame that was cut.
TextChecked ==
    m.odd \cap {"split", "empty", "left", "cut"} = {} =>
        /\ m.session = "ACTIVE" /\ m.in = "RECVD_CHUNKED" /\ m.type = "TEXT"
              => WellFormed(m.due)
        /\ m.close = "INVALID_FRAME" /\ m.frame.fin => ~WellFormed(m.due)
        /\ m.close = "INVALID_FRAME" /\ ~m.frame.fin => ~Beginning(m.due)

Compatible(proto, peer) == ClientOf[proto] = peer

\* Two sockets of the library, and nothing left by another connection.
OwnPeers == m.peer # "foreign" /\ "left" \notin m.odd

\* What holds of them: no assertion fails; an end fails the connection only for a
\* message that is too long for it, a text that is no UTF-8, or what a user sent
\* by hand instead of a message; and when they do not belong together only a
\* server that does not know it has rejected the client gets to talk
\* (ws_handshake.c, nn_sws_send against the checks of the handler).
OwnPeersSafe ==
    /\ ~m.aborted
    /\ m.close = "TOOBIG" => Len(m.due) > Limit
    /\ m.close = "INVALID_FRAME" => ~WellFormed(m.due)
    /\ m.close \in {"PROTO", "NORMAL", "ECHO"} => "raw" \in m.odd
    /\ m.session = "ACTIVE" /\ ~Compatible(m.proto, m.peer) => "rejected" \in m.odd


=============================================================================
