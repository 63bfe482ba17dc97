--------------------------- MODULE SockLife_proofs ---------------------------
(* The life of sockets, for any number of threads, sockets, descriptors and  *)
(* endpoints: holds are counted, a socket is freed once and only when nobody *)
(* is inside, descriptors are given out when they are free, no assertion     *)
(* fails, no receiver is left asleep; and the socket table implements        *)
(* Handles.                                                                  *)
EXTENDS SockLife, FiniteSetTheorems, TLAPS

Stopping == {"STOPPING_EPS", "STOPPING", "FINI"}
Inside == {"held", "waiting", "woken", "rele"}
Closing == {"termwait", "relewait", "free"}

\* Used descriptors are counted, and no socket has two.
Used == {f \in Fd : socks[f] # NULL}

Table ==
    /\ nsocks = Cardinality(Used)
    /\ up <=> nsocks > 0
    /\ \A f, g \in Fd : socks[f] # NULL /\ socks[f] = socks[g] => f = g
    /\ UnusedSound

\* Where a thread is tells what it is doing, and what state its socket is in.
ThreadAt(t) ==
    /\ pc[t] = "idle" <=> sockp[t] = NULL
    /\ pc[t] = "idle" <=> op[t] = "none"
    /\ pc[t] \in Closing <=> op[t] = "close"
    /\ pc[t] \in {"waiting", "woken"} => op[t] = "recv"
    /\ pc[t] \in Inside =>
          sstate[sockp[t]] \in {"ACTIVE"} \cup Stopping
    /\ pc[t] \in Closing =>
          /\ sstate[sockp[t]] \in Stopping
          /\ socks[fd[t]] = sockp[t] /\ term[t] \in {-1, fd[t]}
    /\ pc[t] \in {"relewait", "free"} => sstate[sockp[t]] = "FINI"
    /\ pc[t] = "free" => holds[sockp[t]] = 0

\* A socket that stops has one thread that frees it, which the semaphores let go
\* on when the socket is finished and when nobody holds it any more.
ClosedOnce(k) ==
    /\ sstate[k] \in Stopping => Closers(k) # {}
    /\ \A t, u \in Closers(k) : t = u
    /\ termsem[k] > 0 => sstate[k] \in {"FINI", "FREED"}
    /\ relesem[k] > 0 => holds[k] = 0 /\ sstate[k] \in Stopping \cup {"FREED"}

\* Endpoints are gone when a socket is finished, if none came late, and always
\* when it does not exist.
EpsAt(k) ==
    /\ eid[k] > 0
    /\ sstate[k] \in {"NONE", "FREED"} => eps[k] = {} /\ sdeps[k] = {}
    /\ sstate[k] # "ACTIVE" /\ k \notin late => eps[k] = {}
    /\ sstate[k] \notin {"ACTIVE", "STOPPING_EPS"} /\ k \notin late => sdeps[k] = {}

\* Who is about to free a socket found its lists empty.
Emptied(t) ==
    pc[t] = "free" /\ ~aborted => eps[sockp[t]] = {} /\ sdeps[sockp[t]] = {}

HeldAt(k) ==
    /\ sstate[k] \in {"ACTIVE"} \cup Stopping <=> \E f \in Fd : socks[f] = k
    /\ holds[k] = Cardinality(Holders(k)) + (IF sstate[k] = "ACTIVE" THEN 1 ELSE 0)

\* A socket begins without messages.
RcvfdAt(k) ==
    /\ sstate[k] \in {"NONE", "ACTIVE"} =>
          (rcvfd[k] <=> msgs[k] > 0) /\ (inflag[k] <=> msgs[k] > 0)
    /\ sstate[k] = "NONE" => msgs[k] = 0
    /\ sstate[k] \in Stopping => rcvfd[k]

IInv ==
    /\ TypeOK /\ Table
    /\ aborted => \E k \in late : sstate[k] \in Stopping
    /\ \A t \in Thread : ThreadAt(t) /\ Emptied(t)
    /\ \A k \in Sock : ClosedOnce(k) /\ EpsAt(k) /\ HeldAt(k) /\ RcvfdAt(k)

-----------------------------------------------------------------------------
(* What steps have in common.                                               *)

\* Sets of threads and descriptors can be counted.
LEMMA Finite ==
    /\ \A k : IsFiniteSet(Holders(k)) /\ Cardinality(Holders(k)) \in Nat
    /\ IsFiniteSet(Used) /\ Cardinality(Used) \in Nat
<1>1. \A k : Holders(k) \subseteq Thread
  BY DEF Holders
<1>2. Used \subseteq Fd /\ IsFiniteSet(Fd)
  BY FS_Interval, SockLifeAssumption DEF Used, Fd
<1>3. QED
  BY <1>1, <1>2, FS_Subset, FS_CardinalityType, SockLifeAssumption

\* The table is as it was when nothing of it changes.
LEMMA SameTable ==
    ASSUME IInv, UNCHANGED globalvars
    PROVE  Table'
  BY DEF IInv, Table, UnusedSound, Used, globalvars

\* A thread goes on inside the socket it holds.
LEMMA StaysInside ==
    ASSUME IInv, NEW t \in Thread, pc[t] \in Inside, NEW label \in Inside,
           label \in {"waiting", "woken"} => op[t] = "recv",
           pc' = [pc EXCEPT ![t] = label],
           UNCHANGED <<globalvars, sstate, holds, termsem, relesem, op, sockp, fd, term>>
    PROVE  /\ Table'
           /\ \A u \in Thread : ThreadAt(u)'
           /\ \A k \in Sock : ClosedOnce(k)' /\ HeldAt(k)'
<1>1. /\ pc \in [Thread -> {"idle", "held", "waiting", "woken", "rele",
                            "termwait", "relewait", "free"}]
      /\ \A u \in Thread : pc'[u] = IF u = t THEN label ELSE pc[u]
  BY DEF IInv, TypeOK
<1>2. UNCHANGED socks
  BY DEF globalvars
<1>3. \A u \in Thread : ThreadAt(u)'
  BY <1>1, <1>2 DEF IInv, ThreadAt, Inside, Closing
<1>4. \A k \in Sock : Holders(k)' = Holders(k) /\ Closers(k)' = Closers(k)
  BY <1>1 DEF Holders, Closers, Inside
<1>5. \A k \in Sock : ClosedOnce(k)' /\ HeldAt(k)'
  BY <1>2, <1>4 DEF IInv, ClosedOnce, HeldAt
<1>6. QED
  BY <1>3, <1>5, SameTable

\* No thread moves.
LEMMA NoThreadMoves ==
    ASSUME IInv, UNCHANGED <<globalvars, sstate, holds, termsem, relesem, threadvars>>
    PROVE  /\ Table'
           /\ \A u \in Thread : ThreadAt(u)'
           /\ \A k \in Sock : ClosedOnce(k)' /\ HeldAt(k)'
<1>1. UNCHANGED <<socks, pc, op, sockp, fd, term>>
  BY DEF globalvars, threadvars
<1>2. \A u \in Thread : ThreadAt(u)'
  BY <1>1 DEF IInv, ThreadAt
<1>3. \A k \in Sock : Holders(k)' = Holders(k) /\ Closers(k)' = Closers(k)
  BY <1>1 DEF Holders, Closers
<1>4. \A k \in Sock : ClosedOnce(k)' /\ HeldAt(k)'
  BY <1>1, <1>3 DEF IInv, ClosedOnce, HeldAt
<1>5. QED
  BY <1>2, <1>4, SameTable

\* Whoever frees a socket is alone with it.
LEMMA Alone ==
    ASSUME IInv, aborted = FALSE, NEW t \in Thread, pc[t] = "free"
    PROVE  /\ sockp[t] \in Sock /\ sstate[sockp[t]] = "FINI" /\ holds[sockp[t]] = 0
           /\ socks[fd[t]] = sockp[t] /\ fd[t] \in Fd
           /\ Holders(sockp[t]) = {} /\ Closers(sockp[t]) = {t}
           /\ \A u \in Thread : sockp[u] = sockp[t] => u = t
           /\ eps[sockp[t]] = {} /\ sdeps[sockp[t]] = {}
<1>0. PICK k : k = sockp[t]
  OBVIOUS
<1>1. /\ k \in Sock /\ sstate[k] = "FINI" /\ holds[k] = 0
      /\ socks[fd[t]] = k /\ fd[t] \in Fd
  BY <1>0 DEF IInv, TypeOK, ThreadAt, Closing
<1>2. Holders(k) = {}
  <2>1. Cardinality(Holders(k)) = 0
    BY <1>1, Finite DEF IInv, HeldAt
  <2>2. QED
    BY <2>1, Finite, FS_EmptySet
<1>3. t \in Closers(k)
  BY <1>0 DEF Closers
<1>4. Closers(k) = {t}
  BY <1>1, <1>3 DEF IInv, ClosedOnce
<1>5. \A u \in Thread : sockp[u] = k => u = t
  <2>1. ASSUME NEW u \in Thread, sockp[u] = k
        PROVE  u \in Holders(k) \cup Closers(k)
    <3>1. pc[u] # "idle"
      BY <1>1, <2>1, SockLifeAssumption DEF IInv, ThreadAt
    <3>2. QED
      BY <2>1, <3>1 DEF IInv, TypeOK, Holders, Closers
  <2>2. QED
    BY <1>2, <1>4, <2>1
<1>6. eps[k] = {} /\ sdeps[k] = {}
  BY <1>0 DEF IInv, Emptied
<1>7. QED
  BY <1>0, <1>1, <1>2, <1>4, <1>5, <1>6

\* Nobody gets ready to free a socket, and empty lists stay empty.
LEMMA StaysEmpty ==
    ASSUME IInv, aborted = FALSE,
           \A u \in Thread : pc'[u] = "free" => pc[u] = "free" /\ sockp'[u] = sockp[u],
           \A x \in Sock : eps[x] = {} /\ sdeps[x] = {} => eps'[x] = {} /\ sdeps'[x] = {}
    PROVE  \A u \in Thread : Emptied(u)'
<1> SUFFICES ASSUME NEW u \in Thread, pc'[u] = "free"
             PROVE  eps'[sockp'[u]] = {} /\ sdeps'[sockp'[u]] = {}
  BY DEF Emptied
<1>1. pc[u] = "free" /\ sockp'[u] = sockp[u]
  OBVIOUS
<1>2. sockp[u] \in Sock /\ eps[sockp[u]] = {} /\ sdeps[sockp[u]] = {}
  BY <1>1, Alone
<1>3. QED
  BY <1>1, <1>2

-----------------------------------------------------------------------------
(* Calls that hold a socket.                                                *)

\* nn_sock_add_ep: in a socket that is open, or late.
LEMMA AddEpKeeps ==
    ASSUME IInv, aborted = FALSE, NEW t \in Thread, AddEp(t)
    PROVE  IInv'
<1> DEFINE k == sockp[t]
<1>1. /\ pc[t] = "held" /\ op[t] = "add_ep" /\ pc' = [pc EXCEPT ![t] = "rele"]
      /\ UNCHANGED <<globalvars, sstate, holds, termsem, relesem, sdeps, recvvars,
                     op, sockp, fd, term, aborted>>
  BY DEF AddEp, Goto
<1>2. k \in Sock /\ sstate[k] \in {"ACTIVE"} \cup Stopping /\ t \in Holders(k)
  BY <1>1 DEF IInv, TypeOK, ThreadAt, Inside, Holders
<1>3. \/ /\ eid[k] <= MaxEp /\ eps' = [eps EXCEPT ![k] = @ \cup {eid[k]}]
         /\ eid' = [eid EXCEPT ![k] = @ + 1]
         /\ late' = IF sstate[k] = "ACTIVE" THEN late ELSE late \cup {k}
      \/ UNCHANGED <<eps, eid, late>>
  BY DEF AddEp
<1> HIDE DEF k
<1>4. eps' \in [Sock -> SUBSET EpId] /\ eid' \in [Sock -> Nat]
  <2>1. /\ eps \in [Sock -> SUBSET EpId] /\ eid \in [Sock -> Nat]
        /\ eid[k] \in Nat /\ eid[k] > 0
    BY <1>2 DEF IInv, TypeOK, EpsAt
  <2>2. eid[k] <= MaxEp => eid[k] \in EpId
    BY <2>1, SockLifeAssumption DEF EpId
  <2>3. QED
    BY <1>2, <1>3, <2>1, <2>2
<1>5. TypeOK' /\ aborted' = FALSE
  <2>1. late' \in SUBSET Sock
    BY <1>2, <1>3 DEF IInv, TypeOK
  <2>2. QED
    BY <1>1, <1>4, <2>1 DEF IInv, TypeOK, globalvars, recvvars
<1>6. \A x \in Sock : EpsAt(x)' /\ RcvfdAt(x)'
  BY <1>1, <1>2, <1>3 DEF IInv, TypeOK, EpsAt, RcvfdAt, recvvars, Stopping
<1>7. \A u \in Thread : Emptied(u)'
  <2> SUFFICES ASSUME NEW u \in Thread, pc'[u] = "free"
               PROVE  eps'[sockp[u]] = {} /\ sdeps'[sockp[u]] = {}
    BY <1>1 DEF Emptied
  <2>1. pc[u] = "free"
    BY <1>1 DEF IInv, TypeOK
  <2>2. /\ sockp[u] \in Sock /\ Holders(sockp[u]) = {}
        /\ eps[sockp[u]] = {} /\ sdeps[sockp[u]] = {}
    BY <2>1, Alone
  <2>3. sockp[u] # k
    BY <1>2, <2>2
  <2>4. QED
    BY <1>1, <1>3, <2>2, <2>3 DEF IInv, TypeOK
<1>8. QED
  BY <1>1, <1>5, <1>6, <1>7, StaysInside DEF IInv, Inside

\* nn_sock_rm_ep.
LEMMA RmEpKeeps ==
    ASSUME IInv, aborted = FALSE, NEW t \in Thread, RmEp(t)
    PROVE  IInv'
<1> DEFINE k == sockp[t]
<1>1. /\ pc[t] = "held" /\ op[t] = "rm_ep" /\ pc' = [pc EXCEPT ![t] = "rele"]
      /\ UNCHANGED <<globalvars, sstate, holds, termsem, relesem, eid, late, recvvars,
                     op, sockp, fd, term, aborted>>
  BY DEF RmEp, Goto
<1>2. k \in Sock
  BY <1>1 DEF IInv, TypeOK, ThreadAt
<1>3. \/ \E e \in eps[k] : /\ eps' = [eps EXCEPT ![k] = @ \ {e}]
                           /\ sdeps' = [sdeps EXCEPT ![k] = @ \cup {e}]
      \/ UNCHANGED <<eps, sdeps>>
  BY DEF RmEp
<1> HIDE DEF k
<1>4. TypeOK' /\ aborted' = FALSE
  BY <1>1, <1>2, <1>3 DEF IInv, TypeOK, globalvars, recvvars
<1>5. \A x \in Sock : EpsAt(x)' /\ RcvfdAt(x)'
  BY <1>1, <1>2, <1>3 DEF IInv, TypeOK, EpsAt, RcvfdAt, recvvars
<1>6. \A u \in Thread : Emptied(u)'
  BY <1>1, <1>2, <1>3, StaysEmpty DEF IInv, TypeOK, epvars
<1>7. QED
  BY <1>1, <1>4, <1>5, <1>6, StaysInside DEF IInv, Inside

\* nn_efd_wait, whatever ends it.
LEMMA WokenKeeps ==
    ASSUME IInv, aborted = FALSE, NEW t \in Thread, Wake(t) \/ GiveUp(t)
    PROVE  IInv'
<1>1. PICK label \in {"woken", "rele"} :
         /\ pc[t] = "waiting" /\ pc' = [pc EXCEPT ![t] = label]
  BY DEF Wake, GiveUp, Goto
<1>2. UNCHANGED <<globalvars, sstate, holds, termsem, relesem, epvars, recvvars,
                  op, sockp, fd, term, aborted>>
  BY DEF Wake, GiveUp
<1>3. TypeOK' /\ aborted' = FALSE
  BY <1>1, <1>2 DEF IInv, TypeOK, globalvars, recvvars, epvars
<1>4. \A x \in Sock : EpsAt(x)' /\ RcvfdAt(x)'
  BY <1>2 DEF IInv, EpsAt, RcvfdAt, recvvars, epvars
<1>5. op[t] = "recv"
  BY <1>1 DEF IInv, ThreadAt
<1>6. \A u \in Thread : Emptied(u)'
  BY <1>1, <1>2, StaysEmpty DEF IInv, TypeOK, epvars
<1>7. QED
  BY <1>1, <1>2, <1>3, <1>4, <1>5, <1>6, StaysInside DEF IInv, Inside

-----------------------------------------------------------------------------
(* Messages.                                                                *)

\* nn_sock_onleave keeps the flag, the descriptor and the messages in step.
LEMMA OnLeaveFacts ==
    ASSUME IInv, aborted = FALSE, NEW k \in Sock, NEW n \in 0 .. MaxMsg, OnLeave(k, n), sstate[k] # "NONE",
           UNCHANGED sstate
    PROVE  /\ msgs' \in [Sock -> 0 .. MaxMsg]
           /\ inflag' \in [Sock -> BOOLEAN] /\ rcvfd' \in [Sock -> BOOLEAN]
           /\ aborted' = FALSE
           /\ \A x \in Sock : RcvfdAt(x)'
<1>1. /\ msgs' = [msgs EXCEPT ![k] = n]
      /\ msgs \in [Sock -> 0 .. MaxMsg] /\ inflag \in [Sock -> BOOLEAN]
      /\ rcvfd \in [Sock -> BOOLEAN]
  BY DEF OnLeave, IInv, TypeOK
<1>2. CASE sstate[k] # "ACTIVE"
  <2>1. UNCHANGED <<inflag, rcvfd, aborted>>
    BY <1>2 DEF OnLeave
  <2>2. QED
    BY <1>1, <1>2, <2>1 DEF IInv, RcvfdAt, Stopping
<1>3. CASE sstate[k] = "ACTIVE"
  <2>1. /\ inflag' = [inflag EXCEPT ![k] = n > 0]
        /\ rcvfd' = [rcvfd EXCEPT ![k] = IF n > 0 /\ ~inflag[k] THEN TRUE
                                         ELSE IF n = 0 /\ inflag[k] THEN FALSE
                                         ELSE @]
        /\ aborted' = (n = 0 /\ inflag[k] /\ ~rcvfd[k])
    BY <1>3 DEF OnLeave, Signal
  <2>2. inflag[k] <=> rcvfd[k]
    BY <1>3 DEF IInv, RcvfdAt
  <2>3. (n = 0 /\ inflag[k] /\ ~rcvfd[k]) = FALSE
    BY <2>2
  <2>4. aborted' = FALSE
    BY <2>1, <2>3
  <2>5. \E v \in BOOLEAN : /\ v <=> n > 0
                           /\ inflag' = [inflag EXCEPT ![k] = v]
                           /\ rcvfd' = [rcvfd EXCEPT ![k] = v]
    <3>1. rcvfd[k] \in BOOLEAN /\ inflag[k] \in BOOLEAN
      BY <1>1
    <3>2. CASE n > 0
      <4>1. (n > 0) = TRUE /\ n # 0
        BY <3>2
      <4>2. (IF n > 0 /\ ~inflag[k] THEN TRUE
             ELSE IF n = 0 /\ inflag[k] THEN FALSE ELSE rcvfd[k]) = TRUE
        BY <2>2, <3>1, <4>1
      <4>3. inflag' = [inflag EXCEPT ![k] = TRUE] /\ rcvfd' = [rcvfd EXCEPT ![k] = TRUE]
        BY <2>1, <4>1, <4>2
      <4>4. QED
        BY <3>2, <4>3
    <3>3. CASE n = 0
      <4>1. (n > 0) = FALSE
        BY <3>3
      <4>2. (IF n > 0 /\ ~inflag[k] THEN TRUE
             ELSE IF n = 0 /\ inflag[k] THEN FALSE ELSE rcvfd[k]) = FALSE
        BY <2>2, <3>1, <3>3, <4>1
      <4>3. inflag' = [inflag EXCEPT ![k] = FALSE] /\ rcvfd' = [rcvfd EXCEPT ![k] = FALSE]
        BY <2>1, <4>1, <4>2
      <4>4. QED
        BY <4>1, <4>3
    <3>4. QED
      BY <3>2, <3>3
  <2>6. /\ inflag' \in [Sock -> BOOLEAN] /\ rcvfd' \in [Sock -> BOOLEAN]
        /\ (rcvfd'[k] <=> n > 0) /\ (inflag'[k] <=> n > 0)
        /\ \A x \in Sock : x # k => rcvfd'[x] = rcvfd[x] /\ inflag'[x] = inflag[x]
    BY <1>1, <2>5
  <2>7. \A x \in Sock : RcvfdAt(x)'
    BY <1>1, <1>3, <2>6 DEF IInv, RcvfdAt, Stopping
  <2>8. QED
    BY <1>1, <2>4, <2>6, <2>7
<1>4. QED
  BY <1>2, <1>3

\* One round of nn_sock_recv.
LEMMA RecvKeeps ==
    ASSUME IInv, aborted = FALSE, NEW t \in Thread, Recv(t)
    PROVE  IInv'
<1> DEFINE k == sockp[t]
<1>1. /\ pc[t] \in {"held", "woken"} /\ op[t] = "recv"
      /\ UNCHANGED <<globalvars, sstate, holds, termsem, relesem, epvars,
                     op, sockp, fd, term>>
  BY DEF Recv
<1>2. k \in Sock /\ sstate[k] # "NONE"
  BY <1>1 DEF IInv, TypeOK, ThreadAt, Inside, Stopping
<1>3. PICK label \in Inside : pc' = [pc EXCEPT ![t] = label]
  BY DEF Recv, Goto, Inside
<1>4. \/ UNCHANGED <<recvvars, aborted>>
      \/ \E n \in 0 .. MaxMsg : OnLeave(k, n)
  BY <1>2, SockLifeAssumption DEF Recv, IInv, TypeOK
<1> HIDE DEF k
<1>5. /\ msgs' \in [Sock -> 0 .. MaxMsg]
      /\ inflag' \in [Sock -> BOOLEAN] /\ rcvfd' \in [Sock -> BOOLEAN]
      /\ aborted' = FALSE
      /\ \A x \in Sock : RcvfdAt(x)'
  <2>1. CASE UNCHANGED <<recvvars, aborted>>
    BY <1>1, <2>1 DEF IInv, TypeOK, RcvfdAt, recvvars
  <2>2. CASE \E n \in 0 .. MaxMsg : OnLeave(k, n)
    BY <1>1, <1>2, <2>2, OnLeaveFacts
  <2>3. QED
    BY <1>4, <2>1, <2>2
<1>6. TypeOK'
  BY <1>1, <1>3, <1>5 DEF IInv, TypeOK, globalvars, epvars, Inside
<1>7. \A x \in Sock : EpsAt(x)'
  BY <1>1 DEF IInv, EpsAt, epvars
<1>8. \A u \in Thread : Emptied(u)'
  BY <1>1, <1>3, StaysEmpty DEF IInv, TypeOK, epvars, Inside
<1>9. QED
  BY <1>1, <1>3, <1>5, <1>6, <1>7, <1>8, StaysInside DEF IInv, Inside

\* NN_PIPE_IN, and nn_sock_rm of a pipe with messages.
LEMMA MessagesKeep ==
    ASSUME IInv, aborted = FALSE, NEW k \in Sock, Deliver(k) \/ Lose(k)
    PROVE  IInv'
<1>1. /\ sstate[k] # "NONE" /\ eps[k] \cup sdeps[k] # {}
      /\ UNCHANGED <<globalvars, sstate, holds, termsem, relesem, epvars, threadvars>>
  <2>1. eps[k] \cup sdeps[k] # {}
    BY DEF Deliver, Lose
  <2>2. QED
    BY <2>1 DEF Deliver, Lose
<1>2. /\ msgs' \in [Sock -> 0 .. MaxMsg]
      /\ inflag' \in [Sock -> BOOLEAN] /\ rcvfd' \in [Sock -> BOOLEAN]
      /\ aborted' \in BOOLEAN /\ (aborted' => k \in late /\ sstate[k] \in Stopping)
      /\ \A x \in Sock : RcvfdAt(x)'
  <2>1. CASE \E n \in 0 .. MaxMsg : OnLeave(k, n)
    <3>1. PICK n \in 0 .. MaxMsg : OnLeave(k, n)
      BY <2>1
    <3>2. aborted' = FALSE
      BY <1>1, <3>1, OnLeaveFacts
    <3>3. QED
      BY <1>1, <3>1, <3>2, OnLeaveFacts
  <2>2. CASE sstate[k] \in {"STOPPING", "FINI"} /\ aborted' = TRUE /\ UNCHANGED recvvars
    <3>1. k \in late /\ sstate[k] \in Stopping
      BY <1>1, <2>2 DEF IInv, EpsAt, Stopping
    <3>2. \A x \in Sock : RcvfdAt(x)'
      BY <1>1, <2>2 DEF IInv, RcvfdAt, recvvars
    <3>3. QED
      BY <2>2, <3>1, <3>2 DEF IInv, TypeOK, recvvars
  <2>3. msgs[k] \in 0 .. MaxMsg /\ MaxMsg \in Nat
    BY SockLifeAssumption DEF IInv, TypeOK
  <2>4. CASE Deliver(k)
    <3>1. CASE msgs[k] < MaxMsg /\ OnLeave(k, msgs[k] + 1)
      <4>1. msgs[k] + 1 \in 0 .. MaxMsg
        BY <2>3, <3>1
      <4>2. QED
        BY <2>1, <3>1, <4>1
    <3>2. QED
      BY <2>2, <2>4, <3>1 DEF Deliver
  <2>5. CASE Lose(k)
    <3>1. \E n \in 0 .. MaxMsg : OnLeave(k, n)
      BY <2>3, <2>5 DEF Lose
    <3>2. QED
      BY <2>1, <3>1
  <2>6. QED
    BY <2>4, <2>5
<1>3. TypeOK'
  BY <1>1, <1>2 DEF IInv, TypeOK, globalvars, epvars, threadvars
<1>4. \A x \in Sock : EpsAt(x)'
  BY <1>1 DEF IInv, EpsAt, epvars
<1>5. \A u \in Thread : Emptied(u)'
  BY <1>1, StaysEmpty DEF epvars, threadvars
<1>6. late' = late /\ sstate' = sstate
  BY <1>1 DEF epvars
<1>7. QED
  BY <1>1, <1>2, <1>3, <1>4, <1>5, <1>6, NoThreadMoves DEF IInv

-----------------------------------------------------------------------------
(* A socket stops.                                                          *)

\* A stopping socket goes on stopping.
LEMMA StopsFurther ==
    ASSUME IInv, NEW k \in Sock, sstate[k] \in {"STOPPING_EPS", "STOPPING"},
           NEW s \in Stopping, sstate' = [sstate EXCEPT ![k] = s],
           NEW n \in Nat, termsem' = [termsem EXCEPT ![k] = n], n > 0 => s = "FINI",
           UNCHANGED <<globalvars, holds, relesem, threadvars, recvvars>>
    PROVE  /\ Table'
           /\ \A u \in Thread : ThreadAt(u)'
           /\ \A x \in Sock : ClosedOnce(x)' /\ HeldAt(x)' /\ RcvfdAt(x)'
<1>1. UNCHANGED <<socks, pc, op, sockp, fd, term, msgs, inflag, rcvfd>>
  BY DEF globalvars, threadvars, recvvars
<1>2. /\ sstate \in [Sock -> {"NONE", "ACTIVE", "STOPPING_EPS", "STOPPING", "FINI", "FREED"}]
      /\ termsem \in [Sock -> Nat]
      /\ \A x \in Sock : /\ sstate'[x] = IF x = k THEN s ELSE sstate[x]
                         /\ termsem'[x] = IF x = k THEN n ELSE termsem[x]
  BY DEF IInv, TypeOK
<1>3. sstate[k] \in Stopping /\ sstate[k] # "ACTIVE" /\ sstate[k] # "FINI" /\ s # "ACTIVE"
  BY DEF Stopping
<1>4. ASSUME NEW u \in Thread
      PROVE  ThreadAt(u)'
  <2>1. ThreadAt(u) /\ (sockp[u] \in Sock \/ sockp[u] = NULL)
    BY DEF IInv, TypeOK
  <2>2. CASE sockp[u] = NULL
    BY <1>1, <2>1, <2>2 DEF ThreadAt, Inside, Closing
  <2>3. CASE sockp[u] \in Sock
    BY <1>1, <1>2, <1>3, <2>1, <2>3 DEF ThreadAt
  <2>4. QED
    BY <2>1, <2>2, <2>3
<1>5. \A x \in Sock : Holders(x)' = Holders(x) /\ Closers(x)' = Closers(x)
  BY <1>1 DEF Holders, Closers
<1>6. \A x \in Sock : ClosedOnce(x)'
  BY <1>2, <1>3, <1>5 DEF IInv, ClosedOnce
<1>7. \A x \in Sock : HeldAt(x)'
  BY <1>1, <1>2, <1>3, <1>5 DEF IInv, HeldAt
<1>8. \A x \in Sock : RcvfdAt(x)'
  BY <1>1, <1>2, <1>3 DEF IInv, RcvfdAt, Stopping
<1>9. QED
  BY <1>4, <1>6, <1>7, <1>8, SameTable

\* NN_EP_STOPPED.
LEMMA EpStoppedKeeps ==
    ASSUME IInv, aborted = FALSE, NEW k \in Sock, EpStopped(k)
    PROVE  IInv'
<1>1. PICK e \in sdeps[k] :
          /\ sdeps' = [sdeps EXCEPT ![k] = @ \ {e}]
          /\ CASE sstate[k] = "ACTIVE" -> UNCHANGED <<sstate, termsem, aborted>>
               [] sstate[k] = "STOPPING_EPS" -> Finish(k, sdeps[k] \ {e}, eps[k])
               [] OTHER -> aborted' = TRUE /\ UNCHANGED <<sstate, termsem>>
  BY DEF EpStopped
<1>2. UNCHANGED <<globalvars, holds, relesem, eps, eid, late, recvvars, threadvars>>
  BY DEF EpStopped
<1>3. sstate[k] \in {"ACTIVE"} \cup Stopping
  BY <1>1 DEF IInv, TypeOK, EpsAt, Stopping
<1>4. sdeps' \in [Sock -> SUBSET EpId]
  BY <1>1 DEF IInv, TypeOK
<1>a. \A u \in Thread : Emptied(u)'
  <2>1. \A x \in Sock : sdeps'[x] \subseteq sdeps[x]
    BY <1>1 DEF IInv, TypeOK
  <2>2. QED
    BY <1>2, <2>1, StaysEmpty DEF threadvars
<1>5. CASE sstate[k] = "ACTIVE"
  <2>1. UNCHANGED <<sstate, termsem, aborted>>
    BY <1>1, <1>5
  <2>2. TypeOK' /\ aborted' = FALSE
    BY <1>2, <1>4, <2>1 DEF IInv, TypeOK, globalvars, recvvars, threadvars
  <2>3. \A x \in Sock : EpsAt(x)' /\ RcvfdAt(x)'
    BY <1>1, <1>2, <1>5, <2>1 DEF IInv, TypeOK, EpsAt, RcvfdAt, recvvars
  <2>4. QED
    BY <1>2, <2>1, <2>2, <2>3, <1>a, NoThreadMoves DEF IInv
<1>6. CASE sstate[k] = "STOPPING_EPS" /\ eps[k] = {}
  <2>1. eps[k] = {} /\ Finish(k, sdeps[k] \ {e}, {})
    BY <1>1, <1>6
  <2> DEFINE s == IF sdeps[k] \ {e} # {} THEN "STOPPING_EPS"
                  ELSE IF StopHook THEN "STOPPING" ELSE "FINI"
             n == IF sdeps[k] \ {e} = {} /\ ~StopHook THEN termsem[k] + 1 ELSE termsem[k]
  <2>2. sstate' = [sstate EXCEPT ![k] = s] /\ termsem' = [termsem EXCEPT ![k] = n]
    BY <2>1 DEF Finish
  <2>3. aborted' = FALSE
    BY <2>1 DEF Finish
  <2>4. termsem[k] = 0
    BY <1>6 DEF IInv, ClosedOnce, TypeOK
  <2>5. s \in Stopping /\ n \in Nat /\ (n > 0 => s = "FINI")
    BY <2>4, SockLifeAssumption DEF Stopping
  <2>6. s # "STOPPING_EPS" => sdeps[k] \ {e} = {}
    OBVIOUS
  <2>7. s # "ACTIVE"
    OBVIOUS
  <2> HIDE DEF s, n
  <2>8. TypeOK'
    BY <1>2, <1>4, <2>2, <2>3, <2>5 DEF IInv, TypeOK, globalvars, recvvars, threadvars, Stopping
  <2>9. \A x \in Sock : EpsAt(x)'
    BY <1>1, <1>2, <1>6, <2>1, <2>2, <2>6, <2>7 DEF IInv, TypeOK, EpsAt
  <2>10. QED
    BY <1>2, <1>6, <2>2, <2>3, <2>5, <2>8, <2>9, <1>a, StopsFurther DEF IInv
<1>7. CASE \/ sstate[k] \in {"STOPPING", "FINI"}
           \/ sstate[k] = "STOPPING_EPS" /\ eps[k] # {}
  <2>1. k \in late
    BY <1>1, <1>7 DEF IInv, EpsAt
  <2>2. aborted' \in BOOLEAN /\ sstate' = sstate /\ termsem' = termsem
    <3>1. CASE sstate[k] \in {"STOPPING", "FINI"}
      BY <1>1, <3>1
    <3>2. CASE sstate[k] = "STOPPING_EPS" /\ eps[k] # {}
      <4>1. Finish(k, sdeps[k] \ {e}, eps[k])
        BY <1>1, <3>2
      <4>2. aborted' \in BOOLEAN
        BY <3>2, <4>1 DEF Finish
      <4>3. /\ sstate' = [sstate EXCEPT ![k] = sstate[k]]
            /\ termsem' = [termsem EXCEPT ![k] = @]
        BY <3>2, <4>1 DEF Finish
      <4>4. QED
        BY <4>2, <4>3 DEF IInv, TypeOK
    <3>3. QED
      BY <1>7, <3>1, <3>2
  <2>3. TypeOK'
    BY <1>2, <1>4, <2>2 DEF IInv, TypeOK, globalvars, recvvars, threadvars
  <2>4. \A x \in Sock : EpsAt(x)' /\ RcvfdAt(x)'
    BY <1>1, <1>2, <2>2 DEF IInv, TypeOK, EpsAt, RcvfdAt, recvvars
  <2>5. k \in late' /\ sstate'[k] \in Stopping
    BY <1>2, <1>7, <2>1, <2>2 DEF Stopping
  <2>6. QED
    BY <1>2, <2>2, <2>3, <2>4, <2>5, <1>a, NoThreadMoves DEF IInv
<1>8. \/ sstate[k] = "ACTIVE"
      \/ sstate[k] = "STOPPING_EPS" /\ eps[k] = {}
      \/ sstate[k] \in {"STOPPING", "FINI"}
      \/ sstate[k] = "STOPPING_EPS" /\ eps[k] # {}
  BY <1>3 DEF Stopping
<1>9. QED
  BY <1>5, <1>6, <1>7, <1>8

\* nn_sock_stopped.
LEMMA ProtocolStoppedKeeps ==
    ASSUME IInv, aborted = FALSE, NEW k \in Sock, ProtocolStopped(k)
    PROVE  IInv'
<1>1. /\ sstate[k] = "STOPPING" /\ sstate' = [sstate EXCEPT ![k] = "FINI"]
      /\ termsem' = [termsem EXCEPT ![k] = @ + 1]
      /\ UNCHANGED <<globalvars, holds, relesem, epvars, recvvars, threadvars, aborted>>
  BY DEF ProtocolStopped
<1>2. TypeOK' /\ aborted' = FALSE
  BY <1>1 DEF IInv, TypeOK, globalvars, recvvars, epvars, threadvars
<1>3. \A x \in Sock : EpsAt(x)'
  BY <1>1 DEF IInv, TypeOK, EpsAt, epvars
<1>4. termsem[k] + 1 \in Nat /\ "FINI" \in Stopping
  BY DEF IInv, TypeOK, Stopping
<1>5. \A u \in Thread : Emptied(u)'
  BY <1>1, StaysEmpty DEF epvars, threadvars
<1>6. QED
  BY <1>5, <1>1, <1>2, <1>3, <1>4, StopsFurther DEF IInv

-----------------------------------------------------------------------------
(* nn_term.                                                                 *)

\* nn_term goes over the descriptors.
LEMMA TermKeeps ==
    ASSUME IInv, aborted = FALSE, NEW t \in Thread, TermBegin(t) \/ TermSkip(t) \/ TermEnd(t)
    PROVE  IInv'
<1>1. /\ UNCHANGED <<up, socks, unused, nsocks, sstate, holds, termsem, relesem,
                     epvars, recvvars, pc, op, sockp, fd, aborted>>
      /\ pc[t] = "idle"
  BY DEF TermBegin, TermSkip, TermEnd, Free, globalvars
<1>2. /\ flags' \in SUBSET {"TERMING", "TERMED"}
      /\ \E n \in -1 .. MaxFd : term' = [term EXCEPT ![t] = n]
  <2>1. flags \in SUBSET {"TERMING", "TERMED"} /\ term[t] \in -1 .. MaxFd
    BY DEF IInv, TypeOK
  <2>2. CASE TermBegin(t)
    <3>1. flags' \in SUBSET {"TERMING", "TERMED"}
      BY <2>1, <2>2 DEF TermBegin
    <3>2. term' = [term EXCEPT ![t] = 0] /\ 0 \in -1 .. MaxFd
      BY <2>2, SockLifeAssumption DEF TermBegin
    <3>3. QED
      BY <3>1, <3>2
  <2>3. CASE TermSkip(t)
    <3>1. term[t] + 1 \in -1 .. MaxFd
      BY <2>3, SockLifeAssumption DEF TermSkip, Fd
    <3>2. QED
      BY <2>1, <2>3, <3>1 DEF TermSkip, globalvars
  <2>4. CASE TermEnd(t)
    <3>1. flags' \in SUBSET {"TERMING", "TERMED"}
      BY <2>1, <2>4 DEF TermEnd
    <3>2. term' = [term EXCEPT ![t] = -1] /\ -1 \in -1 .. MaxFd
      BY <2>4, SockLifeAssumption DEF TermEnd
    <3>3. QED
      BY <3>1, <3>2
  <2>5. QED
    BY <2>2, <2>3, <2>4
<1>3. /\ term' \in [Thread -> -1 .. MaxFd]
      /\ \A u \in Thread : u # t => term'[u] = term[u]
  BY <1>2 DEF IInv, TypeOK
<1>4. TypeOK' /\ aborted' = FALSE
  BY <1>1, <1>2, <1>3 DEF IInv, TypeOK, recvvars, epvars
<1>5. Table'
  BY <1>1 DEF IInv, Table, UnusedSound, Used
<1>6. \A u \in Thread : ThreadAt(u)'
  BY <1>1, <1>3 DEF IInv, ThreadAt, Closing
<1>7. \A k \in Sock : Holders(k)' = Holders(k) /\ Closers(k)' = Closers(k)
  BY <1>1 DEF Holders, Closers
<1>8. \A k \in Sock : ClosedOnce(k)' /\ HeldAt(k)' /\ EpsAt(k)' /\ RcvfdAt(k)'
  BY <1>1, <1>7 DEF IInv, ClosedOnce, HeldAt, EpsAt, RcvfdAt, epvars, recvvars
<1>9. \A u \in Thread : Emptied(u)'
  BY <1>1, StaysEmpty DEF epvars
<1>10. QED
  BY <1>9, <1>4, <1>5, <1>6, <1>8 DEF IInv

-----------------------------------------------------------------------------
(* Holds.                                                                   *)

\* One thread more, or one less, holds a socket.
LEMMA HoldersChange ==
    ASSUME NEW k, NEW t \in Thread
    PROVE  /\ t \notin Holders(k) /\ Holders(k)' = Holders(k) \cup {t}
                 => Cardinality(Holders(k)') = Cardinality(Holders(k)) + 1
           /\ t \in Holders(k) /\ Holders(k)' = Holders(k) \ {t}
                 => Cardinality(Holders(k)') = Cardinality(Holders(k)) - 1
  BY Finite, FS_AddElement, FS_RemoveElement

\* nn_global_hold_socket.
LEMMA HoldKeeps ==
    ASSUME IInv, aborted = FALSE, NEW t \in Thread, NEW f \in Fd, Hold(t, f)
    PROVE  IInv'
<1>0. PICK k : k = socks[f]
  OBVIOUS
<1>1. /\ pc[t] = "idle" /\ k # NULL /\ sstate[k] = "ACTIVE"
      /\ holds' = [holds EXCEPT ![k] = @ + 1]
      /\ sockp' = [sockp EXCEPT ![t] = k]
      /\ pc' = [pc EXCEPT ![t] = "held"]
      /\ UNCHANGED <<globalvars, sstate, termsem, relesem, epvars, recvvars,
                     fd, term, aborted>>
  BY <1>0 DEF Hold, Holdable, Free, Goto
<1>2. PICK o \in {"add_ep", "rm_ep", "recv"} : op' = [op EXCEPT ![t] = o]
  BY DEF Hold
<1>3. k \in Sock
  BY <1>0, <1>1 DEF IInv, TypeOK
<1>4. TypeOK' /\ aborted' = FALSE
  BY <1>1, <1>2, <1>3 DEF IInv, TypeOK, globalvars, epvars, recvvars
<1>5. /\ \A u \in Thread : /\ pc'[u] = IF u = t THEN "held" ELSE pc[u]
                           /\ sockp'[u] = IF u = t THEN k ELSE sockp[u]
                           /\ op'[u] = IF u = t THEN o ELSE op[u]
      /\ \A x \in Sock : holds'[x] = IF x = k THEN holds[k] + 1 ELSE holds[x]
      /\ holds \in [Sock -> Nat]
  BY <1>1, <1>2, <1>3 DEF IInv, TypeOK
<1>6. UNCHANGED socks
  BY <1>1 DEF globalvars
<1>7. \A x \in Sock : /\ Holders(x)' = IF x = k THEN Holders(k) \cup {t} ELSE Holders(x)
                      /\ Closers(x)' = Closers(x)
  BY <1>1, <1>5 DEF Holders, Closers, Inside
<1>8. ASSUME NEW u \in Thread
      PROVE  ThreadAt(u)'
  <2>1. ThreadAt(u) /\ k # NULL
    BY <1>3, SockLifeAssumption DEF IInv
  <2>2. CASE u = t
    BY <1>1, <1>5, <2>1, <2>2 DEF ThreadAt, Inside, Closing
  <2>3. CASE u # t
    <3>1. pc[u] = "free" => sockp[u] # k
      BY <1>1, <2>1 DEF ThreadAt, Closing, Stopping
    <3>2. pc[u] = "free" => sockp[u] \in Sock
      BY <2>1 DEF IInv, TypeOK, ThreadAt
    <3>3. QED
      BY <1>1, <1>5, <1>6, <2>1, <2>3, <3>1, <3>2 DEF ThreadAt
  <2>4. QED
    BY <2>2, <2>3
<1>9. \A x \in Sock : HeldAt(x)'
  <2>1. t \notin Holders(k)
    BY <1>1 DEF Holders
  <2>2. Cardinality(Holders(k)') = Cardinality(Holders(k)) + 1
    BY <1>3, <1>7, <2>1, HoldersChange
  <2>3. ASSUME NEW x \in Sock
        PROVE  HeldAt(x)'
    <3>1. HeldAt(x) /\ Cardinality(Holders(x)) \in Nat
      BY Finite DEF IInv
    <3>2. CASE x = k
      BY <1>1, <1>3, <1>5, <1>6, <2>2, <3>1, <3>2 DEF HeldAt
    <3>3. CASE x # k
      <4>1. Holders(x)' = Holders(x) /\ holds'[x] = holds[x]
        BY <1>5, <1>7, <3>3
      <4>2. QED
        BY <1>1, <1>6, <3>1, <4>1 DEF HeldAt
    <3>4. QED
      BY <3>2, <3>3
  <2>4. QED
    BY <2>3
<1>10. \A x \in Sock : ClosedOnce(x)'
  BY <1>1, <1>5, <1>7 DEF IInv, ClosedOnce, Stopping
<1>11. \A x \in Sock : EpsAt(x)' /\ RcvfdAt(x)'
  BY <1>1 DEF IInv, EpsAt, RcvfdAt, epvars, recvvars
<1>12. \A u \in Thread : Emptied(u)'
  <2>1. \A u \in Thread : pc'[u] = "free" => pc[u] = "free" /\ sockp'[u] = sockp[u]
    BY <1>1, <1>5
  <2>2. QED
    BY <1>1, <2>1, StaysEmpty DEF epvars
<1>13. QED
  BY <1>12, <1>1, <1>4, <1>8, <1>9, <1>10, <1>11, SameTable DEF IInv

\* What Released does to a socket that is held, or open.
LEMMA ReleasedFacts ==
    ASSUME IInv, NEW k \in Sock, Released(k, 1)
    PROVE  /\ relesem' \in [Sock -> Nat]
           /\ \A x \in Sock :
                 /\ holds'[x] = IF x = k THEN holds[k] - 1 ELSE holds[x]
                 /\ relesem'[x] = IF x = k /\ holds[k] = 1 THEN relesem[k] + 1 ELSE relesem[x]
           /\ holds[k] > 0 => holds' \in [Sock -> Nat]
  BY DEF IInv, TypeOK, Released

\* nn_global_rele_socket.
LEMMA ReleKeeps ==
    ASSUME IInv, aborted = FALSE, NEW t \in Thread, Rele(t)
    PROVE  IInv'
<1>0. PICK k : k = sockp[t]
  OBVIOUS
<1>1. /\ pc[t] = "rele" /\ Released(k, 1)
      /\ sockp' = [sockp EXCEPT ![t] = NULL]
      /\ pc' = [pc EXCEPT ![t] = "idle"] /\ op' = [op EXCEPT ![t] = "none"]
      /\ UNCHANGED <<globalvars, sstate, termsem, epvars, recvvars, fd, term, aborted>>
  BY <1>0 DEF Rele, Goto
<1>2. k \in Sock /\ sstate[k] \in {"ACTIVE"} \cup Stopping
  BY <1>0, <1>1 DEF IInv, TypeOK, ThreadAt, Inside
<1>3. t \in Holders(k)
  BY <1>0, <1>1 DEF Holders
<1>4. /\ \A u \in Thread : /\ pc'[u] = IF u = t THEN "idle" ELSE pc[u]
                           /\ sockp'[u] = IF u = t THEN NULL ELSE sockp[u]
                           /\ op'[u] = IF u = t THEN "none" ELSE op[u]
  BY <1>1 DEF IInv, TypeOK
<1>5. \A x \in Sock : /\ Holders(x)' = IF x = k THEN Holders(k) \ {t} ELSE Holders(x)
                      /\ Closers(x)' = Closers(x)
  BY <1>0, <1>1, <1>3, <1>4, SockLifeAssumption DEF Holders, Closers
<1>6. Cardinality(Holders(k)') = Cardinality(Holders(k)) - 1
  BY <1>2, <1>3, <1>5, HoldersChange
<1>7. Cardinality(Holders(k)) \in Nat /\ Cardinality(Holders(k)) > 0
  <2>1. Cardinality(Holders(k)) \in Nat /\ Cardinality(Holders(k)) # 0
    BY <1>3, Finite, FS_EmptySet
  <2>2. QED
    BY <1>6, <2>1
<1>8. /\ holds[k] > 0 /\ (holds[k] = 1 => sstate[k] # "ACTIVE") /\ holds[k] \in Nat
  BY <1>2, <1>7 DEF IInv, HeldAt
<1>9. /\ relesem' \in [Sock -> Nat] /\ holds' \in [Sock -> Nat]
      /\ \A x \in Sock :
            /\ holds'[x] = IF x = k THEN holds[k] - 1 ELSE holds[x]
            /\ relesem'[x] = IF x = k /\ holds[k] = 1 THEN relesem[k] + 1 ELSE relesem[x]
  BY <1>1, <1>2, <1>8, ReleasedFacts
<1>10. TypeOK' /\ aborted' = FALSE
  BY <1>1, <1>9 DEF IInv, TypeOK, globalvars, epvars, recvvars
<1>11. UNCHANGED socks
  BY <1>1 DEF globalvars
<1>12. ASSUME NEW u \in Thread
       PROVE  ThreadAt(u)'
  <2>1. ThreadAt(u)
    BY DEF IInv
  <2>2. CASE u = t
    BY <1>4, <2>2 DEF ThreadAt, Inside, Closing
  <2>3. CASE u # t
    <3>1. pc[u] = "free" => sockp[u] \in Sock /\ sockp[u] # k
      BY <1>8, <2>1 DEF IInv, TypeOK, ThreadAt
    <3>2. QED
      BY <1>1, <1>4, <1>9, <1>11, <2>1, <2>3, <3>1 DEF ThreadAt
  <2>4. QED
    BY <2>2, <2>3
<1>13. \A x \in Sock : HeldAt(x)'
  <2>1. ASSUME NEW x \in Sock
        PROVE  HeldAt(x)'
    <3>1. HeldAt(x) /\ Cardinality(Holders(x)) \in Nat
      BY Finite DEF IInv
    <3>2. CASE x = k
      BY <1>1, <1>2, <1>6, <1>7, <1>9, <1>11, <3>1, <3>2 DEF HeldAt
    <3>3. CASE x # k
      <4>1. Holders(x)' = Holders(x) /\ holds'[x] = holds[x]
        BY <1>5, <1>9, <3>3
      <4>2. QED
        BY <1>1, <1>11, <3>1, <4>1 DEF HeldAt
    <3>4. QED
      BY <3>2, <3>3
  <2>2. QED
    BY <2>1
<1>14. ASSUME NEW x \in Sock
       PROVE  ClosedOnce(x)'
  <2>1. ClosedOnce(x) /\ relesem[x] \in Nat
    BY DEF IInv, TypeOK
  <2>2. CASE x = k
    BY <1>1, <1>2, <1>5, <1>8, <1>9, <2>1, <2>2 DEF ClosedOnce
  <2>3. CASE x # k
    BY <1>1, <1>5, <1>9, <2>1, <2>3 DEF ClosedOnce
  <2>4. QED
    BY <2>2, <2>3
<1>15. \A x \in Sock : EpsAt(x)' /\ RcvfdAt(x)'
  BY <1>1 DEF IInv, EpsAt, RcvfdAt, epvars, recvvars
<1>16. \A u \in Thread : Emptied(u)'
  <2>1. \A u \in Thread : pc'[u] = "free" => pc[u] = "free" /\ sockp'[u] = sockp[u]
    BY <1>1, <1>4
  <2>2. QED
    BY <1>1, <2>1, StaysEmpty DEF epvars
<1>17. QED
  BY <1>16, <1>1, <1>10, <1>12, <1>13, <1>14, <1>15, SameTable DEF IInv

-----------------------------------------------------------------------------
(* nn_close.                                                                *)

\* A thread inside an open or stopping socket is not one of another's.
LEMMA NobodyCloses ==
    ASSUME IInv, NEW k \in Sock, sstate[k] \notin Stopping
    PROVE  /\ Closers(k) = {}
           /\ \A u \in Thread : pc[u] \in Closing => sockp[u] # k
  BY DEF IInv, ThreadAt, Closers, Closing

\* The first half of nn_close.
LEMMA CloseBeginKeeps ==
    ASSUME IInv, aborted = FALSE, NEW t \in Thread, NEW f \in Fd, CloseBegin(t, f)
    PROVE  IInv'
<1>0. PICK k : k = socks[f]
  OBVIOUS
<1>1. /\ pc[t] = "idle" /\ term[t] \in {-1, f} /\ k # NULL /\ sstate[k] = "ACTIVE"
      /\ Released(k, 1)
      /\ rcvfd' = [rcvfd EXCEPT ![k] = TRUE]
      /\ eps' = [eps EXCEPT ![k] = {}]
      /\ sdeps' = [sdeps EXCEPT ![k] = @ \cup eps[k]]
      /\ sockp' = [sockp EXCEPT ![t] = k] /\ op' = [op EXCEPT ![t] = "close"]
      /\ fd' = [fd EXCEPT ![t] = f] /\ pc' = [pc EXCEPT ![t] = "termwait"]
      /\ UNCHANGED <<globalvars, eid, late, msgs, inflag, term>>
  BY <1>0 DEF CloseBegin, Holdable, Goto
<1>2. k \in Sock
  BY <1>0, <1>1 DEF IInv, TypeOK
<1>3. PICK d : d = sdeps[k] \cup eps[k]
  OBVIOUS
<1>4. Finish(k, d, {})
  BY <1>0, <1>3 DEF CloseBegin
<1> DEFINE s == IF d # {} THEN "STOPPING_EPS" ELSE IF StopHook THEN "STOPPING" ELSE "FINI"
           n == IF d = {} /\ ~StopHook THEN termsem[k] + 1 ELSE termsem[k]
<1>5. sstate' = [sstate EXCEPT ![k] = s] /\ termsem' = [termsem EXCEPT ![k] = n]
  BY <1>4 DEF Finish
<1>6. aborted' = FALSE
  <2>1. aborted' = (d = {} /\ {} # {})
    BY <1>4 DEF Finish
  <2>2. (d = {} /\ {} # {}) = FALSE
    OBVIOUS
  <2>3. QED
    BY <2>1, <2>2
<1>7. termsem[k] = 0 /\ relesem[k] = 0
  BY <1>1, <1>2 DEF IInv, TypeOK, ClosedOnce, Stopping
<1>8. /\ s \in Stopping /\ n \in Nat /\ (n > 0 => s = "FINI")
      /\ s # "STOPPING_EPS" => d = {}
  BY <1>7, SockLifeAssumption DEF Stopping
<1> HIDE DEF s, n
<1>9. /\ Cardinality(Holders(k)) \in Nat /\ holds[k] = Cardinality(Holders(k)) + 1
      /\ holds[k] \in Nat /\ holds[k] > 0
  BY <1>1, <1>2, Finite DEF IInv, HeldAt
<1>10. /\ relesem' \in [Sock -> Nat] /\ holds' \in [Sock -> Nat]
       /\ \A x \in Sock :
             /\ holds'[x] = IF x = k THEN holds[k] - 1 ELSE holds[x]
             /\ relesem'[x] = IF x = k /\ holds[k] = 1 THEN relesem[k] + 1 ELSE relesem[x]
  BY <1>1, <1>2, <1>9, ReleasedFacts
<1>11. /\ sstate' \in [Sock -> {"NONE", "ACTIVE", "STOPPING_EPS", "STOPPING", "FINI", "FREED"}]
       /\ termsem' \in [Sock -> Nat]
       /\ \A x \in Sock : /\ sstate'[x] = IF x = k THEN s ELSE sstate[x]
                          /\ termsem'[x] = IF x = k THEN n ELSE termsem[x]
  BY <1>5, <1>8 DEF IInv, TypeOK, Stopping
<1>12. TypeOK'
  <2>1. eps' \in [Sock -> SUBSET EpId] /\ sdeps' \in [Sock -> SUBSET EpId]
    BY <1>1, <1>2 DEF IInv, TypeOK
  <2>2. /\ pc' \in [Thread -> {"idle", "held", "waiting", "woken", "rele",
                               "termwait", "relewait", "free"}]
        /\ op' \in [Thread -> {"none", "add_ep", "rm_ep", "recv", "close"}]
        /\ sockp' \in [Thread -> Sock \cup {NULL}] /\ fd' \in [Thread -> Fd]
    BY <1>1, <1>2 DEF IInv, TypeOK
  <2>3. rcvfd' \in [Sock -> BOOLEAN]
    BY <1>1 DEF IInv, TypeOK
  <2>4. QED
    BY <1>1, <1>6, <1>10, <1>11, <2>1, <2>2, <2>3 DEF IInv, TypeOK, globalvars
<1>13. \A u \in Thread : /\ pc'[u] = IF u = t THEN "termwait" ELSE pc[u]
                         /\ sockp'[u] = IF u = t THEN k ELSE sockp[u]
                         /\ op'[u] = IF u = t THEN "close" ELSE op[u]
                         /\ fd'[u] = IF u = t THEN f ELSE fd[u]
  BY <1>1 DEF IInv, TypeOK
<1>14. UNCHANGED <<socks, term>>
  BY <1>1 DEF globalvars
<1>15. \A u \in Thread : pc[u] \in Closing => sockp[u] # k
  BY <1>1, <1>2, NobodyCloses DEF Stopping
<1>16. ASSUME NEW u \in Thread
       PROVE  ThreadAt(u)'
  <2>1. ThreadAt(u) /\ k # NULL
    BY <1>1 DEF IInv
  <2>2. CASE u = t
    BY <1>0, <1>1, <1>2, <1>8, <1>11, <1>13, <1>14, <2>1, <2>2 DEF ThreadAt, Inside, Closing
  <2>3. CASE u # t
    <3>1. /\ pc'[u] = pc[u] /\ sockp'[u] = sockp[u] /\ op'[u] = op[u] /\ fd'[u] = fd[u]
      BY <1>13, <2>3
    <3>2. CASE pc[u] = "idle"
      BY <2>1, <3>1, <3>2 DEF ThreadAt, Inside, Closing
    <3>3. CASE pc[u] # "idle" /\ sockp[u] = k
      BY <1>2, <1>8, <1>11, <1>15, <2>1, <3>1, <3>3 DEF ThreadAt, Inside, Closing
    <3>4. CASE pc[u] # "idle" /\ sockp[u] # k
      <4>1. sockp[u] \in Sock
        BY <2>1, <3>4 DEF IInv, TypeOK, ThreadAt
      <4>2. sstate'[sockp[u]] = sstate[sockp[u]] /\ holds'[sockp[u]] = holds[sockp[u]]
        BY <1>10, <1>11, <3>4, <4>1
      <4>3. QED
        BY <1>14, <2>1, <3>1, <4>2 DEF ThreadAt
    <3>5. QED
      BY <3>2, <3>3, <3>4
  <2>4. QED
    BY <2>2, <2>3
<1>17. \A x \in Sock : /\ Holders(x)' = Holders(x)
                       /\ Closers(x)' = IF x = k THEN {t} ELSE Closers(x)
  BY <1>1, <1>13, <1>15, SockLifeAssumption DEF Holders, Closers, Closing, IInv, ThreadAt
<1>18. ASSUME NEW x \in Sock
       PROVE  HeldAt(x)' /\ ClosedOnce(x)' /\ EpsAt(x)' /\ RcvfdAt(x)'
  <2>1. HeldAt(x) /\ ClosedOnce(x) /\ EpsAt(x) /\ RcvfdAt(x)
    BY DEF IInv
  <2>2. Holders(x)' = Holders(x) /\ UNCHANGED <<eid, late>>
    BY <1>1, <1>17
  <2>3. CASE x = k
    <3>1. HeldAt(k)'
      BY <1>0, <1>1, <1>8, <1>9, <1>10, <1>11, <1>14, <2>2, <2>3 DEF HeldAt, Stopping
    <3>2. ClosedOnce(k)'
      <4>1. /\ sstate'[k] = s /\ termsem'[k] = n /\ holds'[k] = holds[k] - 1
            /\ relesem'[k] > 0 => holds[k] = 1
            /\ Closers(k)' = {t}
        BY <1>2, <1>7, <1>10, <1>11, <1>17
      <4>2. QED
        BY <1>8, <1>9, <4>1 DEF ClosedOnce
    <3>3. eps'[k] = {} /\ sdeps'[k] = d
      BY <1>1, <1>2, <1>3 DEF IInv, TypeOK
    <3>4. EpsAt(k)'
      BY <1>8, <1>11, <2>1, <2>2, <2>3, <3>3 DEF EpsAt, Stopping
    <3>5. rcvfd'[k]
      BY <1>1, <1>2 DEF IInv, TypeOK
    <3>6. RcvfdAt(k)'
      BY <1>8, <1>11, <2>3, <3>5 DEF RcvfdAt, Stopping
    <3>7. QED
      BY <2>3, <3>1, <3>2, <3>4, <3>6
  <2>4. CASE x # k
    <3>1. /\ sstate'[x] = sstate[x] /\ termsem'[x] = termsem[x] /\ holds'[x] = holds[x]
          /\ relesem'[x] = relesem[x] /\ Closers(x)' = Closers(x)
      BY <1>10, <1>11, <1>17, <2>4
    <3>2. /\ eps'[x] = eps[x] /\ sdeps'[x] = sdeps[x] /\ rcvfd'[x] = rcvfd[x]
          /\ UNCHANGED <<msgs, inflag>>
      BY <1>1, <2>4 DEF IInv, TypeOK
    <3>3. HeldAt(x)' /\ ClosedOnce(x)'
      BY <1>14, <2>1, <2>2, <3>1 DEF HeldAt, ClosedOnce
    <3>4. EpsAt(x)' /\ RcvfdAt(x)'
      BY <2>1, <2>2, <3>1, <3>2 DEF EpsAt, RcvfdAt
    <3>5. QED
      BY <3>3, <3>4
  <2>5. QED
    BY <2>3, <2>4
<1>19. \A u \in Thread : Emptied(u)'
  BY <1>1, <1>2, <1>13, StaysEmpty DEF IInv, TypeOK
<1>20. QED
  BY <1>19, <1>1, <1>6, <1>12, <1>16, <1>18, SameTable DEF IInv

\* A closing thread gets on within nn_sock_term.
LEMMA ClosingMoves ==
    ASSUME IInv, NEW t \in Thread, NEW k \in Sock, k = sockp[t],
           pc[t] \in Closing, NEW label \in {"relewait", "free"},
           pc' = [pc EXCEPT ![t] = label],
           label \in {"relewait", "free"} => sstate[k] = "FINI",
           label = "free" => holds[k] = 0,
           UNCHANGED <<globalvars, sstate, holds, op, sockp, fd, term>>
    PROVE  /\ Table'
           /\ \A u \in Thread : ThreadAt(u)'
           /\ \A x \in Sock : HeldAt(x)' /\ Holders(x)' = Holders(x) /\ Closers(x)' = Closers(x)
<1>1. \A u \in Thread : pc'[u] = IF u = t THEN label ELSE pc[u]
  BY DEF IInv, TypeOK
<1>2. UNCHANGED socks
  BY DEF globalvars
<1>3. \A u \in Thread : ThreadAt(u)'
  BY <1>1, <1>2 DEF IInv, ThreadAt, Inside, Closing
<1>4. \A x \in Sock : Holders(x)' = Holders(x) /\ Closers(x)' = Closers(x)
  BY <1>1 DEF Holders, Closers, Closing
<1>5. \A x \in Sock : HeldAt(x)'
  BY <1>2, <1>4 DEF IInv, HeldAt
<1>6. QED
  BY <1>3, <1>4, <1>5, SameTable

\* nn_sock_term, once the socket is finished.
LEMMA CloseStoppedKeeps ==
    ASSUME IInv, aborted = FALSE, NEW t \in Thread, CloseStopped(t)
    PROVE  IInv'
<1>0. PICK k : k = sockp[t]
  OBVIOUS
<1>1. /\ pc[t] = "termwait" /\ termsem[k] > 0
      /\ termsem' = [termsem EXCEPT ![k] = @ - 1] /\ pc' = [pc EXCEPT ![t] = "relewait"]
      /\ UNCHANGED <<globalvars, sstate, holds, relesem, epvars, recvvars,
                     op, sockp, fd, term, aborted>>
  BY <1>0 DEF CloseStopped, Goto
<1>2. k \in Sock /\ sstate[k] = "FINI"
  BY <1>0, <1>1 DEF IInv, TypeOK, ThreadAt, ClosedOnce, Closing, Stopping
<1>3. termsem' \in [Sock -> Nat]
  BY <1>1, <1>2 DEF IInv, TypeOK
<1>4. TypeOK' /\ aborted' = FALSE
  BY <1>1, <1>3 DEF IInv, TypeOK, globalvars, epvars, recvvars
<1>5. /\ Table' /\ \A u \in Thread : ThreadAt(u)'
      /\ \A x \in Sock : HeldAt(x)' /\ Holders(x)' = Holders(x) /\ Closers(x)' = Closers(x)
  BY <1>0, <1>1, <1>2, ClosingMoves DEF Closing
<1>6. \A x \in Sock : ClosedOnce(x)'
  BY <1>1, <1>2, <1>5 DEF IInv, TypeOK, ClosedOnce
<1>7. \A x \in Sock : EpsAt(x)' /\ RcvfdAt(x)'
  BY <1>1 DEF IInv, EpsAt, RcvfdAt, epvars, recvvars
<1>8. \A u \in Thread : Emptied(u)'
  BY <1>1, StaysEmpty DEF IInv, TypeOK, epvars
<1>9. QED
  BY <1>8, <1>4, <1>5, <1>6, <1>7 DEF IInv

\* ... and once nobody holds it.
LEMMA CloseReleasedKeeps ==
    ASSUME IInv, aborted = FALSE, NEW t \in Thread, CloseReleased(t)
    PROVE  IInv'
<1>0. PICK k : k = sockp[t]
  OBVIOUS
<1>1. /\ pc[t] = "relewait" /\ relesem[k] > 0
      /\ relesem' = [relesem EXCEPT ![k] = @ - 1] /\ pc' = [pc EXCEPT ![t] = "free"]
      /\ UNCHANGED <<globalvars, sstate, holds, termsem, epvars, recvvars,
                     op, sockp, fd, term>>
  BY <1>0 DEF CloseReleased, Goto
<1>2. k \in Sock /\ sstate[k] = "FINI" /\ holds[k] = 0
  BY <1>0, <1>1 DEF IInv, TypeOK, ThreadAt, ClosedOnce
<1>3. /\ aborted' \in BOOLEAN /\ (aborted' <=> eps[k] \cup sdeps[k] # {})
      /\ aborted' => \E x \in late' : sstate'[x] \in Stopping
  <2>1. aborted' = (eps[k] \cup sdeps[k] # {})
    BY <1>0 DEF CloseReleased
  <2>2. k \notin late => eps[k] \cup sdeps[k] = {}
    BY <1>2 DEF IInv, EpsAt
  <2>3. aborted' \in BOOLEAN /\ (aborted' <=> eps[k] \cup sdeps[k] # {})
    BY <2>1
  <2>4. late' = late /\ sstate' = sstate /\ sstate[k] \in Stopping
    BY <1>1, <1>2 DEF epvars, Stopping
  <2>5. QED
    BY <2>2, <2>3, <2>4
<1>4. relesem' \in [Sock -> Nat]
  BY <1>1, <1>2 DEF IInv, TypeOK
<1>5. TypeOK'
  BY <1>1, <1>3, <1>4 DEF IInv, TypeOK, globalvars, epvars, recvvars
<1>6. /\ Table' /\ \A u \in Thread : ThreadAt(u)'
      /\ \A x \in Sock : HeldAt(x)' /\ Holders(x)' = Holders(x) /\ Closers(x)' = Closers(x)
  BY <1>0, <1>1, <1>2, ClosingMoves DEF Closing
<1>7. \A x \in Sock : ClosedOnce(x)'
  BY <1>1, <1>2, <1>6 DEF IInv, TypeOK, ClosedOnce
<1>8. \A x \in Sock : EpsAt(x)' /\ RcvfdAt(x)'
  BY <1>1 DEF IInv, EpsAt, RcvfdAt, epvars, recvvars
<1>9. \A u \in Thread : Emptied(u)'
  <2> SUFFICES ASSUME NEW u \in Thread, pc'[u] = "free", ~aborted'
               PROVE  eps[sockp[u]] = {} /\ sdeps[sockp[u]] = {}
    BY <1>1 DEF Emptied, epvars
  <2>1. CASE u = t
    BY <1>0, <1>3, <2>1
  <2>2. CASE u # t
    <3>1. pc[u] = "free"
      BY <1>1, <2>2 DEF IInv, TypeOK
    <3>2. QED
      BY <3>1, Alone
  <2>3. QED
    BY <2>1, <2>2
<1>10. QED
  BY <1>9, <1>3, <1>5, <1>6, <1>7, <1>8 DEF IInv

\* nn_close gives the descriptor back to the stack.
LEMMA DescriptorReturned ==
    ASSUME IInv, NEW g \in Fd, socks[g] # NULL,
           socks' = [socks EXCEPT ![g] = NULL],
           unused' = [unused EXCEPT ![MaxFd - nsocks] = g],
           nsocks' = nsocks - 1,
           up' \in BOOLEAN, up' <=> nsocks' > 0
    PROVE  Table' /\ nsocks' \in 0..MaxFd /\ unused' \in [Fd -> Fd]
<1>1. /\ socks \in [Fd -> Sock \cup {NULL}] /\ unused \in [Fd -> Fd]
      /\ nsocks \in 0..MaxFd /\ MaxFd \in Nat \ {0} /\ Table
  BY SockLifeAssumption DEF IInv, TypeOK
<1>2. g \in Used /\ nsocks = Cardinality(Used) /\ nsocks # 0
  <2>1. g \in Used
    BY DEF Used
  <2>2. nsocks = Cardinality(Used)
    BY <1>1 DEF Table
  <2>3. Cardinality(Used) # 0
    BY <2>1, Finite, FS_EmptySet
  <2>4. QED
    BY <2>1, <2>2, <2>3
<1>3. nsocks \in 1..MaxFd /\ nsocks' \in 0..(MaxFd - 1) /\ MaxFd - nsocks \in Fd
  <2>1. nsocks \in Int /\ MaxFd \in Int /\ 0 < nsocks /\ nsocks <= MaxFd
    BY <1>1, <1>2
  <2>2. nsocks' = nsocks - 1
    OBVIOUS
  <2>3. QED
    BY <2>1, <2>2 DEF Fd
<1>4. \A f \in Fd : socks'[f] = IF f = g THEN NULL ELSE socks[f]
  BY <1>1
<1>5. \A i \in Fd : unused'[i] = IF i = MaxFd - nsocks THEN g ELSE unused[i]
  BY <1>1
<1>6. Used' = Used \ {g}
  BY <1>4 DEF Used, Fd
<1>7. nsocks' = Cardinality(Used')
  BY <1>1, <1>2, <1>6, Finite, FS_RemoveElement
<1>8. \A f, h \in Fd : socks'[f] # NULL /\ socks'[f] = socks'[h] => f = h
  BY <1>1, <1>4 DEF Table
<1>9. UnusedSound'
  <2> DEFINE free == 0..(MaxFd - nsocks - 1)
             last == MaxFd - nsocks
             freed == 0..(MaxFd - nsocks' - 1)
  <2>0. nsocks' = nsocks - 1
    OBVIOUS
  <2>1. freed = free \cup {last} /\ last \notin free /\ free \subseteq Fd /\ last \in Fd
    <3>1. nsocks \in Int /\ MaxFd \in Int /\ 0 < nsocks /\ nsocks <= MaxFd
      BY <1>1, <1>3
    <3>2. freed = 0..(MaxFd - nsocks)
      BY <2>0, <3>1
    <3> HIDE DEF freed
    <3>3. QED
      BY <3>1, <3>2 DEF Fd
  <2>2. /\ {unused[i] : i \in free} = {f \in Fd : socks[f] = NULL}
        /\ \A i, j \in free : unused[i] = unused[j] => i = j
    <3>1. nsocks > 0
      BY <1>3
    <3>2. up
      BY <1>1, <3>1 DEF Table
    <3>3. QED
      BY <1>1, <3>2 DEF Table, UnusedSound
  <2>3. \A i \in free : unused'[i] = unused[i]
    BY <1>5, <2>1
  <2>4. unused'[last] = g
    BY <1>5, <2>1
  <2>5. MaxFd' = MaxFd
    OBVIOUS
  <2> HIDE DEF free, last
  <2>6. \A i \in free : unused'[i] # g
    BY <2>2, <2>3
  <2>7. {unused'[i] : i \in freed} = {f \in Fd : socks'[f] = NULL}
    <3>1. {f \in Fd : socks'[f] = NULL} = {f \in Fd : socks[f] = NULL} \cup {g}
      BY <1>4
    <3>2. {unused'[i] : i \in freed} = {unused[i] : i \in free} \cup {g}
      <4> HIDE DEF freed
      <4>1. QED
        BY <2>1, <2>3, <2>4
    <3>3. QED
      BY <2>2, <3>1, <3>2
  <2>8. \A i, j \in freed : unused'[i] = unused'[j] => i = j
    <3> HIDE DEF freed
    <3>1. QED
      BY <2>1, <2>2, <2>3, <2>4, <2>6
  <2>9. QED
    BY <2>7, <2>8 DEF UnusedSound, Fd
<1>10. unused' \in [Fd -> Fd] /\ nsocks' \in 0..MaxFd
  BY <1>1, <1>3
<1>11. QED
  BY <1>7, <1>8, <1>9, <1>10 DEF Table

\* The second half of nn_close.
LEMMA CloseFreeKeeps ==
    ASSUME IInv, aborted = FALSE, NEW t \in Thread, CloseFree(t)
    PROVE  IInv'
<1>0. PICK k, g : k = sockp[t] /\ g = fd[t]
  OBVIOUS
<1>1. /\ pc[t] = "free"
      /\ socks' = [socks EXCEPT ![g] = NULL]
      /\ unused' = [unused EXCEPT ![MaxFd - nsocks] = g]
      /\ nsocks' = nsocks - 1
      /\ sstate' = [sstate EXCEPT ![k] = "FREED"]
      /\ pc' = [pc EXCEPT ![t] = "idle"]
      /\ sockp' = [sockp EXCEPT ![t] = NULL]
      /\ op' = [op EXCEPT ![t] = "none"]
      /\ fd' = [fd EXCEPT ![t] = 0]
      /\ term' = [term EXCEPT ![t] = IF @ = -1 THEN @ ELSE @ + 1]
      /\ UNCHANGED <<flags, holds, termsem, relesem, epvars, recvvars, aborted>>
  BY <1>0 DEF CloseFree, Goto
<1>2. /\ k \in Sock /\ sstate[k] = "FINI" /\ holds[k] = 0
      /\ socks[g] = k /\ g \in Fd
      /\ Holders(k) = {} /\ Closers(k) = {t}
      /\ \A u \in Thread : sockp[u] = k => u = t
      /\ eps[k] = {} /\ sdeps[k] = {} /\ k # NULL
  BY <1>0, <1>1, Alone, SockLifeAssumption
<1>3. up' \in BOOLEAN /\ (up' <=> nsocks' > 0)
  <2>1. up' = (nsocks' > 0)
    BY DEF CloseFree
  <2>2. CASE nsocks' > 0
    BY <2>1, <2>2
  <2>3. CASE ~(nsocks' > 0)
    <3>1. (nsocks' > 0) = FALSE
      BY <2>3
    <3>2. QED
      BY <2>1, <3>1
  <2>4. QED
    BY <2>2, <2>3
<1>4. Table' /\ nsocks' \in 0..MaxFd /\ unused' \in [Fd -> Fd]
  BY <1>1, <1>2, <1>3, DescriptorReturned
<1>5. /\ \A u \in Thread : /\ pc'[u] = IF u = t THEN "idle" ELSE pc[u]
                           /\ sockp'[u] = IF u = t THEN NULL ELSE sockp[u]
                           /\ op'[u] = IF u = t THEN "none" ELSE op[u]
      /\ \A u \in Thread : u # t => fd'[u] = fd[u] /\ term'[u] = term[u]
  BY <1>1 DEF IInv, TypeOK
<1>6. /\ \A x \in Sock : sstate'[x] = IF x = k THEN "FREED" ELSE sstate[x]
      /\ \A f \in Fd : socks'[f] = IF f = g THEN NULL ELSE socks[f]
  BY <1>1 DEF IInv, TypeOK
<1>7. term' \in [Thread -> -1..MaxFd]
  <2>1. /\ term[t] \in {-1, g} /\ g + 1 \in 0..MaxFd /\ term \in [Thread -> -1..MaxFd]
    <3>1. ThreadAt(t) /\ pc[t] = "free"
      BY <1>0, <1>1 DEF IInv
    <3>2. term[t] \in {-1, fd[t]}
      BY <3>1 DEF ThreadAt, Closing
    <3>3. term \in [Thread -> -1..MaxFd]
      BY DEF IInv, TypeOK
    <3>4. g + 1 \in 0..MaxFd
      BY <1>2, SockLifeAssumption DEF Fd
    <3>5. QED
      BY <1>0, <3>2, <3>3, <3>4
  <2>2. (IF term[t] = -1 THEN term[t] ELSE term[t] + 1) \in -1..MaxFd
    BY <2>1
  <2>3. QED
    BY <1>1, <2>1, <2>2
<1>8. TypeOK' /\ aborted' = FALSE
  <2>1. fd' \in [Thread -> Fd]
    BY <1>1, SockLifeAssumption DEF IInv, TypeOK, Fd
  <2>2. /\ socks' \in [Fd -> Sock \cup {NULL}] /\ flags' = flags
        /\ pc' \in [Thread -> {"idle", "held", "waiting", "woken", "rele",
                               "termwait", "relewait", "free"}]
        /\ op' \in [Thread -> {"none", "add_ep", "rm_ep", "recv", "close"}]
        /\ sockp' \in [Thread -> Sock \cup {NULL}]
        /\ sstate' \in [Sock -> {"NONE", "ACTIVE", "STOPPING_EPS", "STOPPING",
                                 "FINI", "FREED"}]
    BY <1>1 DEF IInv, TypeOK
  <2>3. QED
    BY <1>1, <1>3, <1>4, <1>7, <2>1, <2>2 DEF IInv, TypeOK, epvars, recvvars
<1>9. ASSUME NEW u \in Thread
      PROVE  ThreadAt(u)'
  <2>1. ThreadAt(u)
    BY DEF IInv
  <2>2. CASE u = t
    BY <1>5, <2>2 DEF ThreadAt, Inside, Closing
  <2>3. CASE u # t
    <3>1. sockp[u] # k
      BY <1>2, <2>3
    <3>2. pc[u] # "idle" => sockp[u] \in Sock
      BY <2>1 DEF IInv, TypeOK, ThreadAt
    <3>3. pc[u] \in Closing => fd[u] \in Fd /\ fd[u] # g
      BY <1>2, <2>1, <3>1 DEF IInv, TypeOK, ThreadAt
    <3>4. sockp[u] \in Sock => sstate'[sockp[u]] = sstate[sockp[u]]
      BY <1>6, <3>1
    <3>5. pc[u] \in Closing => socks'[fd[u]] = socks[fd[u]]
      BY <1>6, <3>3
    <3>6. /\ pc'[u] = pc[u] /\ sockp'[u] = sockp[u] /\ op'[u] = op[u]
          /\ fd'[u] = fd[u] /\ term'[u] = term[u] /\ holds' = holds
      BY <1>1, <1>5, <2>3
    <3>7. QED
      BY <2>1, <3>2, <3>4, <3>5, <3>6 DEF ThreadAt, Inside, Closing
  <2>4. QED
    BY <2>2, <2>3
<1>10. \A x \in Sock : Holders(x)' = Holders(x)
                       /\ Closers(x)' = IF x = k THEN {} ELSE Closers(x)
  BY <1>0, <1>1, <1>2, <1>5 DEF Holders, Closers
<1>11. ASSUME NEW x \in Sock
       PROVE  ClosedOnce(x)' /\ EpsAt(x)' /\ HeldAt(x)' /\ RcvfdAt(x)'
  <2>1. ClosedOnce(x) /\ EpsAt(x) /\ HeldAt(x) /\ RcvfdAt(x)
    BY DEF IInv
  <2>2. /\ holds'[x] = holds[x] /\ termsem'[x] = termsem[x] /\ relesem'[x] = relesem[x]
        /\ eps'[x] = eps[x] /\ sdeps'[x] = sdeps[x] /\ eid'[x] = eid[x]
        /\ msgs'[x] = msgs[x] /\ inflag'[x] = inflag[x] /\ rcvfd'[x] = rcvfd[x]
    BY <1>1 DEF epvars, recvvars
  <2>3. CASE x = k
    <3>1. sstate'[x] = "FREED" /\ Holders(x)' = Holders(x) /\ Closers(x)' = {}
      BY <1>6, <1>10, <2>3
    <3>2. \A f \in Fd : socks'[f] # k
      BY <1>2, <1>6 DEF IInv, Table
    <3>3. HeldAt(x)'
      <4>1. Holders(x)' = {} /\ holds'[x] = 0
        BY <1>2, <2>2, <2>3, <3>1
      <4>2. Cardinality(Holders(x)') = 0
        BY <4>1, FS_EmptySet
      <4>3. QED
        BY <2>3, <3>1, <3>2, <4>1, <4>2 DEF HeldAt, Stopping
    <3>4. ClosedOnce(x)'
      BY <1>2, <2>2, <2>3, <3>1 DEF ClosedOnce, Stopping
    <3>5. EpsAt(x)' /\ RcvfdAt(x)'
      BY <1>2, <2>1, <2>2, <2>3, <3>1 DEF EpsAt, RcvfdAt, Stopping
    <3>6. QED
      BY <3>3, <3>4, <3>5
  <2>4. CASE x # k
    <3>1. sstate'[x] = sstate[x] /\ Holders(x)' = Holders(x) /\ Closers(x)' = Closers(x)
      BY <1>6, <1>10, <2>4
    <3>2. (\E f \in Fd : socks'[f] = x) <=> (\E f \in Fd : socks[f] = x)
      BY <1>2, <1>6, <2>4, SockLifeAssumption
    <3>3. HeldAt(x)'
      BY <2>1, <2>2, <3>1, <3>2 DEF HeldAt
    <3>4. ClosedOnce(x)'
      BY <2>1, <2>2, <3>1 DEF ClosedOnce
    <3>5. EpsAt(x)' /\ RcvfdAt(x)'
      BY <1>1, <2>1, <2>2, <3>1 DEF EpsAt, RcvfdAt, epvars
    <3>6. QED
      BY <3>3, <3>4, <3>5
  <2>5. QED
    BY <2>3, <2>4
<1>12. \A u \in Thread : Emptied(u)'
  <2>1. \A u \in Thread : pc'[u] = "free" => pc[u] = "free" /\ sockp'[u] = sockp[u]
    BY <1>1, <1>5
  <2>2. QED
    BY <1>1, <2>1, StaysEmpty DEF epvars
<1>13. QED
  BY <1>12, <1>4, <1>8, <1>9, <1>11 DEF IInv

-----------------------------------------------------------------------------
(* nn_socket.                                                               *)

\* The stack nn_socket takes the descriptor from, fresh or not, is sound.
LEMMA StackSound ==
    ASSUME IInv, NEW stack,
           stack = IF up THEN unused ELSE [i \in Fd |-> MaxFd - i - 1]
    PROVE  /\ stack \in [Fd -> Fd]
           /\ {stack[i] : i \in 0..(MaxFd - nsocks - 1)} = {f \in Fd : socks[f] = NULL}
           /\ \A i, j \in 0..(MaxFd - nsocks - 1) : stack[i] = stack[j] => i = j
<1>1. CASE up
  BY <1>1 DEF IInv, TypeOK, Table, UnusedSound
<1>2. CASE ~up
  <2>1. nsocks = 0 /\ MaxFd \in Nat \ {0}
    BY <1>2, SockLifeAssumption DEF IInv, TypeOK, Table
  <2>2. Used = {}
    BY <2>1, Finite, FS_EmptySet DEF IInv, Table
  <2>3. {f \in Fd : socks[f] = NULL} = Fd
    BY <2>2 DEF Used
  <2>4. 0..(MaxFd - nsocks - 1) = Fd
    BY <2>1 DEF Fd
  <2>5. \A i \in Fd : stack[i] = MaxFd - i - 1
    BY <1>2
  <2>6. \A i \in Fd : MaxFd - i - 1 \in Fd
    BY <2>1 DEF Fd
  <2>7. stack \in [Fd -> Fd]
    BY <1>2, <2>6
  <2>8. \A i, j \in Fd : stack[i] = stack[j] => i = j
    BY <2>1, <2>5 DEF Fd
  <2>9. {stack[i] : i \in Fd} = Fd
    <3>1. ASSUME NEW f \in Fd
          PROVE  \E i \in Fd : f = stack[i]
      <4>1. MaxFd - f - 1 \in Fd /\ MaxFd - (MaxFd - f - 1) - 1 = f
        BY <2>1 DEF Fd
      <4>2. QED
        BY <2>5, <4>1
    <3>2. QED
      BY <2>7, <3>1
  <2>10. QED
    BY <2>3, <2>4, <2>7, <2>8, <2>9
<1>3. QED
  BY <1>1, <1>2

\* nn_global_create_socket takes a descriptor without a socket from the stack.
LEMMA DescriptorTaken ==
    ASSUME IInv, nsocks < MaxFd, NEW k \in Sock, sstate[k] = "NONE",
           NEW stack, NEW f,
           stack = IF up THEN unused ELSE [i \in Fd |-> MaxFd - i - 1],
           f = stack[MaxFd - nsocks - 1],
           socks' = [socks EXCEPT ![f] = k],
           unused' = stack,
           nsocks' = nsocks + 1,
           up' = TRUE
    PROVE  /\ Table'
           /\ f \in Fd /\ socks[f] = NULL
           /\ nsocks' \in 0..MaxFd /\ unused' \in [Fd -> Fd]
<1>1. /\ socks \in [Fd -> Sock \cup {NULL}] /\ Table /\ k # NULL
      /\ nsocks \in Nat /\ MaxFd \in Nat /\ nsocks < MaxFd /\ nsocks' = nsocks + 1
  BY SockLifeAssumption DEF IInv, TypeOK
<1> DEFINE free == 0..(MaxFd - nsocks - 1)
           last == MaxFd - nsocks - 1
           freed == 0..(MaxFd - nsocks' - 1)
<1>2. /\ stack \in [Fd -> Fd]
      /\ {stack[i] : i \in free} = {g \in Fd : socks[g] = NULL}
      /\ \A i, j \in free : stack[i] = stack[j] => i = j
  BY StackSound
<1>3. free = freed \cup {last} /\ last \notin freed /\ free \subseteq Fd
  <2>1. freed = 0..(MaxFd - nsocks - 2)
    BY <1>1
  <2> HIDE DEF freed
  <2>2. QED
    BY <1>1, <2>1 DEF Fd
<1>4. f = stack[last]
  OBVIOUS
<1> HIDE DEF free, last
<1>5. f \in Fd /\ socks[f] = NULL
  <2>1. last \in free
    BY <1>3
  <2>2. f \in {stack[i] : i \in free}
    BY <1>4, <2>1
  <2>3. QED
    BY <1>2, <2>2
<1>6. \A g \in Fd : socks'[g] = IF g = f THEN k ELSE socks[g]
  BY <1>1
<1>7. \A g \in Fd : socks[g] # k
  BY DEF IInv, HeldAt, Stopping
<1>8. nsocks' = Cardinality(Used') /\ nsocks' > 0
  <2>1. Used' = Used \cup {f} /\ f \notin Used
    BY <1>1, <1>5, <1>6 DEF Used, Fd
  <2>2. Cardinality(Used') = Cardinality(Used) + 1
    <3>1. IsFiniteSet(Used) /\ f \notin Used
      BY <2>1, Finite
    <3>2. Cardinality(Used \cup {f})
             = IF f \in Used THEN Cardinality(Used) ELSE Cardinality(Used) + 1
      BY <3>1, FS_AddElement
    <3>3. QED
      BY <2>1, <3>1, <3>2
  <2>3. QED
    BY <1>1, <2>2 DEF Table
<1>9. \A g, h \in Fd : socks'[g] # NULL /\ socks'[g] = socks'[h] => g = h
  BY <1>1, <1>6, <1>7 DEF Table
<1>10. UnusedSound'
  <2> HIDE DEF freed
  <2>1. {g \in Fd : socks'[g] = NULL} = {g \in Fd : socks[g] = NULL} \ {f}
    BY <1>1, <1>6
  <2>2. {stack[i] : i \in freed} = {stack[i] : i \in free} \ {f}
    <3>1. \A i \in freed : i \in free /\ i # last
      BY <1>3
    <3>2. \A i \in freed : stack[i] # f
      BY <1>2, <1>3, <1>4, <3>1
    <3>3. \A i \in free : stack[i] # f => i \in freed
      BY <1>3, <1>4
    <3>4. QED
      BY <3>1, <3>2, <3>3
  <2>3. {stack[i] : i \in freed} = {g \in Fd : socks'[g] = NULL}
    BY <1>2, <2>1, <2>2
  <2>4. \A i, j \in freed : stack[i] = stack[j] => i = j
    BY <1>2, <1>3
  <2>5. unused' = stack
    OBVIOUS
  <2>6. /\ {unused'[i] : i \in freed} = {g \in Fd : socks'[g] = NULL}
        /\ \A i, j \in freed : unused'[i] = unused'[j] => i = j
    <3>1. \A i \in freed : unused'[i] = stack[i]
      BY <2>5
    <3>2. {unused'[i] : i \in freed} = {stack[i] : i \in freed}
      BY <3>1
    <3>3. \A i, j \in freed : unused'[i] = unused'[j] => i = j
      BY <2>4, <3>1
    <3>4. QED
      BY <2>3, <3>2, <3>3
  <2>7. QED
    BY <2>6 DEF UnusedSound, Fd, freed
<1>11. nsocks' \in 0..MaxFd
  BY <1>1
<1>12. QED
  BY <1>2, <1>5, <1>8, <1>9, <1>10, <1>11 DEF Table

\* nn_socket: nobody knows of a socket that does not exist yet.
LEMMA SocketOpenKeeps ==
    ASSUME IInv, aborted = FALSE, NEW t \in Thread, SocketOpen(t)
    PROVE  IInv'
<1>a. PICK stack : stack = IF up THEN unused ELSE [i \in Fd |-> MaxFd - i - 1]
  OBVIOUS
<1>b. PICK g : g = stack[MaxFd - nsocks - 1]
  OBVIOUS
<1>1. /\ nsocks < MaxFd /\ up' = TRUE /\ unused' = stack /\ nsocks' = nsocks + 1
      /\ UNCHANGED <<flags, termsem, relesem, epvars, recvvars, threadvars, aborted>>
  BY <1>a DEF SocketOpen
<1>2. PICK k \in Sock : /\ sstate[k] = "NONE"
                        /\ socks' = [socks EXCEPT ![g] = k]
                        /\ sstate' = [sstate EXCEPT ![k] = "ACTIVE"]
                        /\ holds' = [holds EXCEPT ![k] = 1]
  BY <1>a, <1>b DEF SocketOpen
<1>3. /\ Table' /\ g \in Fd /\ socks[g] = NULL
      /\ nsocks' \in 0..MaxFd /\ unused' \in [Fd -> Fd]
  BY <1>a, <1>b, <1>1, <1>2, DescriptorTaken
<1>4. TypeOK' /\ aborted' = FALSE
  <2>1. /\ socks' \in [Fd -> Sock \cup {NULL}] /\ up' \in BOOLEAN
        /\ sstate' \in [Sock -> {"NONE", "ACTIVE", "STOPPING_EPS", "STOPPING",
                                 "FINI", "FREED"}]
        /\ holds' \in [Sock -> Nat]
    BY <1>1, <1>2 DEF IInv, TypeOK
  <2>2. QED
    BY <1>1, <1>3, <2>1 DEF IInv, TypeOK, epvars, recvvars, threadvars
<1>5. /\ \A x \in Sock : /\ sstate'[x] = IF x = k THEN "ACTIVE" ELSE sstate[x]
                         /\ holds'[x] = IF x = k THEN 1 ELSE holds[x]
      /\ \A f \in Fd : socks'[f] = IF f = g THEN k ELSE socks[f]
  BY <1>2 DEF IInv, TypeOK
<1>6. UNCHANGED <<pc, op, sockp, fd, term>>
  BY <1>1 DEF threadvars
<1>7. \A u \in Thread : sockp[u] # k
  BY <1>2, SockLifeAssumption DEF IInv, TypeOK, ThreadAt, Inside, Closing, Stopping
<1>8. ASSUME NEW u \in Thread
      PROVE  ThreadAt(u)'
  <2>1. ThreadAt(u) /\ sockp[u] # k
    BY <1>7 DEF IInv
  <2>2. sockp[u] \in Sock =>
           sstate'[sockp[u]] = sstate[sockp[u]] /\ holds'[sockp[u]] = holds[sockp[u]]
    BY <1>5, <2>1
  <2>3. pc[u] # "idle" => sockp[u] \in Sock
    BY <2>1 DEF IInv, TypeOK, ThreadAt
  <2>4. pc[u] \in Closing => fd[u] \in Fd /\ socks'[fd[u]] = socks[fd[u]]
    <3>1. pc[u] \in Closing => fd[u] \in Fd /\ socks[fd[u]] # NULL
      BY <2>1, <2>3, SockLifeAssumption DEF IInv, TypeOK, ThreadAt, Closing
    <3>2. QED
      BY <1>3, <1>5, <3>1
  <2>5. QED
    BY <1>6, <2>1, <2>2, <2>3, <2>4 DEF ThreadAt, Inside, Closing
<1>9. \A x \in Sock : Holders(x)' = Holders(x) /\ Closers(x)' = Closers(x)
  BY <1>6 DEF Holders, Closers
<1>10. ASSUME NEW x \in Sock
       PROVE  ClosedOnce(x)' /\ EpsAt(x)' /\ HeldAt(x)' /\ RcvfdAt(x)'
  <2>1. /\ ClosedOnce(x) /\ EpsAt(x) /\ HeldAt(x) /\ RcvfdAt(x)
        /\ Holders(x)' = Holders(x) /\ Closers(x)' = Closers(x)
    BY <1>9 DEF IInv
  <2>2. /\ termsem'[x] = termsem[x] /\ relesem'[x] = relesem[x]
        /\ eps'[x] = eps[x] /\ sdeps'[x] = sdeps[x] /\ eid'[x] = eid[x]
        /\ msgs'[x] = msgs[x] /\ inflag'[x] = inflag[x] /\ rcvfd'[x] = rcvfd[x]
        /\ termsem[x] \in Nat /\ relesem[x] \in Nat
    BY <1>1 DEF epvars, recvvars, IInv, TypeOK
  <2>3. CASE x = k
    <3>1. sstate[x] = "NONE" /\ sstate'[x] = "ACTIVE" /\ holds'[x] = 1
      BY <1>2, <1>5, <2>3
    <3>2. Holders(x)' = {} /\ Closers(x)' = {}
      BY <1>7, <2>1, <2>3 DEF Holders, Closers
    <3>3. HeldAt(x)'
      <4>1. Cardinality(Holders(x)') = 0
        BY <3>2, FS_EmptySet
      <4>2. \E f \in Fd : socks'[f] = x
        BY <1>3, <1>5, <2>3
      <4>3. QED
        BY <3>1, <4>1, <4>2 DEF HeldAt
    <3>4. ClosedOnce(x)'
      BY <2>1, <2>2, <3>1, <3>2 DEF ClosedOnce, Stopping
    <3>5. EpsAt(x)' /\ RcvfdAt(x)'
      BY <2>1, <2>2, <3>1 DEF EpsAt, RcvfdAt, Stopping
    <3>6. QED
      BY <3>3, <3>4, <3>5
  <2>4. CASE x # k
    <3>1. sstate'[x] = sstate[x] /\ holds'[x] = holds[x]
      BY <1>5, <2>4
    <3>2. (\E f \in Fd : socks'[f] = x) <=> (\E f \in Fd : socks[f] = x)
      BY <1>3, <1>5, <2>4, SockLifeAssumption
    <3>3. HeldAt(x)'
      BY <2>1, <3>1, <3>2 DEF HeldAt
    <3>4. ClosedOnce(x)'
      BY <2>1, <2>2, <3>1 DEF ClosedOnce
    <3>5. EpsAt(x)' /\ RcvfdAt(x)'
      BY <1>1, <2>1, <2>2, <3>1 DEF EpsAt, RcvfdAt, epvars
    <3>6. QED
      BY <3>3, <3>4, <3>5
  <2>5. QED
    BY <2>3, <2>4
<1>11. \A u \in Thread : Emptied(u)'
  BY <1>1, <1>6, StaysEmpty DEF epvars
<1>12. QED
  BY <1>11, <1>3, <1>4, <1>8, <1>10 DEF IInv

-----------------------------------------------------------------------------
(* The invariant, and what it shows.                                        *)

\* Nothing exists before the first nn_socket.
LEMMA Initially == Init => IInv
<1> SUFFICES ASSUME Init
             PROVE  IInv
  OBVIOUS
<1>1. MaxFd \in Nat \ {0} /\ NULL \notin Sock
  BY SockLifeAssumption
<1>2. /\ up = FALSE /\ nsocks = 0 /\ flags = {} /\ aborted = FALSE
      /\ \A f \in Fd : socks[f] = NULL
      /\ \A k \in Sock : /\ sstate[k] = "NONE" /\ holds[k] = 0 /\ termsem[k] = 0
                         /\ relesem[k] = 0 /\ eps[k] = {} /\ sdeps[k] = {}
                         /\ eid[k] = 1 /\ msgs[k] = 0 /\ inflag[k] = FALSE
                         /\ rcvfd[k] = FALSE
      /\ \A t \in Thread : pc[t] = "idle" /\ op[t] = "none" /\ sockp[t] = NULL
  BY DEF Init
<1>3. TypeOK
  <2>1. \A i \in Fd : MaxFd - i - 1 \in Fd
    BY <1>1 DEF Fd
  <2>2. unused \in [Fd -> Fd]
    BY <2>1 DEF Init
  <2>3. fd \in [Thread -> Fd] /\ term \in [Thread -> -1..MaxFd] /\ nsocks \in 0..MaxFd
    BY <1>1 DEF Init, Fd
  <2>4. msgs \in [Sock -> 0..MaxMsg]
    BY SockLifeAssumption DEF Init
  <2>5. QED
    BY <2>2, <2>3, <2>4 DEF Init, TypeOK
<1>4. Table
  <2>1. Used = {}
    BY <1>2 DEF Used
  <2>2. Cardinality(Used) = 0
    BY <2>1, FS_EmptySet
  <2>3. QED
    BY <1>2, <2>2 DEF Table, UnusedSound
<1>5. \A t \in Thread : ThreadAt(t)
  BY <1>2 DEF ThreadAt, Inside, Closing
<1>6. \A k \in Sock : Holders(k) = {} /\ Closers(k) = {}
  BY <1>2 DEF Holders, Closers
<1>7. \A k \in Sock : ClosedOnce(k) /\ EpsAt(k) /\ RcvfdAt(k)
  BY <1>2, <1>6 DEF ClosedOnce, EpsAt, RcvfdAt, Stopping
<1>8. ASSUME NEW k \in Sock
      PROVE  HeldAt(k)
  <2>1. Cardinality(Holders(k)) = 0
    BY <1>6, FS_EmptySet
  <2>2. \A f \in Fd : socks[f] # k
    BY <1>1, <1>2
  <2>3. QED
    BY <1>2, <2>1, <2>2 DEF HeldAt, Stopping
<1>9. \A t \in Thread : Emptied(t)
  BY <1>2 DEF Emptied
<1>10. QED
  BY <1>9, <1>2, <1>3, <1>4, <1>5, <1>7, <1>8 DEF IInv

\* Every critical section preserves the invariant.
LEMMA Inductive ==
    ASSUME IInv, [Next]_vars
    PROVE  IInv'
<1>1. CASE UNCHANGED vars
  <2>1. /\ UNCHANGED <<globalvars, sstate, holds, termsem, relesem, threadvars>>
        /\ UNCHANGED <<epvars, recvvars, aborted>>
    BY <1>1 DEF vars
  <2>2. /\ Table' /\ \A t \in Thread : ThreadAt(t)'
        /\ \A k \in Sock : ClosedOnce(k)' /\ HeldAt(k)'
    BY <2>1, NoThreadMoves
  <2>3. TypeOK' /\ (aborted' => \E k \in late' : sstate'[k] \in Stopping)
    BY <2>1 DEF IInv, TypeOK, globalvars, epvars, recvvars, threadvars
  <2>4. \A k \in Sock : EpsAt(k)' /\ RcvfdAt(k)'
    BY <2>1 DEF IInv, EpsAt, RcvfdAt, epvars, recvvars
  <2>5. \A t \in Thread : Emptied(t)'
    BY <2>1 DEF IInv, Emptied, epvars, threadvars
  <2>6. QED
    BY <2>2, <2>3, <2>4, <2>5 DEF IInv
<1>2. ASSUME aborted = FALSE, NEW t \in Thread, Continue(t)
      PROVE  IInv'
  <2>1. CASE AddEp(t) \/ RmEp(t) \/ Recv(t) \/ Wake(t) \/ Rele(t)
    BY <1>2, <2>1, AddEpKeeps, RmEpKeeps, RecvKeeps, WokenKeeps, ReleKeeps
  <2>2. CASE CloseStopped(t) \/ CloseReleased(t) \/ CloseFree(t)
    BY <1>2, <2>2, CloseStoppedKeeps, CloseReleasedKeeps, CloseFreeKeeps
  <2>3. CASE TermSkip(t) \/ TermEnd(t)
    BY <1>2, <2>3, TermKeeps
  <2>4. CASE \E f \in Fd : term[t] = f /\ CloseBegin(t, f)
    BY <1>2, <2>4, CloseBeginKeeps
  <2>5. QED
    BY <1>2, <2>1, <2>2, <2>3, <2>4 DEF Continue
<1>3. ASSUME aborted = FALSE, NEW t \in Thread, Call(t)
      PROVE  IInv'
  <2>1. CASE SocketOpen(t) \/ TermBegin(t) \/ GiveUp(t)
    BY <1>3, <2>1, SocketOpenKeeps, TermKeeps, WokenKeeps
  <2>2. CASE \E f \in Fd : Hold(t, f) \/ (term[t] = -1 /\ CloseBegin(t, f))
    BY <1>3, <2>2, HoldKeeps, CloseBeginKeeps
  <2>3. QED
    BY <1>3, <2>1, <2>2 DEF Call
<1>4. ASSUME aborted = FALSE, NEW k \in Sock, Event(k)
      PROVE  IInv'
  BY <1>4, MessagesKeep, EpStoppedKeeps, ProtocolStoppedKeeps DEF Event
<1>5. ~aborted => aborted = FALSE
  BY DEF IInv, TypeOK
<1>6. QED
  BY <1>1, <1>2, <1>3, <1>4, <1>5 DEF Next, Ended

\* The invariant holds whatever the application does, and whenever.
LEMMA Always == Spec => []IInv
<1>1. IInv /\ [Next]_vars => IInv'
  BY Inductive
<1>2. QED
  BY Initially, <1>1, PTL DEF Spec

\* No assertion of the code fails (NeverAborts): the endpoints are gone when the
\* protocol is stopped and when the socket's lists are torn down, and none
\* reports to a socket past that point.
THEOREM EventsExpected == Spec => []NeverAborts
<1>1. IInv => NeverAborts
  BY DEF IInv, NeverAborts, Stopping
<1>2. QED
  BY <1>1, Always, PTL

\* A freed socket is used by nobody, and one that is being closed has exactly
\* one thread to free it (NoUseAfterFree: nn_global_hold_socket, nn_sock_term).
THEOREM FreedOnce == Spec => []NoUseAfterFree
<1>1. ASSUME IInv
      PROVE  NoUseAfterFree
  <2>1. TypeOK /\ HoldsCounted
    BY <1>1 DEF IInv, HoldsCounted, HeldAt
  <2>2. ASSUME NEW k \in Sock, sstate[k] \in {"NONE", "FREED"}
        PROVE  /\ \A t \in Thread : sockp[t] # k
               /\ \A f \in Fd : socks[f] # k
               /\ eps[k] \cup sdeps[k] = {}
    <3>1. \A t \in Thread : sockp[t] # k
      BY <1>1, <2>2, SockLifeAssumption DEF IInv, TypeOK, ThreadAt, Inside, Closing, Stopping
    <3>2. \A f \in Fd : socks[f] # k
      BY <1>1, <2>2 DEF IInv, HeldAt, Stopping
    <3>3. eps[k] = {} /\ sdeps[k] = {}
      BY <1>1, <2>2 DEF IInv, EpsAt
    <3>4. QED
      BY <3>1, <3>2, <3>3
  <2>3. ASSUME NEW k \in Sock, sstate[k] \in {"STOPPING_EPS", "STOPPING", "FINI"}
        PROVE  \E t \in Thread : Closers(k) = {t} /\ socks[fd[t]] = k
    <3>1. PICK t \in Closers(k) : TRUE
      BY <1>1, <2>3 DEF IInv, ClosedOnce, Stopping
    <3>2. Closers(k) = {t}
      BY <1>1, <3>1 DEF IInv, ClosedOnce
    <3>3. t \in Thread /\ socks[fd[t]] = k
      BY <1>1, <3>1 DEF IInv, ThreadAt, Closers, Closing
    <3>4. QED
      BY <3>2, <3>3
  <2>4. QED
    BY <2>1, <2>2, <2>3 DEF NoUseAfterFree
<1>2. IInv => NoUseAfterFree
  BY <1>1
<1>3. QED
  BY <1>2, Always, PTL

\* The stack of unused descriptors holds the descriptors without a socket, each
\* once (UnusedSound: nn_global_create_socket, nn_close).
THEOREM DescriptorsSound == Spec => []UnusedSound
<1>1. IInv => UnusedSound
  BY DEF IInv, Table
<1>2. QED
  BY <1>1, Always, PTL

\* NN_RCVFD tells when a receive would not block, and a socket that is being
\* closed wakes its receivers (RcvfdSound: nn_sock_onleave, nn_sock_stop).
THEOREM ReceiversWoken == Spec => []RcvfdSound
<1>1. IInv => RcvfdSound
  BY DEF IInv, RcvfdAt, RcvfdSound, Stopping
<1>2. QED
  BY <1>1, Always, PTL

-----------------------------------------------------------------------------
(* The socket table implements Handles.                                     *)

\* A step that changes no descriptor, no socket's state, no thread's socket and
\* no endpoint does nothing to the handles.
LEMMA SameHandles ==
    ASSUME UNCHANGED <<socks, sstate, sockp>>,
           \A k \in Sock : (eps[k] \cup sdeps[k])' = eps[k] \cup sdeps[k]
    PROVE  UNCHANGED H!handlevars
<1>1. {k \in Sock : sstate'[k] = "NONE"} = {k \in Sock : sstate[k] = "NONE"}
  OBVIOUS
<1>2. {k \in Sock : sstate'[k] = "ACTIVE"} = {k \in Sock : sstate[k] = "ACTIVE"}
  OBVIOUS
<1>3. [k \in Sock |-> eps'[k] \cup sdeps'[k]] = [k \in Sock |-> eps[k] \cup sdeps[k]]
  OBVIOUS
<1>4. QED
  BY <1>1, <1>2, <1>3 DEF H!handlevars

\* nn_socket opens a descriptor.
LEMMA OpenRefines ==
    ASSUME IInv, NEW t \in Thread, SocketOpen(t)
    PROVE  H!HNext
<1>a. PICK stack : stack = IF up THEN unused ELSE [i \in Fd |-> MaxFd - i - 1]
  OBVIOUS
<1>b. PICK g : g = stack[MaxFd - nsocks - 1]
  OBVIOUS
<1>1. /\ nsocks < MaxFd /\ up' = TRUE /\ unused' = stack /\ nsocks' = nsocks + 1
      /\ UNCHANGED <<sockp, eps, sdeps>>
  BY <1>a DEF SocketOpen, epvars, threadvars
<1>2. PICK k \in Sock : /\ sstate[k] = "NONE"
                        /\ socks' = [socks EXCEPT ![g] = k]
                        /\ sstate' = [sstate EXCEPT ![k] = "ACTIVE"]
  BY <1>a, <1>b DEF SocketOpen
<1>3. g \in Fd /\ socks[g] = NULL
  BY <1>a, <1>b, <1>1, <1>2, DescriptorTaken
<1>4. sstate \in [Sock -> {"NONE", "ACTIVE", "STOPPING_EPS", "STOPPING", "FINI", "FREED"}]
  BY DEF IInv, TypeOK
<1>5. {x \in Sock : sstate'[x] = "NONE"} = {x \in Sock : sstate[x] = "NONE"} \ {k}
  BY <1>2, <1>4
<1>6. {x \in Sock : sstate'[x] = "ACTIVE"} = {x \in Sock : sstate[x] = "ACTIVE"} \cup {k}
  BY <1>2, <1>4
<1>7. H!Open(g, k)
  BY <1>1, <1>2, <1>3, <1>5, <1>6 DEF H!Open
<1>8. QED
  BY <1>2, <1>3, <1>7 DEF H!HNext

\* Holding a socket enters it.
LEMMA HoldRefines ==
    ASSUME IInv, NEW t \in Thread, NEW f \in Fd, Hold(t, f)
    PROVE  H!HNext
<1>1. /\ sockp[t] = NULL /\ socks[f] \in Sock /\ sstate[socks[f]] = "ACTIVE"
      /\ sockp' = [sockp EXCEPT ![t] = socks[f]]
      /\ UNCHANGED <<socks, sstate, eps, sdeps>>
  BY DEF IInv, TypeOK, ThreadAt, Hold, Holdable, Free, globalvars, epvars
<1>2. H!Enter(t, f)
  BY <1>1 DEF H!Enter
<1>3. QED
  BY <1>2 DEF H!HNext

\* Releasing it leaves it, and its descriptor is still taken.
LEMMA ReleRefines ==
    ASSUME IInv, NEW t \in Thread, Rele(t)
    PROVE  H!HNext
<1>1. /\ pc[t] = "rele" /\ sockp' = [sockp EXCEPT ![t] = NULL]
      /\ UNCHANGED <<socks, sstate, eps, sdeps>>
  BY DEF Rele, globalvars, epvars
<1>2. sockp[t] \in Sock /\ sstate[sockp[t]] \in {"ACTIVE"} \cup Stopping
  BY <1>1 DEF IInv, TypeOK, ThreadAt, Inside
<1>3. \E f \in Fd : socks[f] = sockp[t]
  BY <1>2 DEF IInv, HeldAt
<1>4. H!Leave(t)
  BY <1>1, <1>3 DEF H!Leave
<1>5. QED
  BY <1>4 DEF H!HNext

\* nn_sock_add_ep links an endpoint to the socket it is in, or changes nothing.
LEMMA AddEpRefines ==
    ASSUME IInv, NEW t \in Thread, AddEp(t)
    PROVE  [H!HNext]_(H!handlevars)
<1>0. PICK k : k = sockp[t]
  OBVIOUS
<1>1. /\ pc[t] = "held" /\ op[t] = "add_ep"
      /\ UNCHANGED <<socks, sstate, sockp, sdeps>>
  BY <1>0 DEF AddEp, globalvars
<1>2. k \in Sock
  BY <1>0, <1>1 DEF IInv, TypeOK, ThreadAt
<1>3. CASE eid[k] <= MaxEp /\ eps' = [eps EXCEPT ![k] = @ \cup {eid[k]}]
  <2>0. PICK e : e = eid[k]
    OBVIOUS
  <2>1. e \in EpId
    BY <1>2, <1>3, <2>0, SockLifeAssumption DEF IInv, TypeOK, EpsAt, EpId
  <2>2. [x \in Sock |-> eps'[x] \cup sdeps'[x]]
           = [[x \in Sock |-> eps[x] \cup sdeps[x]] EXCEPT ![k] = @ \cup {e}]
    BY <1>1, <1>2, <1>3, <2>0 DEF IInv, TypeOK
  <2>3. H!Link(t, e)
    BY <1>0, <1>1, <1>2, <2>2 DEF H!Link
  <2>4. H!HNext
    BY <2>1, <2>3 DEF H!HNext
  <2>5. QED
    BY <2>4
<1>4. CASE UNCHANGED eps
  BY <1>1, <1>4, SameHandles
<1>5. QED
  BY <1>0, <1>3, <1>4 DEF AddEp

\* A transport that finished stopping unlinks its endpoint.
LEMMA EpStoppedRefines ==
    ASSUME IInv, NEW k \in Sock, EpStopped(k)
    PROVE  [H!HNext]_(H!handlevars)
<1>1. PICK e \in sdeps[k] : sdeps' = [sdeps EXCEPT ![k] = @ \ {e}]
  BY DEF EpStopped
<1>2. e \in EpId
  BY DEF IInv, TypeOK
<1>3. UNCHANGED <<socks, sockp, eps>>
  BY DEF EpStopped, globalvars, threadvars
<1>4. {x \in Sock : sstate'[x] = "NONE"} = {x \in Sock : sstate[x] = "NONE"}
      /\ {x \in Sock : sstate'[x] = "ACTIVE"} = {x \in Sock : sstate[x] = "ACTIVE"}
  <2>1. \/ UNCHANGED sstate
        \/ sstate[k] = "STOPPING_EPS"
           /\ \E s \in Stopping : sstate' = [sstate EXCEPT ![k] = s]
    BY DEF EpStopped, Finish, Stopping
  <2>2. QED
    BY <2>1 DEF IInv, TypeOK, Stopping
<1>5. CASE e \in eps[k]
  <2>1. ASSUME NEW x \in Sock
        PROVE  eps'[x] \cup sdeps'[x] = eps[x] \cup sdeps[x]
    <3>1. eps'[x] = eps[x]
      BY <1>3
    <3>2. sdeps'[x] = IF x = k THEN sdeps[k] \ {e} ELSE sdeps[x]
      BY <1>1 DEF IInv, TypeOK
    <3>3. QED
      BY <1>5, <3>1, <3>2
  <2>2. [x \in Sock |-> eps'[x] \cup sdeps'[x]] = [x \in Sock |-> eps[x] \cup sdeps[x]]
    BY <2>1
  <2>3. QED
    BY <1>3, <1>4, <2>2 DEF H!handlevars
<1>6. CASE e \notin eps[k]
  <2> DEFINE live == [x \in Sock |-> eps[x] \cup sdeps[x]]
  <2>1. ASSUME NEW x \in Sock
        PROVE  eps'[x] \cup sdeps'[x] = IF x = k THEN live[k] \ {e} ELSE live[x]
    <3>1. eps'[x] = eps[x]
      BY <1>3
    <3>2. sdeps'[x] = IF x = k THEN sdeps[k] \ {e} ELSE sdeps[x]
      BY <1>1 DEF IInv, TypeOK
    <3>3. QED
      BY <1>6, <3>1, <3>2
  <2>2. [x \in Sock |-> eps'[x] \cup sdeps'[x]] = [live EXCEPT ![k] = @ \ {e}]
    BY <2>1
  <2>3. H!Unlink(k, e)
    BY <1>3, <1>4, <2>2 DEF H!Unlink
  <2>4. H!HNext
    BY <1>2, <2>3 DEF H!HNext
  <2>5. QED
    BY <2>4
<1>7. QED
  BY <1>5, <1>6

\* What the state machine does past "ACTIVE" is not seen through the handles.
LEMMA SameStates ==
    ASSUME IInv, NEW k \in Sock, sstate[k] \notin {"NONE", "ACTIVE"},
           NEW s, s \notin {"NONE", "ACTIVE"}, sstate' = [sstate EXCEPT ![k] = s]
    PROVE  /\ {x \in Sock : sstate'[x] = "NONE"} = {x \in Sock : sstate[x] = "NONE"}
           /\ {x \in Sock : sstate'[x] = "ACTIVE"} = {x \in Sock : sstate[x] = "ACTIVE"}
  BY DEF IInv, TypeOK

\* nn_close closes the descriptor for new calls ...
LEMMA CloseBeginRefines ==
    ASSUME IInv, NEW t \in Thread, NEW f \in Fd, CloseBegin(t, f)
    PROVE  H!HNext
<1>0. PICK k : k = socks[f]
  OBVIOUS
<1>1. /\ sockp[t] = NULL /\ k \in Sock /\ sstate[k] = "ACTIVE"
      /\ sockp' = [sockp EXCEPT ![t] = k]
      /\ eps' = [eps EXCEPT ![k] = {}]
      /\ sdeps' = [sdeps EXCEPT ![k] = @ \cup eps[k]]
      /\ UNCHANGED socks
  BY <1>0 DEF IInv, TypeOK, ThreadAt, CloseBegin, Holdable, globalvars
<1>2. \E s \in Stopping : sstate' = [sstate EXCEPT ![k] = s]
  BY <1>0 DEF CloseBegin, Finish, Stopping
<1>3. /\ {x \in Sock : sstate'[x] = "NONE"} = {x \in Sock : sstate[x] = "NONE"}
      /\ {x \in Sock : sstate'[x] = "ACTIVE"} = {x \in Sock : sstate[x] = "ACTIVE"} \ {k}
  BY <1>1, <1>2 DEF IInv, TypeOK, Stopping
<1>4. [x \in Sock |-> eps'[x] \cup sdeps'[x]] = [x \in Sock |-> eps[x] \cup sdeps[x]]
  <2>1. ASSUME NEW x \in Sock
        PROVE  eps'[x] \cup sdeps'[x] = eps[x] \cup sdeps[x]
    <3>1. /\ eps'[x] = IF x = k THEN {} ELSE eps[x]
          /\ sdeps'[x] = IF x = k THEN sdeps[k] \cup eps[k] ELSE sdeps[x]
      BY <1>1 DEF IInv, TypeOK
    <3>2. QED
      BY <3>1
  <2>2. QED
    BY <2>1
<1>5. H!Close(t, f)
  BY <1>0, <1>1, <1>3, <1>4 DEF H!Close
<1>6. QED
  BY <1>5 DEF H!HNext

\* ... and frees the socket when nothing is left inside.
LEMMA CloseFreeRefines ==
    ASSUME IInv, aborted = FALSE, NEW t \in Thread, CloseFree(t)
    PROVE  H!HNext
<1>0. PICK k, g : k = sockp[t] /\ g = fd[t]
  OBVIOUS
<1>1. /\ pc[t] = "free"
      /\ socks' = [socks EXCEPT ![g] = NULL]
      /\ sstate' = [sstate EXCEPT ![k] = "FREED"]
      /\ sockp' = [sockp EXCEPT ![t] = NULL]
      /\ UNCHANGED <<eps, sdeps>>
  BY <1>0 DEF CloseFree, epvars
<1>2. /\ k \in Sock /\ sstate[k] = "FINI" /\ socks[g] = k /\ g \in Fd
      /\ \A u \in Thread : sockp[u] = k => u = t
      /\ eps[k] = {} /\ sdeps[k] = {}
  BY <1>0, <1>1, Alone
<1>3. /\ {x \in Sock : sstate'[x] = "NONE"} = {x \in Sock : sstate[x] = "NONE"}
      /\ {x \in Sock : sstate'[x] = "ACTIVE"} = {x \in Sock : sstate[x] = "ACTIVE"}
  BY <1>1, <1>2, SameStates
<1>4. H!Free(t, g)
  BY <1>0, <1>1, <1>2, <1>3 DEF H!Free
<1>5. QED
  BY <1>2, <1>4 DEF H!HNext

\* Shutting an endpoint down, receiving, waiting and terminating do not show.
LEMMA ThreadStutters ==
    ASSUME IInv, NEW t \in Thread,
           \/ RmEp(t) \/ Recv(t) \/ Wake(t) \/ GiveUp(t)
           \/ CloseStopped(t) \/ CloseReleased(t)
           \/ TermBegin(t) \/ TermSkip(t) \/ TermEnd(t)
    PROVE  UNCHANGED H!handlevars
<1>1. CASE RmEp(t)
  <2>1. UNCHANGED <<socks, sstate, sockp>>
    BY <1>1 DEF RmEp, globalvars
  <2>2. PICK k : k = sockp[t]
    OBVIOUS
  <2>3. CASE UNCHANGED <<eps, sdeps>>
    BY <2>1, <2>3, SameHandles
  <2>4. CASE \E e \in eps[k] : /\ eps' = [eps EXCEPT ![k] = @ \ {e}]
                               /\ sdeps' = [sdeps EXCEPT ![k] = @ \cup {e}]
    <3>1. PICK e \in eps[k] : /\ eps' = [eps EXCEPT ![k] = @ \ {e}]
                              /\ sdeps' = [sdeps EXCEPT ![k] = @ \cup {e}]
      BY <2>4
    <3>2. ASSUME NEW x \in Sock
          PROVE  eps'[x] \cup sdeps'[x] = eps[x] \cup sdeps[x]
      <4>1. /\ eps'[x] = IF x = k THEN eps[k] \ {e} ELSE eps[x]
            /\ sdeps'[x] = IF x = k THEN sdeps[k] \cup {e} ELSE sdeps[x]
        BY <3>1 DEF IInv, TypeOK
      <4>2. QED
        BY <3>1, <4>1
    <3>3. QED
      BY <2>1, <3>2, SameHandles
  <2>5. QED
    BY <1>1, <2>2, <2>3, <2>4 DEF RmEp
<1>2. CASE \/ Recv(t) \/ Wake(t) \/ GiveUp(t)
           \/ CloseStopped(t) \/ CloseReleased(t)
           \/ TermBegin(t) \/ TermSkip(t) \/ TermEnd(t)
  <2>1. UNCHANGED <<socks, sstate, sockp, eps, sdeps>>
    BY <1>2 DEF Recv, Wake, GiveUp, CloseStopped, CloseReleased, TermBegin, TermSkip,
                TermEnd, globalvars, epvars
  <2>2. QED
    BY <2>1, SameHandles
<1>3. QED
  BY <1>1, <1>2

\* Nor do messages and the protocol's stop.
LEMMA EventStutters ==
    ASSUME IInv, NEW k \in Sock, Deliver(k) \/ Lose(k) \/ ProtocolStopped(k)
    PROVE  UNCHANGED H!handlevars
<1>1. CASE Deliver(k) \/ Lose(k)
  <2>1. UNCHANGED <<socks, sstate, sockp, eps, sdeps>>
    BY <1>1 DEF Deliver, Lose, globalvars, epvars, threadvars
  <2>2. QED
    BY <2>1, SameHandles
<1>2. CASE ProtocolStopped(k)
  <2>1. /\ sstate[k] = "STOPPING" /\ sstate' = [sstate EXCEPT ![k] = "FINI"]
        /\ UNCHANGED <<socks, sockp, eps, sdeps>>
    BY <1>2 DEF ProtocolStopped, globalvars, epvars, threadvars
  <2>2. /\ {x \in Sock : sstate'[x] = "NONE"} = {x \in Sock : sstate[x] = "NONE"}
        /\ {x \in Sock : sstate'[x] = "ACTIVE"} = {x \in Sock : sstate[x] = "ACTIVE"}
    BY <2>1, SameStates
  <2>3. QED
    BY <2>1, <2>2 DEF H!handlevars
<1>3. QED
  BY <1>1, <1>2

\* Before the first nn_socket every descriptor is free.
LEMMA InitRefines == Init => H!HInit
<1> SUFFICES ASSUME Init
             PROVE  H!HInit
  OBVIOUS
<1>1. /\ socks = [f \in Fd |-> NULL] /\ sockp = [t \in Thread |-> NULL]
      /\ \A k \in Sock : sstate[k] = "NONE" /\ eps[k] = {} /\ sdeps[k] = {}
  BY DEF Init
<1>2. /\ {k \in Sock : sstate[k] = "NONE"} = Sock
      /\ {k \in Sock : sstate[k] = "ACTIVE"} = {}
      /\ [k \in Sock |-> eps[k] \cup sdeps[k]] = [k \in Sock |-> {}]
  BY <1>1
<1>3. QED
  BY <1>1, <1>2 DEF H!HInit

\* Every critical section is one step of the handles, or none.
LEMMA NextRefines ==
    ASSUME IInv, [Next]_vars
    PROVE  [H!HNext]_(H!handlevars)
<1>1. CASE UNCHANGED vars
  <2>1. UNCHANGED <<socks, sstate, sockp, eps, sdeps>>
    BY <1>1 DEF vars, globalvars, epvars, threadvars
  <2>2. QED
    BY <2>1, SameHandles
<1>2. ASSUME aborted = FALSE, NEW t \in Thread, Continue(t) \/ Call(t)
      PROVE  [H!HNext]_(H!handlevars)
  <2>1. CASE SocketOpen(t) \/ CloseFree(t) \/ Rele(t)
    BY <1>2, <2>1, OpenRefines, CloseFreeRefines, ReleRefines
  <2>2. CASE AddEp(t)
    BY <2>2, AddEpRefines
  <2>3. CASE \E f \in Fd : Hold(t, f) \/ CloseBegin(t, f)
    BY <2>3, HoldRefines, CloseBeginRefines
  <2>4. CASE \/ RmEp(t) \/ Recv(t) \/ Wake(t) \/ GiveUp(t)
             \/ CloseStopped(t) \/ CloseReleased(t)
             \/ TermBegin(t) \/ TermSkip(t) \/ TermEnd(t)
    BY <2>4, ThreadStutters
  <2>5. QED
    BY <1>2, <2>1, <2>2, <2>3, <2>4 DEF Continue, Call
<1>3. ASSUME NEW k \in Sock, Event(k)
      PROVE  [H!HNext]_(H!handlevars)
  BY <1>3, EpStoppedRefines, EventStutters DEF Event
<1>4. ~aborted => aborted = FALSE
  BY DEF IInv, TypeOK
<1>5. QED
  BY <1>1, <1>2, <1>3, <1>4 DEF Next, Ended

\* The socket table, the holds and the socket's state machine keep the promise
\* of the descriptors (RefinesHandles): a call enters a socket through an open
\* descriptor only, and the socket is freed and its descriptor given away again
\* only when no thread and no endpoint is left inside.
THEOREM SocketImplementsHandles ==
    Spec => RefinesHandles
<1>1. IInv /\ [Next]_vars => [H!HNext]_(H!handlevars)
  BY NextRefines
<1>2. QED
  BY InitRefines, Always, <1>1, PTL DEF Spec, RefinesHandles, H!HSpec
=============================================================================
