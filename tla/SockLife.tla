------------------------------ MODULE SockLife ------------------------------
(***************************************************************************)
(* The life of sockets under concurrent API calls: the global socket table *)
(* (core/global.c), the hold count, the two semaphores and the root state  *)
(* machine of every socket (core/sock.c) and the endpoints that stop       *)
(* asynchronously (core/ep.c).  Application threads open sockets, bind,    *)
(* connect, shut endpoints down, block in a receive, close and terminate,  *)
(* while the transports deliver messages and finish stopping on their own. *)
(*                                                                         *)
(* A step is one critical section of the code: either a section under the  *)
(* global lock (hold, release, open, the first part of close, free) or one *)
(* session in the socket's context, from nn_ctx_enter to nn_ctx_leave,     *)
(* with the events it drains and nn_sock_onleave at its end.  A call that  *)
(* fails with EBADF, ETERM or EMFILE before it holds a socket changes      *)
(* nothing and has no step.                                                *)
(***************************************************************************)
EXTENDS Integers, FiniteSets

CONSTANTS
    Thread,      \* the application's threads
    Sock,        \* bound: the socket objects ever allocated
    MaxFd,       \* NN_MAX_SOCKETS
    MaxEp,       \* bound: endpoints created per socket
    MaxMsg,      \* bound: messages waiting to be received
    StopHook,    \* the protocol has a stop function (nn_sockbase_vfptr.stop)
    NULL

ASSUME SockLifeAssumption ==
    /\ IsFiniteSet(Thread)
    /\ MaxFd \in Nat \ {0}
    /\ MaxEp \in Nat
    /\ MaxMsg \in Nat
    /\ StopHook \in BOOLEAN
    /\ NULL \notin Sock

VARIABLES
    up,          \* self.socks is allocated (nn_global_init was run)
    socks,       \* self.socks
    unused,      \* self.unused, the stack of unused descriptors
    nsocks,      \* self.nsocks
    flags,       \* self.flags
    sstate,      \* nn_sock.state, with "NONE" before and "FREED" after its life
    holds,       \* nn_sock.holds
    termsem,     \* nn_sock.termsem
    relesem,     \* nn_sock.relesem
    eps,         \* nn_sock.eps, the ids of the active endpoints
    sdeps,       \* nn_sock.sdeps, the ids of those that are stopping
    eid,         \* nn_sock.eid
    msgs,        \* messages the protocol could hand out at once
    inflag,      \* NN_SOCK_FLAG_IN
    rcvfd,       \* the efd nn_sock.rcvfd is signalled
    pc,          \* where each thread is
    op,          \* the call it is in
    sockp,       \* the socket it works on
    fd,          \* the descriptor it closes
    term,        \* the loop counter of nn_term, -1 outside
    late,        \* history: the sockets that were given an endpoint when they
                 \* were being closed already
    aborted      \* an assertion of the code failed

globalvars == <<up, socks, unused, nsocks, flags>>
epvars     == <<eps, sdeps, eid, late>>
recvvars   == <<msgs, inflag, rcvfd>>
threadvars == <<pc, op, sockp, fd, term>>
vars == <<globalvars, sstate, holds, termsem, relesem, epvars, recvvars,
          threadvars, aborted>>

Fd == 0..(MaxFd - 1)
EpId == 1..MaxEp

Init ==
    /\ up = FALSE
    /\ socks = [f \in Fd |-> NULL]
    /\ unused = [i \in Fd |-> MaxFd - i - 1]
    /\ nsocks = 0
    /\ flags = {}
    /\ sstate = [k \in Sock |-> "NONE"]
    /\ holds = [k \in Sock |-> 0]
    /\ termsem = [k \in Sock |-> 0]
    /\ relesem = [k \in Sock |-> 0]
    /\ eps = [k \in Sock |-> {}]
    /\ sdeps = [k \in Sock |-> {}]
    /\ eid = [k \in Sock |-> 1]
    /\ msgs = [k \in Sock |-> 0]
    /\ inflag = [k \in Sock |-> FALSE]
    /\ rcvfd = [k \in Sock |-> FALSE]
    /\ pc = [t \in Thread |-> "idle"]
    /\ op = [t \in Thread |-> "none"]
    /\ sockp = [t \in Thread |-> NULL]
    /\ fd = [t \in Thread |-> 0]
    /\ term = [t \in Thread |-> -1]
    /\ late = {}
    /\ aborted = FALSE

Goto(t, label) == pc' = [pc EXCEPT ![t] = label]

\* A thread that is in no call.
Free(t) == pc[t] = "idle" /\ term[t] = -1

-----------------------------------------------------------------------------
(* Under the global lock.                                                  *)

\* nn_socket -> nn_global_init, nn_global_create_socket, nn_sock_init.
SocketOpen(t) ==
    LET stack == IF up THEN unused ELSE [i \in Fd |-> MaxFd - i - 1]
        f     == stack[MaxFd - nsocks - 1]
    IN
    /\ Free(t)
    /\ flags = {}
    /\ nsocks < MaxFd
    /\ up' = TRUE
    /\ unused' = stack
    /\ nsocks' = nsocks + 1
    /\ \E k \in Sock :
          /\ sstate[k] = "NONE"
          /\ socks' = [socks EXCEPT ![f] = k]
          /\ sstate' = [sstate EXCEPT ![k] = "ACTIVE"]
          /\ holds' = [holds EXCEPT ![k] = 1]
    /\ UNCHANGED <<flags, termsem, relesem, epvars, recvvars, threadvars, aborted>>

\* Faulty variant: the socket's state is not looked at.
HoldableAny(f) == up /\ socks[f] # NULL

\* nn_global_hold_socket_locked finds a socket that nn_sock_hold accepts.
Holdable(f) == up /\ socks[f] # NULL /\ sstate[socks[f]] = "ACTIVE"

\* nn_bind, nn_connect, nn_shutdown, nn_recvmsg -> nn_global_hold_socket.
Hold(t, f) ==
    /\ Free(t)
    /\ Holdable(f)
    /\ holds' = [holds EXCEPT ![socks[f]] = @ + 1]
    /\ sockp' = [sockp EXCEPT ![t] = socks[f]]
    /\ \E o \in {"add_ep", "rm_ep", "recv"} : op' = [op EXCEPT ![t] = o]
    /\ Goto(t, "held")
    /\ UNCHANGED <<globalvars, sstate, termsem, relesem, epvars, recvvars,
                   fd, term, aborted>>

\* Faulty variant: the count is tested too early.
ReleasedEarly(k, n) ==
    /\ holds' = [holds EXCEPT ![k] = @ - n]
    /\ relesem' = [relesem EXCEPT ![k] = IF holds[k] = 0 THEN @ + 1 ELSE @]

\* nn_sock_rele, n times: the last one posts relesem.
Released(k, n) ==
    /\ holds' = [holds EXCEPT ![k] = @ - n]
    /\ relesem' = [relesem EXCEPT ![k] = IF holds[k] = n THEN @ + 1 ELSE @]

\* Faulty variant: the closing thread is not told.
ReleSilent(t) ==
    /\ pc[t] = "rele"
    /\ holds' = [holds EXCEPT ![sockp[t]] = @ - 1]
    /\ Goto(t, "idle")
    /\ sockp' = [sockp EXCEPT ![t] = NULL]
    /\ op' = [op EXCEPT ![t] = "none"]
    /\ UNCHANGED <<globalvars, sstate, termsem, relesem, epvars, recvvars,
                   fd, term, aborted>>

\* nn_global_rele_socket at the end of every call.
Rele(t) ==
    /\ pc[t] = "rele"
    /\ Released(sockp[t], 1)
    /\ Goto(t, "idle")
    /\ sockp' = [sockp EXCEPT ![t] = NULL]
    /\ op' = [op EXCEPT ![t] = "none"]
    /\ UNCHANGED <<globalvars, sstate, termsem, epvars, recvvars, fd, term, aborted>>
-----------------------------------------------------------------------------
(* In the socket's context.                                                *)

\* Keep rcvfd and NN_SOCK_FLAG_IN in step with the n messages the protocol has
\* for the user.  Unsignalling an efd that is not signalled fails an assertion.
Signal(k, n) ==
    /\ inflag' = [inflag EXCEPT ![k] = n > 0]
    /\ rcvfd' = [rcvfd EXCEPT ![k] = IF n > 0 /\ ~inflag[k] THEN TRUE
                                     ELSE IF n = 0 /\ inflag[k] THEN FALSE
                                     ELSE @]
    /\ aborted' = (n = 0 /\ inflag[k] /\ ~rcvfd[k])

\* Faulty variants, one each: the flag is not cleared; and a socket that is being
\* closed is not left alone.
OnLeaveStuck(k, n) ==
    /\ msgs' = [msgs EXCEPT ![k] = n]
    /\ inflag' = [inflag EXCEPT ![k] = @ \/ n > 0]
    /\ rcvfd' = [rcvfd EXCEPT ![k] = (@ \/ ~inflag[k]) /\ n > 0]
    /\ UNCHANGED aborted
OnLeaveAlways(k, n) == msgs' = [msgs EXCEPT ![k] = n] /\ Signal(k, n)

\* nn_sock_onleave, once the protocol has n messages for the user.
OnLeave(k, n) ==
    /\ msgs' = [msgs EXCEPT ![k] = n]
    /\ IF sstate[k] # "ACTIVE" THEN UNCHANGED <<inflag, rcvfd, aborted>>
                               ELSE Signal(k, n)

\* nn_global_create_ep, nn_sock_add_ep, nn_ep_init, nn_ep_start; the address
\* may be refused.  There is no check of the socket's state: an endpoint that
\* comes late is one that nobody stops.
AddEp(t) ==
    LET k == sockp[t] IN
    /\ pc[t] = "held" /\ op[t] = "add_ep"
    /\ \/ /\ eid[k] <= MaxEp
          /\ eps' = [eps EXCEPT ![k] = @ \cup {eid[k]}]
          /\ eid' = [eid EXCEPT ![k] = @ + 1]
          /\ late' = IF sstate[k] = "ACTIVE" THEN late ELSE late \cup {k}
       \/ UNCHANGED <<eps, eid, late>>
    /\ Goto(t, "rele")
    /\ UNCHANGED <<globalvars, sstate, holds, termsem, relesem, sdeps, recvvars,
                   op, sockp, fd, term, aborted>>

\* nn_sock_rm_ep: -EINVAL unless the endpoint is an active one.
RmEp(t) ==
    LET k == sockp[t] IN
    /\ pc[t] = "held" /\ op[t] = "rm_ep"
    /\ \E e \in EpId :
          IF e \in eps[k]
          THEN /\ eps' = [eps EXCEPT ![k] = @ \ {e}]
               /\ sdeps' = [sdeps EXCEPT ![k] = @ \cup {e}]
          ELSE UNCHANGED <<eps, sdeps>>
    /\ Goto(t, "rele")
    /\ UNCHANGED <<globalvars, sstate, holds, termsem, relesem, eid, late, recvvars,
                   op, sockp, fd, term, aborted>>

\* One round of the loop of nn_sock_recv, in the context.
Recv(t) ==
    LET k == sockp[t] IN
    /\ pc[t] \in {"held", "woken"} /\ op[t] = "recv"
    /\ \/ /\ sstate[k] # "ACTIVE"                      \* -EBADF
          /\ Goto(t, "rele")
          /\ UNCHANGED <<recvvars, aborted>>
       \/ /\ sstate[k] = "ACTIVE" /\ msgs[k] > 0       \* a message
          /\ OnLeave(k, msgs[k] - 1)
          /\ Goto(t, "rele")
       \/ /\ sstate[k] = "ACTIVE" /\ msgs[k] = 0       \* -EAGAIN, or block
          /\ OnLeave(k, 0)
          /\ \E label \in {"rele", "waiting"} : Goto(t, label)
    /\ UNCHANGED <<globalvars, sstate, holds, termsem, relesem, epvars,
                   op, sockp, fd, term>>

\* nn_efd_wait sees rcvfd readable.
Wake(t) ==
    /\ pc[t] = "waiting"
    /\ rcvfd[sockp[t]]
    /\ Goto(t, "woken")
    /\ UNCHANGED <<globalvars, sstate, holds, termsem, relesem, epvars, recvvars,
                   op, sockp, fd, term, aborted>>

\* nn_efd_wait ends with -ETIMEDOUT (if there is a timeout) or -EINTR.
GiveUp(t) ==
    /\ pc[t] = "waiting"
    /\ Goto(t, "rele")
    /\ UNCHANGED <<globalvars, sstate, holds, termsem, relesem, epvars, recvvars,
                   op, sockp, fd, term, aborted>>
-----------------------------------------------------------------------------
(* Events from the transports, each in the socket's context.               *)

\* NN_PIPE_IN: a message becomes available.  While endpoints are stopping it is
\* ignored; after that a pipe is one of a late endpoint and not expected.
Deliver(k) ==
    /\ eps[k] \cup sdeps[k] # {}
    /\ \/ /\ sstate[k] = "ACTIVE"
          /\ msgs[k] < MaxMsg
          /\ OnLeave(k, msgs[k] + 1)
       \/ /\ sstate[k] \in {"STOPPING", "FINI"}
          /\ aborted' = TRUE
          /\ UNCHANGED recvvars
    /\ UNCHANGED <<globalvars, sstate, holds, termsem, relesem, epvars, threadvars>>

\* nn_sock_rm: a connection breaks and its messages are gone.
Lose(k) ==
    /\ sstate[k] \in {"ACTIVE", "STOPPING_EPS"}
    /\ eps[k] \cup sdeps[k] # {}
    /\ msgs[k] > 0
    /\ \E n \in 0..(msgs[k] - 1) : OnLeave(k, n)
    /\ UNCHANGED <<globalvars, sstate, holds, termsem, relesem, epvars, threadvars>>

\* Faulty variant: endpoints that are still stopping are not waited for.
FinishEarly(k, sd, ep) ==
    /\ sstate' = [sstate EXCEPT ![k] = IF StopHook THEN "STOPPING" ELSE "FINI"]
    /\ termsem' = [termsem EXCEPT ![k] = IF StopHook THEN @ ELSE @ + 1]
    /\ aborted' = (ep # {})

\* finish2 and finish1 in nn_sock_shutdown: go on as far as possible when
\* the endpoints in sd are still stopping and those in ep are active.
Finish(k, sd, ep) ==
    /\ sstate' = [sstate EXCEPT ![k] =
                    IF sd # {} \/ ep # {} THEN "STOPPING_EPS"
                    ELSE IF StopHook THEN "STOPPING" ELSE "FINI"]
    /\ termsem' = [termsem EXCEPT ![k] =
                     IF sd = {} /\ ep = {} /\ ~StopHook THEN @ + 1 ELSE @]
    /\ aborted' = (sd = {} /\ ep # {})

\* A transport finished stopping: nn_ep_stopped makes the endpoint idle and
\* NN_EP_STOPPED lets the socket deallocate it.
EpStopped(k) ==
    /\ \E e \in sdeps[k] :
          /\ sdeps' = [sdeps EXCEPT ![k] = @ \ {e}]
          /\ CASE sstate[k] = "ACTIVE" -> UNCHANGED <<sstate, termsem, aborted>>
               [] sstate[k] = "STOPPING_EPS" -> Finish(k, sdeps[k] \ {e}, eps[k])
               [] OTHER -> aborted' = TRUE /\ UNCHANGED <<sstate, termsem>>
    /\ UNCHANGED <<globalvars, holds, relesem, eps, eid, late, recvvars, threadvars>>

\* nn_sock_stopped: the protocol's own shutdown is complete.
ProtocolStopped(k) ==
    /\ sstate[k] = "STOPPING"
    /\ sstate' = [sstate EXCEPT ![k] = "FINI"]
    /\ termsem' = [termsem EXCEPT ![k] = @ + 1]
    /\ UNCHANGED <<globalvars, holds, relesem, epvars, recvvars, threadvars, aborted>>
-----------------------------------------------------------------------------
(* nn_close and nn_term.                                                   *)

\* The first half of nn_close, under the global lock: hold, nn_sock_stop (in
\* the context: wake the receivers, stop the endpoints) and both releases.
CloseBegin(t, f) ==
    LET k == socks[f] IN
    /\ pc[t] = "idle"
    /\ term[t] \in {-1, f}
    /\ Holdable(f)
    /\ rcvfd' = [rcvfd EXCEPT ![k] = TRUE]
    /\ eps' = [eps EXCEPT ![k] = {}]
    /\ sdeps' = [sdeps EXCEPT ![k] = @ \cup eps[k]]
    /\ Finish(k, sdeps[k] \cup eps[k], {})
    /\ Released(k, 1)       \* holds + 1 - 1 - 1
    /\ sockp' = [sockp EXCEPT ![t] = k]
    /\ op' = [op EXCEPT ![t] = "close"]
    /\ fd' = [fd EXCEPT ![t] = f]
    /\ Goto(t, "termwait")
    /\ UNCHANGED <<globalvars, eid, late, msgs, inflag, term>>

\* Faulty variant: the holds are not waited for.
CloseStoppedFrees(t) ==
    LET k == sockp[t] IN
    /\ pc[t] = "termwait"
    /\ termsem[k] > 0
    /\ termsem' = [termsem EXCEPT ![k] = @ - 1]
    /\ Goto(t, "free")
    /\ UNCHANGED <<globalvars, sstate, holds, relesem, epvars, recvvars,
                   op, sockp, fd, term, aborted>>

\* nn_sock_term waits until the state machine is through ...
CloseStopped(t) ==
    LET k == sockp[t] IN
    /\ pc[t] = "termwait"
    /\ termsem[k] > 0
    /\ termsem' = [termsem EXCEPT ![k] = @ - 1]
    /\ Goto(t, "relewait")
    /\ UNCHANGED <<globalvars, sstate, holds, relesem, epvars, recvvars,
                   op, sockp, fd, term, aborted>>

\* ... and until all holds are released; then it tears the socket down, where
\* nn_list_term asserts that no endpoint is left.
CloseReleased(t) ==
    LET k == sockp[t] IN
    /\ pc[t] = "relewait"
    /\ relesem[k] > 0
    /\ relesem' = [relesem EXCEPT ![k] = @ - 1]
    /\ aborted' = (eps[k] \cup sdeps[k] # {})
    /\ Goto(t, "free")
    /\ UNCHANGED <<globalvars, sstate, holds, termsem, epvars, recvvars,
                   op, sockp, fd, term>>

\* Faulty variant: the count is decremented before it is used as the index.
CloseFreeIndex(t) ==
    LET k == sockp[t] IN
    /\ pc[t] = "free"
    /\ socks' = [socks EXCEPT ![fd[t]] = NULL]
    /\ unused' = [unused EXCEPT ![(MaxFd - nsocks + 1) % MaxFd] = fd[t]]
    /\ nsocks' = nsocks - 1
    /\ up' = (nsocks' > 0)
    /\ sstate' = [sstate EXCEPT ![k] = "FREED"]
    /\ Goto(t, "idle")
    /\ sockp' = [sockp EXCEPT ![t] = NULL]
    /\ op' = [op EXCEPT ![t] = "none"]
    /\ fd' = [fd EXCEPT ![t] = 0]
    /\ term' = [term EXCEPT ![t] = IF @ = -1 THEN @ ELSE @ + 1]
    /\ UNCHANGED <<flags, holds, termsem, relesem, epvars, recvvars, aborted>>

\* The second half of nn_close, under the global lock, with nn_global_term
\* when this was the last socket.
CloseFree(t) ==
    LET k == sockp[t] IN
    /\ pc[t] = "free"
    /\ socks' = [socks EXCEPT ![fd[t]] = NULL]
    /\ unused' = [unused EXCEPT ![MaxFd - nsocks] = fd[t]]
    /\ nsocks' = nsocks - 1
    /\ up' = (nsocks' > 0)
    /\ sstate' = [sstate EXCEPT ![k] = "FREED"]
    /\ Goto(t, "idle")
    /\ sockp' = [sockp EXCEPT ![t] = NULL]
    /\ op' = [op EXCEPT ![t] = "none"]
    /\ fd' = [fd EXCEPT ![t] = 0]
    /\ term' = [term EXCEPT ![t] = IF @ = -1 THEN @ ELSE @ + 1]
    /\ UNCHANGED <<flags, holds, termsem, relesem, epvars, recvvars, aborted>>

\* nn_term, which does nothing before the first nn_socket.
TermBegin(t) ==
    /\ Free(t)
    /\ \E k \in Sock : sstate[k] # "NONE"
    /\ flags' = flags \cup {"TERMING"}
    /\ term' = [term EXCEPT ![t] = 0]
    /\ UNCHANGED <<up, socks, unused, nsocks, sstate, holds, termsem, relesem,
                   epvars, recvvars, pc, op, sockp, fd, aborted>>

\* Its nn_close(i) answers -EBADF.
TermSkip(t) ==
    /\ pc[t] = "idle"
    /\ term[t] \in Fd
    /\ ~Holdable(term[t])
    /\ term' = [term EXCEPT ![t] = @ + 1]
    /\ UNCHANGED <<globalvars, sstate, holds, termsem, relesem, epvars, recvvars,
                   pc, op, sockp, fd, aborted>>

TermEnd(t) ==
    /\ pc[t] = "idle"
    /\ term[t] = MaxFd
    /\ flags' = (flags \ {"TERMING"}) \cup {"TERMED"}
    /\ term' = [term EXCEPT ![t] = -1]
    /\ UNCHANGED <<up, socks, unused, nsocks, sstate, holds, termsem, relesem,
                   epvars, recvvars, pc, op, sockp, fd, aborted>>
-----------------------------------------------------------------------------
\* What a thread inside a call does next, and what the application starts.
Continue(t) ==
    \/ AddEp(t) \/ RmEp(t) \/ Recv(t) \/ Wake(t) \/ Rele(t)
    \/ CloseStopped(t) \/ CloseReleased(t) \/ CloseFree(t)
    \/ TermSkip(t) \/ TermEnd(t)
    \/ \E f \in Fd : term[t] = f /\ CloseBegin(t, f)

Call(t) ==
    \/ SocketOpen(t) \/ TermBegin(t) \/ GiveUp(t)
    \/ \E f \in Fd : Hold(t, f) \/ (term[t] = -1 /\ CloseBegin(t, f))

Event(k) == Deliver(k) \/ Lose(k) \/ EpStopped(k) \/ ProtocolStopped(k)

\* A failed assertion ends the program, anything else lets it go on.
Ended == aborted /\ UNCHANGED vars

Next ==
    \/ /\ ~aborted
       /\ \/ \E t \in Thread : Continue(t) \/ Call(t)
          \/ \E k \in Sock : Event(k)
    \/ Ended

Spec == Init /\ [][Next]_vars

\* Threads inside a call keep running, transports and protocols that were
\* asked to stop do so; nothing makes a receive time out.
Fairness ==
    /\ \A t \in Thread : WF_vars(~aborted /\ Continue(t))
    /\ \A k \in Sock : WF_vars(~aborted /\ EpStopped(k))
                       /\ WF_vars(~aborted /\ ProtocolStopped(k))

FairSpec == Spec /\ Fairness
-----------------------------------------------------------------------------
TypeOK ==
    /\ up \in BOOLEAN
    /\ socks \in [Fd -> Sock \cup {NULL}]
    /\ unused \in [Fd -> Fd]
    /\ nsocks \in 0..MaxFd
    /\ flags \in SUBSET {"TERMING", "TERMED"}
    /\ sstate \in [Sock -> {"NONE", "ACTIVE", "STOPPING_EPS", "STOPPING",
                            "FINI", "FREED"}]
    /\ holds \in [Sock -> Nat]
    /\ termsem \in [Sock -> Nat]
    /\ relesem \in [Sock -> Nat]
    /\ eps \in [Sock -> SUBSET EpId]
    /\ sdeps \in [Sock -> SUBSET EpId]
    /\ eid \in [Sock -> Nat]
    /\ msgs \in [Sock -> 0..MaxMsg]
    /\ inflag \in [Sock -> BOOLEAN]
    /\ rcvfd \in [Sock -> BOOLEAN]
    /\ pc \in [Thread -> {"idle", "held", "waiting", "woken", "rele",
                          "termwait", "relewait", "free"}]
    /\ op \in [Thread -> {"none", "add_ep", "rm_ep", "recv", "close"}]
    /\ sockp \in [Thread -> Sock \cup {NULL}]
    /\ fd \in [Thread -> Fd]
    /\ term \in [Thread -> -1..MaxFd]
    /\ late \in SUBSET Sock
    /\ aborted \in BOOLEAN

\* No assertion fails: the endpoints are gone when the protocol is stopped
\* (sock.c:898) and when the lists are torn down (sock.c:239), no endpoint
\* reports to a socket past that point (sock.c:909, 924), and an efd is
\* unsignalled only when it is signalled (efd_eventfd.inc).  The one case in
\* which the code has no defence: a socket that is being closed was given an
\* endpoint late.
NeverAborts ==
    aborted => \E k \in late : sstate[k] \in {"STOPPING_EPS", "STOPPING", "FINI"}

\* The threads that hold socket k.
Holders(k) ==
    {t \in Thread : sockp[t] = k /\ pc[t] \in {"held", "waiting", "woken", "rele"}}

Closers(k) ==
    {t \in Thread : sockp[t] = k /\ pc[t] \in {"termwait", "relewait", "free"}}

\* The hold count of a socket is its holders plus the caller's hold, which
\* nn_close drops.
HoldsCounted ==
    \A k \in Sock :
       holds[k] = Cardinality(Holders(k)) + (IF sstate[k] = "ACTIVE" THEN 1 ELSE 0)

\* The holds are counted, and a freed socket is used by no thread, no endpoint and no descriptor, and
\* while it is closed exactly one thread is there to free it ("The socket
\* itself will not be freed while the hold is active", global.c:1122).
NoUseAfterFree ==
    /\ TypeOK /\ HoldsCounted
    /\ \A k \in Sock :
       /\ sstate[k] \in {"NONE", "FREED"} =>
             /\ \A t \in Thread : sockp[t] # k
             /\ \A f \in Fd : socks[f] # k
             /\ eps[k] \cup sdeps[k] = {}
       /\ sstate[k] \in {"STOPPING_EPS", "STOPPING", "FINI"} =>
             \E t \in Thread : Closers(k) = {t} /\ socks[fd[t]] = k

\* The stack of unused descriptors holds exactly the descriptors without a
\* socket, each once, so a new socket never gets a descriptor in use.
UnusedSound ==
    up => LET free == 0..(MaxFd - nsocks - 1) IN
          /\ {unused[i] : i \in free} = {f \in Fd : socks[f] = NULL}
          /\ \A i, j \in free : unused[i] = unused[j] => i = j

\* NN_RCVFD is readable exactly when a receive would not block, and a socket
\* being closed wakes every receiver: none sleeps while it has something to do.
RcvfdSound ==
    \A k \in Sock :
       /\ sstate[k] = "ACTIVE" =>
             (rcvfd[k] <=> msgs[k] > 0) /\ (inflag[k] <=> msgs[k] > 0)
       /\ sstate[k] \in {"STOPPING_EPS", "STOPPING", "FINI"} => rcvfd[k]

\* nn_close returns: endpoints stop, holders leave, the socket is freed.  Here
\* and below, unless an endpoint that came late ends the program.
CloseReturns ==
    \A t \in Thread : pc[t] = "termwait" ~> (pc[t] = "idle" \/ late # {})

\* nn_term returns.
TermReturns == \A t \in Thread : term[t] = 0 ~> (term[t] = -1 \/ late # {})

\* A thread blocked in a receive without a timeout returns when the socket is
\* closed by another thread ("wake any threads waiting to recv or send data").
BlockedReturns ==
    \A t \in Thread :
       pc[t] = "waiting" /\ sstate[sockp[t]] # "ACTIVE"
          ~> (pc[t] = "idle" \/ late # {})

\* The descriptors keep their promise.
H == INSTANCE Handles WITH
        Ep     <- EpId,
        table  <- socks,
        fresh  <- {k \in Sock : sstate[k] = "NONE"},
        open   <- {k \in Sock : sstate[k] = "ACTIVE"},
        inside <- sockp,
        live   <- [k \in Sock |-> eps[k] \cup sdeps[k]]

RefinesHandles == H!HSpec
=============================================================================
