----------------------------- MODULE FairQueue -----------------------------
(***************************************************************************)
(* The receiving side of a socket over in-process pipes: the fair queuer   *)
(* (fq.c) on its prioritised list, the inbound half of every pipe (pipe.c) *)
(* and the inbound message queue of the pipe's transport (sinproc.c,       *)
(* msgqueue.c).  A pipe enters the list when its first message arrives and *)
(* leaves it when its queue is drained; a pipe with more messages stays.   *)
(* Everything below runs in the socket's context, so an event raised by a  *)
(* handler (NN_PIPE_IN) is processed before anybody else can interfere.    *)
(***************************************************************************)
EXTENDS PrioList

CONSTANT MaxQueue  \* bound: the messages in an inbound queue

ASSUME FairQueueAssumption == MaxQueue \in Nat \ {0}

VARIABLES
    queue,      \* nn_msgqueue.count of each pipe's transport
    receiving,  \* NN_SINPROC_FLAG_RECEIVING: the peer's message did not fit
    instate,    \* nn_pipebase.instate between calls: "ASYNC" or "IDLE"
    passed      \* history: <<p, q>> when q was served while p was waiting,
                \* both having stayed in the list ever since

fqvars == <<vars, queue, receiving, instate, passed>>

FqInit ==
    /\ Init
    /\ queue = [p \in Pipe |-> 0]
    /\ receiving = [p \in Pipe |-> FALSE]
    /\ instate = [p \in Pipe |-> "ASYNC"]
    /\ passed = {}

\* Pairs of pipes that both stayed in the list.
Waiting(pairs) == {pq \in pairs : Listed(pq[1])' /\ Listed(pq[2])'}

\* nn_pipebase_start: the socket adds the pipe, nothing is readable yet.
PipeStart(p) ==
    /\ Add(p)
    /\ queue' = [queue EXCEPT ![p] = 0]
    /\ receiving' = [receiving EXCEPT ![p] = FALSE]
    /\ instate' = [instate EXCEPT ![p] = "ASYNC"]
    /\ passed' = Waiting(passed)

\* nn_pipebase_stop on a broken connection: the unread messages are lost.
PipeStop(p) ==
    /\ RmInactive(p) \/ RmActive(p)
    /\ queue' = [queue EXCEPT ![p] = 0]
    /\ receiving' = [receiving EXCEPT ![p] = FALSE]
    /\ passed' = Waiting(passed)
    /\ UNCHANGED instate

\* NN_SINPROC_SENT with an empty queue: the message is stored and
\* nn_pipebase_received raises NN_PIPE_IN, which activates the pipe.
SentFirst(p) ==
    /\ queue[p] = 0
    /\ instate[p] = "ASYNC"
    /\ Activate(p)
    /\ queue' = [queue EXCEPT ![p] = 1]
    /\ instate' = [instate EXCEPT ![p] = "IDLE"]
    /\ passed' = Waiting(passed)
    /\ UNCHANGED receiving

\* NN_SINPROC_SENT with messages waiting: stored if it fits, otherwise left
\* with the peer, which cannot send again until it is taken.  nn_msgqueue_send
\* limits the octets in the queue, not the messages: behind another message
\* any message may fit or not.
SentMore(p) ==
    /\ priority[p] # 0
    /\ queue[p] > 0
    /\ ~receiving[p]
    /\ \/ /\ queue[p] < MaxQueue
          /\ queue' = [queue EXCEPT ![p] = @ + 1]
          /\ UNCHANGED receiving
       \/ /\ receiving' = [receiving EXCEPT ![p] = TRUE]
          /\ UNCHANGED queue
    /\ UNCHANGED <<vars, instate, passed>>

\* What nn_sinproc_recv may leave in the queue of pipe p: it tries to pull in
\* the lingering message, which always fits into an empty queue.
Left(p) ==
    IF receiving[p] THEN {queue[p]} \cup ({queue[p] - 1} \ {0})
                    ELSE {queue[p] - 1}

\* Faulty variant: the pipe is released although messages are left.
FqRecvReleases ==
    LET p == slotcurrent[current] IN
    /\ current # -1
    /\ \E left \in Left(p) :
          /\ queue' = [queue EXCEPT ![p] = left]
          /\ receiving' = [receiving EXCEPT ![p] = @ /\ left < queue[p]]
          /\ instate' = [instate EXCEPT ![p] = IF left > 0 THEN "IDLE" ELSE "ASYNC"]
    /\ Serve(TRUE)
    /\ passed' = Waiting(passed)

\* nn_fq_recv -> nn_pipe_recv -> nn_sinproc_recv: take a message; the pipe is
\* released exactly when its queue ran empty.
FqRecv ==
    LET p == slotcurrent[current] IN
    /\ current # -1
    /\ \E left \in Left(p) :
          /\ queue' = [queue EXCEPT ![p] = left]
          /\ receiving' = [receiving EXCEPT ![p] = @ /\ left < queue[p]]
          /\ instate' = [instate EXCEPT ![p] = IF left > 0 THEN "IDLE" ELSE "ASYNC"]
          /\ Serve(left = 0)
    /\ passed' = Waiting({pq \in passed : pq[1] # p}
                         \cup {<<q, p>> : q \in {r \in Pipe \ {p} :
                                  Listed(r) /\ priority[r] = priority[p]}})

FqRecvNone ==
    /\ ServeNone
    /\ UNCHANGED <<queue, receiving, instate, passed>>

FqNext ==
    \/ \E p \in Pipe : PipeStart(p) \/ PipeStop(p) \/ SentFirst(p) \/ SentMore(p)
    \/ FqRecv
    \/ FqRecvNone

FqSpec == FqInit /\ [][FqNext]_fqvars

\* A user that keeps calling nn_recv.
FqFairSpec == FqSpec /\ WF_fqvars(FqRecv)

-----------------------------------------------------------------------------
\* Types of the variables this module adds.
FqTypeOK ==
    /\ TypeOK
    /\ queue \in [Pipe -> 0..MaxQueue]
    /\ receiving \in [Pipe -> BOOLEAN]
    /\ instate \in [Pipe -> {"ASYNC", "IDLE"}]
    /\ passed \in SUBSET (Pipe \X Pipe)

\* No message is ever stranded: a connected pipe is in the list exactly when
\* its queue holds messages, which is when its inbound half is IDLE, what
\* nn_pipe_recv asserts; and a message lingers with the peer only behind one
\* in the queue, whose receipt fetches it.  (sinproc.c raises IN only for the
\* first message of a batch.)
NothingStranded ==
    \A p \in Pipe :
       /\ Listed(p) <=> priority[p] # 0 /\ queue[p] > 0
       /\ priority[p] # 0 => (instate[p] = "IDLE" <=> queue[p] > 0)
       /\ receiving[p] => queue[p] > 0

\* Round robin among the pipes that stay readable: no pipe is served a second
\* time before every pipe of its priority that waited all along was served.
NoSecondTurn ==
    [][FqRecv => \A p \in Pipe : <<p, picked'>> \notin passed]_fqvars

\* Whatever is in the queues when the peers fall silent is received by a user
\* that keeps receiving.
Silent == UNCHANGED <<queue, receiving>> \/ FqRecv
Drains ==
    <>[][Silent]_fqvars => <>[](\A p \in Pipe : queue[p] = 0)

=============================================================================
