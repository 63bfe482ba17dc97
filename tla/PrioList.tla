------------------------------ MODULE PrioList ------------------------------
(***************************************************************************)
(* The prioritised list of pipes (protocols/utils/priolist.c) together     *)
(* with the two wrappers that use it: the load balancer (lb.c) picks the   *)
(* pipe the next message is sent to, the fair queuer (fq.c) the one the    *)
(* next message is received from.  A pipe is added with a priority, becomes *)
(* active when it is ready (in/out), is used by send/recv - which releases *)
(* it when the transport goes on asynchronously - and is removed at any    *)
(* moment when its connection breaks.                                      *)
(***************************************************************************)
EXTENDS Integers, SequencesExt

CONSTANTS Pipe,     \* the pipes of the socket
          NSlots,   \* NN_PRIOLIST_SLOTS, the number of priority levels
          NULL      \* the null pointer

ASSUME PrioListAssumption ==
    /\ NSlots \in Nat \ {0}
    /\ NULL \notin Pipe

VARIABLES
    priority,     \* nn_priolist_data.priority, 0 while the pipe is not added
    pipes,        \* slots[k].pipes, the list of active pipes of priority k
    slotcurrent,  \* slots[k].current
    current,      \* the slot that holds the current pipe, or -1
    picked        \* the pipe the last nn_lb_send/nn_fq_recv reported, or NULL

vars == <<priority, pipes, slotcurrent, current, picked>>

Slot == 1..NSlots

Listed(p) == \E k \in Slot : Contains(pipes[k], p)

-----------------------------------------------------------------------------
(* nn_list_erase and nn_list_next on the list of one slot.                 *)

Position(list, p) == CHOOSE i \in 1..Len(list) : list[i] = p

Erase(list, p) == RemoveAt(list, Position(list, p))

\* Faulty variants, one each: no wrap-over; and a pointer that never moves on.
NextItemNoWrap(list, p, rest) ==
    IF Position(list, p) < Len(list) THEN list[Position(list, p) + 1] ELSE NULL
NextItemStuck(list, p, rest) == IF rest = <<>> THEN NULL ELSE rest[1]

\* The item after p in list or, past the end, the first item of rest: the
\* list as it is after p was (or was not) erased.
NextItem(list, p, rest) ==
    IF Position(list, p) < Len(list) THEN list[Position(list, p) + 1]
    ELSE IF rest = <<>> THEN NULL ELSE rest[1]

\* Faulty variant: no loop at all.
FirstNonEmptySame(lists, from) == IF lists[from] # <<>> THEN from ELSE -1

\* The loop that looks for a non-empty slot of the same or lower priority.
FirstNonEmpty(lists, from) ==
    IF \E k \in from..NSlots : lists[k] # <<>>
    THEN CHOOSE k \in from..NSlots :
            lists[k] # <<>> /\ \A j \in from..(k-1) : lists[j] = <<>>
    ELSE -1

-----------------------------------------------------------------------------
Init ==
    /\ priority = [p \in Pipe |-> 0]
    /\ pipes = [k \in Slot |-> <<>>]
    /\ slotcurrent = [k \in Slot |-> NULL]
    /\ current = -1
    /\ picked = NULL

\* nn_lb_add, nn_fq_add -> nn_priolist_add: attached, but not active yet.
Add(p) ==
    /\ priority[p] = 0
    /\ \E k \in Slot : priority' = [priority EXCEPT ![p] = k]
    /\ picked' = NULL
    /\ UNCHANGED <<pipes, slotcurrent, current>>

\* Faulty variant: a pipe of higher priority does not take over.
ActivateNoTakeover(p) ==
    LET k == priority[p] IN
    /\ k # 0
    /\ ~Listed(p)
    /\ pipes' = [pipes EXCEPT ![k] = Append(@, p)]
    /\ IF pipes[k] # <<>>
       THEN UNCHANGED <<slotcurrent, current>>
       ELSE /\ slotcurrent' = [slotcurrent EXCEPT ![k] = p]
            /\ current' = IF current = -1 THEN k ELSE current
    /\ picked' = NULL
    /\ UNCHANGED priority

\* nn_lb_out, nn_fq_in -> nn_priolist_activate.  The pipe raises IN/OUT only
\* after it was released, so it is not in the list.
Activate(p) ==
    LET k == priority[p] IN
    /\ k # 0
    /\ ~Listed(p)
    /\ pipes' = [pipes EXCEPT ![k] = Append(@, p)]
    /\ IF pipes[k] # <<>>
       THEN UNCHANGED <<slotcurrent, current>>
       ELSE /\ slotcurrent' = [slotcurrent EXCEPT ![k] = p]
            /\ current' = IF current = -1 \/ current > k THEN k ELSE current
    /\ picked' = NULL
    /\ UNCHANGED priority

\* nn_priolist_rm of a pipe that is not active.
RmInactive(p) ==
    /\ priority[p] # 0
    /\ ~Listed(p)
    /\ priority' = [priority EXCEPT ![p] = 0]
    /\ picked' = NULL
    /\ UNCHANGED <<pipes, slotcurrent, current>>

\* nn_priolist_rm of an active pipe: if it is the slot's current one the
\* pointer moves on with wrap-over, and if that slot was the current slot a
\* lower priority may have to take over.
RmActive(p) ==
    LET k    == priority[p]
        rest == Erase(pipes[k], p)
        left == [pipes EXCEPT ![k] = rest]
    IN
    /\ k # 0
    /\ Listed(p)
    /\ priority' = [priority EXCEPT ![p] = 0]
    /\ pipes' = left
    /\ IF slotcurrent[k] # p
       THEN UNCHANGED <<slotcurrent, current>>
       ELSE /\ slotcurrent' = [slotcurrent EXCEPT
                                 ![k] = NextItem(pipes[k], p, rest)]
            /\ current' = IF current = k THEN FirstNonEmpty(left, k)
                          ELSE current
    /\ picked' = NULL

\* nn_priolist_advance.
Advance(release) ==
    LET p    == slotcurrent[current]
        rest == IF release THEN Erase(pipes[current], p) ELSE pipes[current]
        left == [pipes EXCEPT ![current] = rest]
    IN
    /\ pipes' = left
    /\ slotcurrent' = [slotcurrent EXCEPT
                         ![current] = NextItem(pipes[current], p, rest)]
    /\ current' = FirstNonEmpty(left, current)

\* nn_lb_send, nn_fq_recv with a pipe available (nn_priolist_getpipe): the
\* transport decides whether the pipe is released (NN_PIPE_RELEASE).
Serve(release) ==
    /\ current # -1
    /\ picked' = slotcurrent[current]
    /\ Advance(release)
    /\ UNCHANGED priority

\* nn_lb_send, nn_fq_recv without one: -EAGAIN.
ServeNone ==
    /\ current = -1
    /\ picked' = NULL
    /\ UNCHANGED <<priority, pipes, slotcurrent, current>>

Next ==
    \/ \E p \in Pipe : Add(p) \/ Activate(p) \/ RmInactive(p) \/ RmActive(p)
    \/ \E release \in BOOLEAN : Serve(release)
    \/ ServeNone

Spec == Init /\ [][Next]_vars

-----------------------------------------------------------------------------
(***************************************************************************)
(* Type invariant.                                                         *)
(***************************************************************************)
TypeOK ==
    /\ priority \in [Pipe -> 0..NSlots]
    /\ pipes \in [Slot -> Seq(Pipe)]
    /\ slotcurrent \in [Slot -> Pipe \cup {NULL}]
    /\ current \in Slot \cup {-1}
    /\ picked \in Pipe \cup {NULL}

\* A pipe sits only in the list of its own priority, and only once.
ListsSound ==
    \A k \in Slot :
       /\ \A i \in 1..Len(pipes[k]) : priority[pipes[k][i]] = k
       /\ \A i, j \in 1..Len(pipes[k]) : pipes[k][i] = pipes[k][j] => i = j

\* A slot's current pointer is NULL exactly when the slot is empty and points
\* into the slot's own list otherwise: it never dangles after a removal
\* (the comment on nn_priolist_slot.current in priolist.h).
SlotCurrentSound ==
    \A k \in Slot :
       IF pipes[k] = <<>> THEN slotcurrent[k] = NULL
                          ELSE Contains(pipes[k], slotcurrent[k])

\* The current slot is the highest-priority non-empty one, and -1 exactly when
\* no pipe is available (the comment on nn_priolist.current in priolist.h).
CurrentIsHighest == current = FirstNonEmpty(pipes, 1)

\* The three together: what getpipe and advance rely on.
PrioListSound == ListsSound /\ SlotCurrentSound /\ CurrentIsHighest

\* The list implements the abstract prioritised set: whatever was added,
\* activated, used and removed before, send and recv use a ready pipe of the
\* highest priority, and answer EAGAIN only when none is ready.
Abs == INSTANCE PrioSet WITH
          prio   <- priority,
          ready  <- {p \in Pipe : Listed(p)}

RefinesPrioSet == Abs!AbsSpec
=============================================================================
