------------------------------ MODULE Responder ------------------------------
(* The answering end of the two protocols with answers: RESPONDENT and REP  *)
(* (respondent.c, xrespondent.c, rep.c and xrep.c, which are the same but   *)
(* for the names).  A pipe gets a key; a question carries the way it came,  *)
(* a stack of keys over its id; the answer goes back that way.              *)
EXTENDS Naturals, Sequences

CONSTANTS
    Pipe,       \* connections, each of which is made and broken once
    MaxTtl,     \* NN_MAXTTL
    NULL

ASSUME ResponderAssumption == MaxTtl \in Nat /\ NULL \notin Pipe \cup Nat

\* A message: the stack of its header, its id (NULL for a header without the
\* bottom of the stack), and what it says, which is only compared.
\* A socket q:
\*   keys       outpipes: the key of each pipe it has, NULL for the others
\*   next       next_key
\*   out        the pipes with NN_XREP_OUT
\*   working    NN_REP_INPROGRESS
\*   back       backtrace; with it the id and what the user has read
NewResponder ==
    [keys |-> [p \in Pipe |-> NULL], next |-> 1, out |-> {}, working |-> FALSE, back |-> NULL]

Has(q, p) == q.keys[p] # NULL

\* Faulty variant: a key is taken again as soon as it is free.
AddReusing(q, p) ==
    LET free == CHOOSE k \in 1 .. q.next : \A x \in Pipe : q.keys[x] # k
    IN [q EXCEPT !.keys[p] = free, !.next = @ + 1]

\* nn_xrep_add; that nn_hash_insert finds the key already there is DuplicateKey.
Add(q, p) == [q EXCEPT !.keys[p] = q.next, !.next = @ + 1]

DuplicateKey(q) == \E x, y \in Pipe : x # y /\ Has(q, x) /\ q.keys[x] = q.keys[y]

\* nn_xrep_rm, nn_xrep_out
Rm(q, p) == [q EXCEPT !.keys[p] = NULL, !.out = @ \ {p}]
Out(q, p) == [q EXCEPT !.out = @ \cup {p}]

\* nn_rep_recv, before it knows whether there is anything to receive.
Cancelled(q) == [q EXCEPT !.working = FALSE, !.back = NULL]

\* nn_xrep_recv: a header without a bottom or with too many hops is dropped.
Accepts(msg) == msg.id # NULL /\ Len(msg.stack) + 1 <= MaxTtl

\* nn_rep_recv of a message of pipe p.
Recv(q, p, msg) ==
    IF Accepts(msg)
    THEN [q EXCEPT !.working = TRUE, !.back = [msg EXCEPT !.stack = <<q.keys[p]>> \o @]]
    ELSE Cancelled(q)

\* nn_xrep_send: the pipe with the key on top of the stack, if it is there and
\* can take the answer.
Destination(q) == {p \in q.out : q.keys[p] = Head(q.back.stack)}

\* nn_rep_send: what goes out, and what is left when the pipes of full cannot
\* take another message at once.
Answer(q) == [q.back EXCEPT !.stack = Tail(@)]
Answered(q, full) == [q EXCEPT !.working = FALSE, !.back = NULL, !.out = @ \ full]
=============================================================================
