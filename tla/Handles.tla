------------------------------ MODULE Handles ------------------------------
(***************************************************************************)
(* What the API layer promises about socket descriptors (the comments on   *)
(* nn_close, nn_sock_stop and nn_global_hold_socket_locked): a call enters *)
(* a socket through an open descriptor only; closing it lets the calls and *)
(* the endpoints that are inside finish; the socket is freed, and its      *)
(* descriptor given away again, only when nothing is left inside.          *)
(***************************************************************************)
EXTENDS Integers

CONSTANTS Thread,   \* the threads of the application
          Sock,     \* socket objects, each allocated at most once
          Fd,       \* descriptors
          Ep,       \* endpoint ids
          NULL

VARIABLES table,    \* the socket each descriptor stands for, or NULL
          fresh,    \* sockets not allocated yet
          open,     \* sockets that take new calls
          inside,   \* the socket each thread is inside of, or NULL
          live      \* the endpoints of each socket

handlevars == <<table, fresh, open, inside, live>>

HInit ==
    /\ table = [f \in Fd |-> NULL]
    /\ fresh = Sock
    /\ open = {}
    /\ inside = [t \in Thread |-> NULL]
    /\ live = [k \in Sock |-> {}]

\* A new socket gets a descriptor nobody uses.
Open(f, k) ==
    /\ table[f] = NULL
    /\ k \in fresh
    /\ table' = [table EXCEPT ![f] = k]
    /\ fresh' = fresh \ {k}
    /\ open' = open \cup {k}
    /\ UNCHANGED <<inside, live>>

Enter(t, f) ==
    /\ inside[t] = NULL
    /\ table[f] \in open
    /\ inside' = [inside EXCEPT ![t] = table[f]]
    /\ UNCHANGED <<table, fresh, open, live>>

Leave(t) ==
    /\ inside[t] \in open \cup {table[f] : f \in Fd}
    /\ inside' = [inside EXCEPT ![t] = NULL]
    /\ UNCHANGED <<table, fresh, open, live>>

\* Only a thread inside a socket creates an endpoint on it, perhaps when it is
\* being closed already.
Link(t, e) ==
    /\ inside[t] \in Sock
    /\ live' = [live EXCEPT ![inside[t]] = @ \cup {e}]
    /\ UNCHANGED <<table, fresh, open, inside>>

Unlink(k, e) ==
    /\ live' = [live EXCEPT ![k] = @ \ {e}]
    /\ UNCHANGED <<table, fresh, open, inside>>

\* One thread gets to close the socket; it stays inside until it is freed.
Close(t, f) ==
    /\ inside[t] = NULL
    /\ table[f] \in open
    /\ open' = open \ {table[f]}
    /\ inside' = [inside EXCEPT ![t] = table[f]]
    /\ UNCHANGED <<table, fresh, live>>

Free(t, f) ==
    /\ inside[t] = table[f]
    /\ table[f] \in Sock \ open
    /\ \A u \in Thread \ {t} : inside[u] # table[f]
    /\ live[table[f]] = {}
    /\ table' = [table EXCEPT ![f] = NULL]
    /\ inside' = [inside EXCEPT ![t] = NULL]
    /\ UNCHANGED <<fresh, open, live>>

HNext ==
    \/ \E f \in Fd : \E k \in Sock : Open(f, k)
    \/ \E t \in Thread :
          \/ \E f \in Fd : Enter(t, f) \/ Close(t, f) \/ Free(t, f)
          \/ \E e \in Ep : Link(t, e)
          \/ Leave(t)
    \/ \E k \in Sock : \E e \in Ep : Unlink(k, e)

HSpec == HInit /\ [][HNext]_handlevars
=============================================================================
