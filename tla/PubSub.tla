------------------------------- MODULE PubSub -------------------------------
(* A SUB socket (sub.c, xsub.c) with its trie of subscriptions and a PUB    *)
(* socket (pub.c, xpub.c) it has connections with: the publisher sends      *)
(* everything on all of them that can take it, the subscriber drops what it *)
(* has not subscribed to when the user receives.                            *)
(*                                                                          *)
(* A step is a session in the context of one socket.  A pipe holds one      *)
(* message; a fair queue gives out any of those that arrived.               *)
EXTENDS Trie, Dist

CONSTANTS
    Pipe,       \* the connections of the two
    Topic,      \* what the user subscribes to
    Message,    \* what is published
    MaxSubs,    \* bound: subscriptions at a time
    Careful,    \* whether the user unsubscribes only from what he subscribed to
    NULL

ASSUME PubSubAssumption ==
    /\ \A s \in Topic \cup Message : s \in Seq(Char)
    /\ NULL \notin Pipe \cup Message
    /\ MaxSubs \in Nat /\ Careful \in BOOLEAN

VARIABLES
    trie,       \* the subscriber's trie
    outpipes,   \* the publisher's distributor
    way,        \* the message in each pipe, if any
    here, there,    \* the pipes of the publisher, and those of the subscriber
    subs,       \* history: how many times the user is subscribed to a topic
    odd,        \* history: what is known to go wrong
    wrong,      \* history: a message was delivered or dropped against subs
    aborted     \* an assertion failed or a NULL was followed

pipes == <<outpipes, way, here, there>>
vars == <<trie, pipes, subs, odd, wrong, aborted>>

SubInit ==
    /\ trie = EmptyTrie /\ subs = [t \in Topic |-> 0]
    /\ outpipes = {} /\ way = [p \in Pipe |-> NULL] /\ here = {} /\ there = {}
    /\ odd = {} /\ wrong = FALSE /\ aborted = FALSE

Subscriptions(f) == {t \in Topic : f[t] > 0}

\* The characters that follow t in subscriptions: the children of its node.
Branches(f, t) == {u[Len(t) + 1] : u \in {u \in Subscriptions(f) : IsStrictPrefix(t, u)}}

\* The array of a topic that is subscribed to becomes dense or sparse: the new
\* node starts with a refcount of zero.
Forgotten(before, after) ==
    {t \in Subscriptions(before) \cap Subscriptions(after) :
        LET sparse(f) == Cardinality(Branches(f, t)) <= SparseMax
        IN sparse(before) # sparse(after)}

-----------------------------------------------------------------------------
(* The subscriber's user.                                                   *)

\* NN_SUB_SUBSCRIBE in nn_xsub_setopt
Subscribe(t) ==
    /\ FoldSet(LAMBDA u, sum : sum + subs[u], 0, Topic) < MaxSubs
    /\ trie' = Subscribed(trie, t)
    /\ subs' = [subs EXCEPT ![t] = @ + 1]
    /\ odd' = odd \cup {<<"forgotten", u>> : u \in Forgotten(subs, subs')}
    /\ UNCHANGED <<pipes, wrong, aborted>>

\* NN_SUB_UNSUBSCRIBE
Unsubscribe(t) ==
    LET r == Unsubscribed(trie, t)
    IN /\ Careful => subs[t] > 0
       /\ trie' = r.trie /\ aborted' = r.fails
       /\ subs' = IF subs[t] > 0 THEN [subs EXCEPT ![t] = @ - 1] ELSE subs
       /\ odd' = odd \cup {<<"forgotten", u>> : u \in Forgotten(subs, subs')}
                     \cup (IF subs[t] = 0 THEN {<<"absent", t>>} ELSE {})
       /\ UNCHANGED <<pipes, wrong>>

Covered(m) == \E t \in Subscriptions(subs) : IsPrefix(t, m)

\* The walk over a message can end before the subscriptions it leads to.
Short(m) == \E t \in Subscriptions(subs) : IsStrictPrefix(m, t)

Arrived == {p \in there : way[p] # NULL}

\* Faulty variant: the first message there is is delivered.
DroppedNone(p, ps) == ps = {} /\ p # NULL

\* The loop of nn_xsub_recv drops the messages of ps and delivers that of p; or
\* p is NULL and it drops all there are.  The fair queue orders them.
Dropped(p, ps) ==
    /\ \A q \in ps : FALSE \in Matches(trie, way[q])
    /\ IF p = NULL THEN ps = Arrived ELSE TRUE \in Matches(trie, way[p])

SubRecv ==
    \E p \in Arrived \cup {NULL}, ps \in SUBSET Arrived :
        /\ p \notin ps /\ ps \cup {p} # {NULL} /\ Dropped(p, ps)
        /\ way' = [q \in Pipe |-> IF q \in ps \cup {p} THEN NULL ELSE way[q]]
        /\ wrong' = \/ \E q \in ps : Covered(way[q])
                    \/ p # NULL /\ ~Covered(way[p]) /\ ~Short(way[p])
        /\ UNCHANGED <<trie, outpipes, here, there, subs, odd, aborted>>

-----------------------------------------------------------------------------
(* Publishers and pipes.                                                    *)

\* nn_xpub_send: it never says EAGAIN.
Publish(m) ==
    LET to == Receivers(outpipes, {})
    IN /\ way' = [p \in Pipe |-> IF p \in to /\ p \in there THEN m ELSE way[p]]
       /\ outpipes' = DistSent(outpipes, to)
       /\ aborted' = (\E p \in to : p \notin here \/ way[p] # NULL)
       /\ UNCHANGED <<trie, here, there, subs, odd, wrong>>

\* nn_xpub_add and nn_xsub_add
Connect(p) ==
    /\ p \notin here \cup there /\ way[p] = NULL /\ p \notin outpipes
    /\ here' = here \cup {p} /\ there' = there \cup {p}
    /\ UNCHANGED <<trie, outpipes, way, subs, odd, wrong, aborted>>

\* nn_xpub_out: the pipe is new, or the last message was passed on.
Out(p) ==
    /\ p \in here /\ way[p] = NULL /\ p \notin outpipes
    /\ aborted' = DistOutFails(outpipes, p)
    /\ outpipes' = DistOut(outpipes, p)
    /\ UNCHANGED <<trie, way, here, there, subs, odd, wrong>>

\* nn_xpub_rm and nn_xsub_rm, each when its end finds the connection broken.
RmHere(p) ==
    /\ p \in here /\ here' = here \ {p}
    /\ outpipes' = DistRm(outpipes, p)
    /\ UNCHANGED <<trie, way, there, subs, odd, wrong, aborted>>

RmThere(p) ==
    /\ p \in there /\ there' = there \ {p}
    /\ way' = [way EXCEPT ![p] = NULL]
    /\ UNCHANGED <<trie, outpipes, here, subs, odd, wrong, aborted>>

\* The runs end where something is known to have gone wrong.
SubNext ==
    /\ odd = {} /\ ~aborted
    /\ \/ \E t \in Topic : Subscribe(t) \/ Unsubscribe(t)
       \/ SubRecv
       \/ \E m \in Message : Publish(m)
       \/ \E p \in Pipe : Connect(p) \/ Out(p) \/ RmHere(p) \/ RmThere(p)

SubSpec == SubInit /\ [][SubNext]_vars

-----------------------------------------------------------------------------
SubTypeOK ==
    /\ subs \in [Topic -> Nat]
    /\ way \in [Pipe -> Message \cup {NULL}]
    /\ outpipes \subseteq Pipe /\ here \subseteq Pipe /\ there \subseteq Pipe

\* trie.h:46, of every node: "Number of subscriptions to the given string."
HoldsAll == \A t \in Topic : Held(trie, t) = subs[t]

\* Whatever was subscribed and unsubscribed in whatever order, the trie holds
\* just what the user is subscribed to in nodes its functions can walk, except
\* that a topic may be forgotten when the children of its node outgrow a sparse
\* array or shrink into one; it fails only if the user unsubscribes from a topic
\* he is not subscribed to (trie.c).
TrieSound ==
    /\ SubTypeOK
    /\ odd = {} => HoldsAll /\ Proper(trie)
                   /\ \A a \in DOMAIN trie \ Subscriptions(subs) : trie[a].refcount = 0
    /\ aborted => odd # {}
    /\ \A t \in Topic : Held(trie, t) < subs[t] =>
          <<"forgotten", t>> \in odd \/ \E u \in Topic : <<"absent", u>> \in odd

\* A message is delivered if one of its prefixes is subscribed to when it is
\* received, and dropped if none is, whichever pipes come, go and are read; but a
\* message that is itself the begin of a topic may be either (nn_xsub_recv,
\* nn_dist_send).
Filtered == ~wrong
=============================================================================
