-------------------------------- MODULE Trie --------------------------------
(* The Patricia trie in which a SUB socket keeps its subscriptions          *)
(* (protocols/pubsub/trie.c).  A node goes by the string that leads to it,  *)
(* its prefix included, which no operation changes: a trie is a function    *)
(* from these strings to the nodes,                                         *)
(*   refcount     the subscriptions to the string                           *)
(*   prefix_len   how many of its last characters are the prefix            *)
(*   dense        its type: a sparse array of children or a dense one       *)
(*   children     the characters the array has a pointer for: those of a    *)
(*                sparse array, in any order, or the range min .. max       *)
(*   nbr          the count of children of a dense array                    *)
(* A pointer is to the node whose prefix begins where it leads to, or NULL  *)
(* if there is none; the first one is self->root.                           *)
EXTENDS Naturals, SequencesExt, FiniteSetsExt

CONSTANTS
    PrefixMax,  \* NN_TRIE_PREFIX_MAX, 10 in the code
    SparseMax   \* NN_TRIE_SPARSE_MAX, 8 in the code

ASSUME TrieAssumption == PrefixMax \in Nat \ {0} /\ SparseMax \in Nat \ {0, 1}

Char == 0 .. 255

Sparse(refcount, prefix_len, children) ==
    [refcount |-> refcount, prefix_len |-> prefix_len, dense |-> FALSE,
     children |-> children, nbr |-> 0]

\* nn_trie_init
EmptyTrie == [a \in {} |-> Sparse(0, 0, {})]

Upto(s, n) == SubSeq(s, 1, n)

\* Where the prefix of a node begins.
Top(t, a) == Len(a) - t[a].prefix_len
Start(t, a) == Upto(a, Top(t, a))

IsNode(t, p) == \E a \in DOMAIN t : Start(t, a) = p
Node(t, p) == CHOOSE a \in DOMAIN t : Start(t, a) = p
Root(t) == Node(t, <<>>)

\* nn_node_next: the characters for which it leads to a node, and that node.
Kids(t, a) == {c \in t[a].children : IsNode(t, Append(a, c))}
Kid(t, a, c) == Node(t, Append(a, c))

\* The node and the character that lead to a node other than the root.
Parent(t, a) == Upto(a, Top(t, a) - 1)
Edge(t, a) == a[Top(t, a)]

Hull(cs) == Min(cs) .. Max(cs)

\* Faulty variant: a node that is a subscription is merged with its child as well.
CompactAlways(t, a) ==
    IF ~t[a].dense /\ Cardinality(t[a].children) = 1
    THEN LET ch == Kid(t, a, CHOOSE c \in t[a].children : TRUE)
             sum == t[a].prefix_len + t[ch].prefix_len + 1
         IN IF sum <= PrefixMax
            THEN Restrict([t EXCEPT ![ch].prefix_len = sum], DOMAIN t \ {a}) ELSE t
    ELSE t

\* nn_node_compact
Compact(t, a) ==
    IF t[a].refcount = 0 /\ ~t[a].dense /\ Cardinality(t[a].children) = 1
    THEN LET ch == Kid(t, a, CHOOSE c \in t[a].children : TRUE)
             sum == t[a].prefix_len + t[ch].prefix_len + 1
         IN IF sum <= PrefixMax
            THEN Restrict([t EXCEPT ![ch].prefix_len = sum], DOMAIN t \ {a}) ELSE t
    ELSE t

-----------------------------------------------------------------------------
(* The walk for a string: from node to node as long as the whole string of  *)
(* the node is a prefix of it and there is a node for the next character.   *)

Below(t, a, s) ==
    LET c == s[Len(a) + 1]
    IN IF IsStrictPrefix(a, s) /\ c \in t[a].children /\ IsNode(t, Append(a, c))
       THEN Kid(t, a, c) ELSE a

Walk(t, s) ==
    LET walk[k \in 0 .. Len(s)] == IF k = 0 THEN Root(t) ELSE Below(t, walk[k - 1], s)
    IN walk

Visited(t, s) == {Walk(t, s)[k] : k \in 0 .. Len(s)}

\* The node where it ends.
End(t, s) == Walk(t, s)[Len(s)]

\* nn_node_check_prefix: how far the strings of a node and of the walk agree.
Agree(a, s) ==
    CHOOSE n \in 0 .. Len(a) :
        /\ n <= Len(s) /\ Upto(a, n) = Upto(s, n)
        /\ n < Len(a) /\ n < Len(s) => a[n + 1] # s[n + 1]

-----------------------------------------------------------------------------
(* Subscribing, in the steps of nn_trie_subscribe.                          *)

\* t with new nodes: of the string a, as node n.
Put(t, a, n) == [x \in DOMAIN t \cup {a} |-> IF x = a THEN n ELSE t[x]]

\* Step 2: the prefix of a is split at position pos of its string.
Split(t, a, pos) ==
    LET lower == [t EXCEPT ![a].prefix_len = Len(a) - pos - 1]
        upper == Sparse(0, pos - Top(t, a), {a[pos + 1]})
    IN Compact(Put(lower, Upto(a, pos), upper), a)

\* Step 3: the array of a gets a place for character c, for which it had no node.
\* One that gets too large for a sparse array becomes dense, in a new node.
Adopt(t, a, c) ==
    LET n   == t[a]
        all == n.children \cup {c}
    IN [t EXCEPT ![a] =
          CASE ~n.dense /\ Cardinality(n.children) < SparseMax ->
                  [n EXCEPT !.children = all]
            [] n.dense -> [n EXCEPT !.children = Hull(all), !.nbr = @ + 1]
            [] OTHER -> [refcount |-> 0, prefix_len |-> n.prefix_len, dense |-> TRUE,
                         children |-> Hull(all), nbr |-> SparseMax + 1]]

\* Steps 4 and 5: new nodes for what follows the first i characters of s, each but
\* the last with a full prefix and one child.
Branch(t, s, i) ==
    LET last == Len(s)
        ends == {e \in i .. last : e = last \/ (e - i) % (PrefixMax + 1) = PrefixMax}
        node(e) == Sparse(IF e = last THEN 1 ELSE 0, (e - i) % (PrefixMax + 1),
                          IF e = last THEN {} ELSE {s[e + 1]})
    IN [x \in DOMAIN t \cup {Upto(s, e) : e \in ends} |->
          IF x \in DOMAIN t THEN t[x] ELSE node(Len(x))]

\* nn_trie_subscribe: the trie after it.
Subscribed(t, s) ==
    LET a    == End(t, s)
        pos  == Agree(a, s)
        node == Upto(s, pos)
        there == IF pos < Len(a) THEN Split(t, a, pos) ELSE t
    IN CASE DOMAIN t = {} -> Branch(t, s, 0)
         [] DOMAIN t # {} /\ pos = Len(s) -> [there EXCEPT ![node].refcount = @ + 1]
         [] OTHER -> Branch(Adopt(there, node, s[pos + 1]), s, pos + 1)

-----------------------------------------------------------------------------
(* Unsubscribing: the trie after it, and whether it fails, for a NULL that  *)
(* is followed or a failed assertion.                                       *)

Result(trie, fails) == [trie |-> trie, fails |-> fails]

\* The child for character c of a was deleted, or so it is thought.  A dense
\* array is trimmed at the end where it was, or becomes sparse in a new node,
\* which asserts the number of children.
Prune(t, a, c) ==
    LET n    == t[a]
        left == Kids(t, a) \ {c}
        kept == IF c \in {Min(n.children), Max(n.children)} THEN Hull(left) ELSE n.children
    IN CASE ~n.dense ->
               Result(Compact([t EXCEPT ![a].children = @ \ {c}], a), FALSE)
         [] n.dense /\ n.nbr > SparseMax + 1 ->
               Result([t EXCEPT ![a] = [n EXCEPT !.children = kept, !.nbr = @ - 1]], FALSE)
         [] OTHER ->
               Result([t EXCEPT ![a] = Sparse(0, n.prefix_len, left)],
                      Cardinality(left) # SparseMax)

\* A node with nothing but the one child that is deleted is deleted as well.
Bare(n) == n.refcount = 0 /\ ~n.dense /\ Cardinality(n.children) = 1

\* Back from a to where the calls of nn_node_unsubscribe came from.
Above(t, a) == IF Top(t, a) > 0 /\ Bare(t[Parent(t, a)]) THEN Parent(t, a) ELSE a

Unwound(t, a) ==
    LET unwound[k \in 0 .. Len(a)] == IF k = 0 THEN a ELSE Above(t, unwound[k - 1])
    IN unwound

\* a is deleted, and the nodes above it that are left with nothing.
Delete(t, a) ==
    LET top  == Unwound(t, a)[Len(a)]
        rest == Restrict(t, DOMAIN t \ {Unwound(t, a)[k] : k \in 0 .. Len(a)})
    IN IF Top(t, top) = 0 THEN Result(rest, FALSE)
       ELSE Prune(rest, Parent(t, top), Edge(t, top))

\* nn_node_unsubscribe from "found" on; -EINVAL changes nothing.
Found(t, a) ==
    LET less == [t EXCEPT ![a].refcount = @ - 1]
    IN CASE t[a].refcount = 0 -> Result(t, FALSE)
         [] t[a].refcount > 1 -> Result(less, FALSE)
         [] OTHER -> IF t[a].children = {} THEN Delete(less, a)
                     ELSE Result(Compact(less, a), FALSE)

\* nn_node_unsubscribe.  A string that ends where a child begins is taken to be
\* found there, whatever the prefix of the child is; and if there is only a hole
\* in a dense array, its -EINVAL is taken for a child that was deleted.
Unsubscribed(t, s) ==
    LET a    == End(t, s)
        c    == s[Len(a) + 1]
        hole == IsStrictPrefix(a, s) /\ c \in t[a].children
    IN CASE DOMAIN t = {} -> Result(t, s # <<>>)
         [] DOMAIN t # {} /\ (Start(t, a) = s \/ a = s) -> Found(t, a)
         [] DOMAIN t # {} /\ hole ->
               IF Len(s) = Len(a) + 1 THEN Prune(t, a, c) ELSE Result(t, TRUE)
         [] OTHER -> Result(t, FALSE)

-----------------------------------------------------------------------------
\* nn_trie_match: what it may return for a message.  When the message ends at a
\* node without subscriptions the walk reads what lies behind the message.
Matches(t, s) ==
    IF DOMAIN t = {} THEN {FALSE}
    ELSE IF \E a \in Visited(t, s) : IsPrefix(a, s) /\ t[a].refcount > 0 THEN {TRUE}
    ELSE IF End(t, s) = s THEN BOOLEAN ELSE {FALSE}

-----------------------------------------------------------------------------
(* What a trie means, for the properties.                                   *)

\* The subscriptions to s that are found in the trie.
Held(t, s) == IF DOMAIN t # {} /\ End(t, s) = s THEN t[s].refcount ELSE 0

\* Each node hangs where its string says.
Linked(t, a) ==
    /\ t[a].prefix_len <= PrefixMax /\ t[a].prefix_len <= Len(a)
    /\ IF Top(t, a) = 0 THEN Root(t) = a
       ELSE /\ Parent(t, a) \in DOMAIN t
            /\ Edge(t, a) \in Kids(t, Parent(t, a)) /\ Kid(t, Parent(t, a), Edge(t, a)) = a

\* Its array is what the functions above take it for, and it is there for
\* something.
Shaped(t, a) ==
    /\ t[a].refcount > 0 \/ Kids(t, a) # {}
    /\ IF t[a].dense
       THEN /\ t[a].nbr = Cardinality(Kids(t, a)) /\ t[a].nbr > SparseMax
            /\ t[a].children = Hull(Kids(t, a))
       ELSE Kids(t, a) = t[a].children /\ Cardinality(Kids(t, a)) <= SparseMax

Proper(t) == \A a \in DOMAIN t : Linked(t, a) /\ Shaped(t, a)
=============================================================================
