--------------------------- MODULE Messages_proofs ---------------------------
(* Proofs about what becomes of messages.                                   *)
(*                                                                          *)
(* WsFrames, for every payload, limit and number of frames and connections: *)
(* a message is handed over as it was sent, a text only when it is UTF-8,   *)
(* no assertion fails but those that are known, and of two sockets of the   *)
(* library one fails the connection only for what a user sent.              *)
(*                                                                          *)
(* PubSub, for every topic, message and number of pipes, and any size of    *)
(* the nodes of the trie: it holds just the subscriptions, and a SUB socket *)
(* gives its user what they cover and drops the rest.                       *)
EXTENDS WsFrames, PubSub, SequenceTheorems, FiniteSetTheorems, WellFoundedInduction,
        TLAPS

-----------------------------------------------------------------------------
(* Sequences.                                                               *)

\* The kinds of octets.
Octets == DOMAIN Lead

\* A set of numbers that is not empty has a least one.
LEMMA Least ==
  ASSUME NEW T, T \subseteq Nat, T # {}
  PROVE  \E n \in T : \A k \in T : n <= k
<1> DEFINE R == {p \in Nat \X Nat : p[1] < p[2]}
<1>1. R = OpToRel(<, Nat)
  BY DEF OpToRel
<1>2. IsWellFoundedOn(R, Nat)
  BY <1>1, NatLessThanWellFounded
<1>3. PICK x \in T : \A y \in T : ~(<<y, x>> \in R)
  BY <1>2, WFMin
<1>4. ASSUME NEW k \in T PROVE x <= k
  <2>1. <<k, x>> \in Nat \X Nat /\ <<k, x>>[1] = k /\ <<k, x>>[2] = x
    OBVIOUS
  <2>2. ~(k < x)
    BY <1>3, <2>1
  <2>3. QED
    BY <2>2
<1>5. QED
  BY <1>4

\* f is the function by which FlattenSeq is defined, on the first n chunks.
Flattens(f, q, n) ==
    DOMAIN f = 1..n /\ \A i \in 1..n : f[i] = IF i = 1 THEN q[i] ELSE f[i-1] \o q[i]

\* There is such a function.
LEMMA FlattensExists ==
  ASSUME NEW S, NEW q \in Seq(Seq(S))
  PROVE  \A n \in 0..Len(q) : \E f \in [1..n -> Seq(S)] : Flattens(f, q, n)
<1> DEFINE Good(n) == \E f \in [1..n -> Seq(S)] : Flattens(f, q, n)
<1> HIDE DEF Good
<1> DEFINE T == {n \in Nat : n <= Len(q) /\ ~Good(n)}
<1>1. Len(q) \in Nat /\ \A i \in 1..Len(q) : q[i] \in Seq(S)
  OBVIOUS
<1>2. SUFFICES ASSUME T # {} PROVE FALSE
  <2>1. \A n \in 0..Len(q) : Good(n)
    BY <1>1
  <2>2. QED
    BY <2>1 DEF Good
<1>3. T \subseteq Nat /\ \A n : n \in T <=> n \in Nat /\ n <= Len(q) /\ ~Good(n)
  OBVIOUS
<1> HIDE DEF T
<1>4. PICK n \in T : \A k \in T : n <= k
  BY <1>3, <1>2, Least
<1>5. n \in Nat /\ n <= Len(q) /\ ~Good(n)
  BY <1>3
<1>6. n # 0
  <2>1. [i \in 1..0 |-> <<>>] \in [1..0 -> Seq(S)]
    OBVIOUS
  <2>2. Flattens([i \in 1..0 |-> <<>>], q, 0)
    BY DEF Flattens
  <2>3. QED
    BY <1>5, <2>1, <2>2 DEF Good
<1>7. n - 1 \in Nat /\ n - 1 <= Len(q) /\ n \in 1..Len(q)
  BY <1>1, <1>5, <1>6
<1>8. Good(n - 1)
  <2>1. ~(n <= n - 1)
    BY <1>5
  <2>2. n - 1 \notin T
    BY <1>4, <2>1
  <2>3. QED
    BY <1>3, <1>7, <2>2
<1>9. PICK f \in [1..n - 1 -> Seq(S)] : Flattens(f, q, n - 1)
  BY <1>8 DEF Good
<1> DEFINE v == IF n = 1 THEN q[n] ELSE f[n - 1] \o q[n]
           g == [i \in 1..n |-> IF i = n THEN v ELSE f[i]]
<1>10. v \in Seq(S)
  <2>1. CASE n = 1
    BY <1>1, <1>7, <2>1
  <2>2. CASE n # 1
    <3>1. f[n - 1] \in Seq(S) /\ q[n] \in Seq(S)
      BY <1>1, <1>7, <1>9, <2>2
    <3>2. QED
      BY <2>2, <3>1, ConcatProperties
  <2>3. QED
    BY <2>1, <2>2
<1> HIDE DEF v
<1>11. g \in [1..n -> Seq(S)]
  BY <1>7, <1>9, <1>10
<1>12. \A i \in 1..n : g[i] = IF i = 1 THEN q[i] ELSE g[i-1] \o q[i]
  <2> TAKE i \in 1..n
  <2>1. CASE i # n
    <3>1. i \in 1..n - 1 /\ g[i] = f[i] /\ (i # 1 => i - 1 \in 1..n - 1 /\ g[i-1] = f[i-1])
      BY <1>7, <2>1
    <3>2. f[i] = IF i = 1 THEN q[i] ELSE f[i-1] \o q[i]
      BY <1>9, <3>1 DEF Flattens
    <3>3. QED
      BY <3>1, <3>2
  <2>2. CASE i = n
    <3>1. n # 1 => g[n - 1] = f[n - 1]
      BY <1>7
    <3>2. g[n] = v
      BY <1>7
    <3>3. QED
      BY <2>2, <3>1, <3>2 DEF v
  <2>3. QED
    BY <2>1, <2>2
<1>13. Flattens(g, q, n)
  BY <1>12 DEF Flattens
<1>14. QED
  BY <1>5, <1>11, <1>13 DEF Good

\* FlattenSeq is the last value of one.
LEMMA FlattenByFunction ==
  ASSUME NEW S, NEW q \in Seq(Seq(S)), q # <<>>
  PROVE  \E f : Flattens(f, q, Len(q)) /\ FlattenSeq(q) = f[Len(q)]
<1> DEFINE n == Len(q)
           F == CHOOSE f : f = [i \in 1..Len(q) |-> IF i = 1 THEN q[i] ELSE f[i-1] \o q[i]]
<1>1. n \in Nat /\ n # 0
  OBVIOUS
<1>2. PICK f \in [1..n -> Seq(S)] : Flattens(f, q, n)
  <2>1. n = Len(q)
    OBVIOUS
  <2> HIDE DEF n, F
  <2>2. QED
    BY <1>1, <2>1, FlattensExists
<1>3. f = [i \in 1..Len(q) |-> IF i = 1 THEN q[i] ELSE f[i-1] \o q[i]]
  BY <1>2 DEF Flattens
<1>4. F = [i \in 1..Len(q) |-> IF i = 1 THEN q[i] ELSE F[i-1] \o q[i]]
  BY <1>3
<1>5. FlattenSeq(q) = F[Len(q)]
  BY <1>1 DEF FlattenSeq
<1> HIDE DEF F
<1>6. Flattens(F, q, Len(q))
  BY <1>4 DEF Flattens
<1>7. QED
  BY <1>5, <1>6

\* Two of them agree on the chunks they share.
LEMMA FlattensSame ==
  ASSUME NEW S, NEW q \in Seq(Seq(S)), NEW r \in Seq(Seq(S)), NEW f, NEW g,
         Len(q) <= Len(r), \A i \in 1..Len(q) : q[i] = r[i],
         Flattens(f, q, Len(q)), Flattens(g, r, Len(r))
  PROVE  \A i \in 1..Len(q) : f[i] = g[i] /\ f[i] \in Seq(S)
<1> DEFINE T == {i \in Nat : i \in 1..Len(q) /\ ~(f[i] = g[i] /\ f[i] \in Seq(S))}
<1>1. Len(q) \in Nat /\ Len(r) \in Nat /\ \A i \in 1..Len(q) : q[i] \in Seq(S)
  OBVIOUS
<1>2. SUFFICES ASSUME T # {} PROVE FALSE
  <2>1. \A i \in 1..Len(q) : i \in Nat
    BY <1>1
  <2>2. QED
    BY <2>1
<1>3. /\ T \subseteq Nat
      /\ \A n : n \in T <=> n \in Nat /\ n \in 1..Len(q) /\ ~(f[n] = g[n] /\ f[n] \in Seq(S))
  OBVIOUS
<1> HIDE DEF T
<1>4. PICK n \in T : \A k \in T : n <= k
  BY <1>3, <1>2, Least
<1>5. n \in 1..Len(q) /\ n \in 1..Len(r) /\ q[n] = r[n] /\ q[n] \in Seq(S)
  BY <1>1, <1>3
<1>6. n # 1 => f[n - 1] = g[n - 1] /\ f[n - 1] \in Seq(S)
  <2>1. n - 1 \notin T
    BY <1>4, <1>5
  <2>2. n # 1 => n - 1 \in Nat /\ n - 1 \in 1..Len(q)
    BY <1>1, <1>5
  <2>3. QED
    BY <1>3, <2>1, <2>2
<1>7. /\ f[n] = IF n = 1 THEN q[n] ELSE f[n-1] \o q[n]
      /\ g[n] = IF n = 1 THEN r[n] ELSE g[n-1] \o r[n]
  BY <1>5 DEF Flattens
<1>8. f[n] = g[n]
  BY <1>5, <1>6, <1>7
<1>9. f[n] \in Seq(S)
  <2>1. CASE n = 1
    BY <1>5, <1>7, <2>1
  <2>2. CASE n # 1
    BY <1>5, <1>6, <1>7, <2>2, ConcatProperties
  <2>3. QED
    BY <2>1, <2>2
<1>10. QED
  BY <1>4, <1>8, <1>9, <1>3

\* The chunks of an empty message, and those of a message with one more.
LEMMA FlattenFacts ==
  ASSUME NEW S, NEW q \in Seq(Seq(S))
  PROVE  /\ q = <<>> => FlattenSeq(q) = <<>>
         /\ FlattenSeq(q) \in Seq(S)
         /\ \A e \in Seq(S) : FlattenSeq(Append(q, e)) = FlattenSeq(q) \o e
<1>1. q = <<>> => FlattenSeq(q) = <<>>
  BY DEF FlattenSeq
<1>2. FlattenSeq(q) \in Seq(S)
  <2>1. CASE q # <<>>
    <3>1. PICK f : Flattens(f, q, Len(q)) /\ FlattenSeq(q) = f[Len(q)]
      BY <2>1, FlattenByFunction
    <3>2. Len(q) \in 1..Len(q)
      BY <2>1
    <3>3. \A i \in 1..Len(q) : f[i] = f[i] /\ f[i] \in Seq(S)
      BY <3>1, FlattensSame
    <3>4. QED
      BY <3>1, <3>2, <3>3
  <2>2. QED
    BY <1>1, <2>1
<1>3. ASSUME NEW e \in Seq(S)
      PROVE  FlattenSeq(Append(q, e)) = FlattenSeq(q) \o e
  <2> DEFINE r == Append(q, e)
  <2>1. /\ r \in Seq(Seq(S)) /\ r # <<>> /\ Len(r) = Len(q) + 1 /\ Len(q) \in Nat
        /\ \A i \in 1..Len(q) : r[i] = q[i]
        /\ r[Len(q) + 1] = e
    BY AppendProperties
  <2> HIDE DEF r
  <2>2. PICK g : Flattens(g, r, Len(r)) /\ FlattenSeq(r) = g[Len(r)]
    BY <2>1, FlattenByFunction
  <2>3. Len(r) \in 1..Len(r) /\ Len(r) - 1 = Len(q) /\ (Len(r) = 1 <=> q = <<>>)
    BY <2>1
  <2>4. g[Len(r)] = IF Len(r) = 1 THEN r[Len(r)] ELSE g[Len(r) - 1] \o r[Len(r)]
    BY <2>2, <2>3 DEF Flattens
  <2>5. CASE q = <<>>
    <3>1. FlattenSeq(r) = e
      BY <2>1, <2>2, <2>3, <2>4, <2>5
    <3>2. QED
      BY <1>1, <2>5, <3>1, ConcatEmptySeq DEF r
  <2>6. CASE q # <<>>
    <3>1. PICK f : Flattens(f, q, Len(q)) /\ FlattenSeq(q) = f[Len(q)]
      BY <2>6, FlattenByFunction
    <3>2. Len(q) \in 1..Len(q) /\ Len(q) <= Len(r)
      BY <2>1, <2>6
    <3>3. f[Len(q)] = g[Len(q)]
      <4>1. \A i \in 1..Len(q) : q[i] = r[i]
        BY <2>1
      <4>2. \A i \in 1..Len(q) : f[i] = g[i] /\ f[i] \in Seq(S)
        BY <2>1, <2>2, <3>1, <3>2, <4>1, FlattensSame
      <4>3. QED
        BY <3>2, <4>2
    <3>4. g[Len(r)] = g[Len(q)] \o e
      BY <2>1, <2>3, <2>4, <2>6
    <3>5. FlattenSeq(r) = FlattenSeq(q) \o e
      BY <2>2, <3>1, <3>3, <3>4
    <3>6. QED
      BY <3>5 DEF r
  <2>7. QED
    BY <2>5, <2>6
<1>4. QED
  BY <1>1, <1>2, <1>3

-----------------------------------------------------------------------------
(* UTF-8.                                                                   *)

\* What octets lead: none more than a code point has, and "c" nothing.
LEMMA LeadFacts ==
    /\ \A o \in Octets : Lead[o] \in 0..MaxCodePoint
    /\ "c" \in Octets /\ Lead["c"] = 0
BY DEF Octets, Lead, MaxCodePoint

\* Parts of a sequence.
LEMMA Parts ==
  ASSUME NEW S, NEW s \in Seq(S), NEW n \in 0..Len(s)
  PROVE  /\ SubSeq(s, 1, n) \in Seq(S) /\ Len(SubSeq(s, 1, n)) = n
         /\ \A i \in 1..n : SubSeq(s, 1, n)[i] = s[i]
         /\ s = SubSeq(s, 1, n) \o SubSeq(s, n + 1, Len(s))
         /\ SubSeq(s, n + 1, Len(s)) \in Seq(S)
<1>1. Len(s) \in Nat /\ n \in Int /\ \A i \in 1..Len(s) : s[i] \in S
  OBVIOUS
<1>2. \A i \in 1..n : s[i] \in S
  BY <1>1
<1>3. /\ SubSeq(s, 1, n) \in Seq(S) /\ Len(SubSeq(s, 1, n)) = n
      /\ \A i \in 1..n : SubSeq(s, 1, n)[i] = s[i]
  BY <1>1, <1>2, SubSeqProperties
<1>4. SubSeq(s, n + 1, Len(s)) \in Seq(S)
  BY <1>1, SubSeqProperties
<1>5. SubSeq(s, 1, n) \o SubSeq(s, n + 1, Len(s)) = SubSeq(s, 1, Len(s))
  <2>1. 1 \in 1 .. Len(s) + 1 /\ n \in 1 - 1 .. Len(s) /\ Len(s) \in n .. Len(s)
    BY <1>1
  <2>2. QED
    BY <2>1, ConcatAdjacentSubSeq
<1>6. SubSeq(s, 1, Len(s)) = s
  BY SubSeqFull
<1>7. QED
  BY <1>3, <1>4, <1>5, <1>6

\* A code point continues at i.
Continues(s, i) == \E j \in 1 .. i - 1 : i - j < Lead[s[j]]

\* An octet at i leads a code point that is all there.
Leads(s, i) == s[i] # "c" => Lead[s[i]] > 0 /\ i + Lead[s[i]] - 1 <= Len(s)

\* The definition of UTF-8, octet by octet.
LEMMA WellFormedAt ==
  ASSUME NEW s \in Seq(Octets)
  PROVE  WellFormed(s) <=> \A i \in 1..Len(s) : (s[i] = "c" <=> Continues(s, i)) /\ Leads(s, i)
<1>1. DOMAIN s = 1..Len(s)
  OBVIOUS
<1>2. QED
  BY <1>1 DEF WellFormed, Continues, Leads

\* After UTF-8, octets are UTF-8 exactly when they are so on their own.
LEMMA WellFormedConcat ==
  ASSUME NEW p \in Seq(Octets), NEW s \in Seq(Octets), WellFormed(p)
  PROVE  WellFormed(p \o s) <=> WellFormed(s)
<1> DEFINE r == p \o s
<1>1. /\ r \in Seq(Octets) /\ Len(p) \in Nat /\ Len(s) \in Nat /\ Len(r) = Len(p) + Len(s)
      /\ \A i \in 1..Len(p) : r[i] = p[i]
      /\ \A i \in 1..Len(s) : r[i + Len(p)] = s[i]
      /\ \A i \in 1..Len(p) : p[i] \in Octets
      /\ \A i \in 1..Len(s) : s[i] \in Octets
  <2>1. /\ r \in Seq(Octets) /\ Len(r) = Len(p) + Len(s)
        /\ \A i \in 1 .. Len(p) + Len(s) : r[i] = IF i <= Len(p) THEN p[i] ELSE s[i - Len(p)]
    BY ConcatProperties
  <2>2. Len(p) \in Nat /\ Len(s) \in Nat
    OBVIOUS
  <2> HIDE DEF r
  <2>3. \A i \in 1..Len(p) : r[i] = p[i]
    BY <2>1, <2>2
  <2>4. ASSUME NEW i \in 1..Len(s) PROVE r[i + Len(p)] = s[i]
    <3>1. i + Len(p) \in 1 .. Len(p) + Len(s) /\ ~(i + Len(p) <= Len(p)) /\ (i + Len(p)) - Len(p) = i
      BY <2>2
    <3>2. QED
      BY <2>1, <3>1
  <2>5. (\A i \in 1..Len(p) : p[i] \in Octets) /\ (\A i \in 1..Len(s) : s[i] \in Octets)
    OBVIOUS
  <2>6. QED
    BY <2>1, <2>2, <2>3, <2>4, <2>5
<1> HIDE DEF r
<1>2. \A i \in 1..Len(p) : (p[i] = "c" <=> Continues(p, i)) /\ Leads(p, i)
  BY WellFormedAt
<1>3. \A j \in 1..Len(p) : j + Lead[p[j]] - 1 <= Len(p) /\ Lead[p[j]] \in Int
  BY <1>1, <1>2, LeadFacts DEF Leads
<1>4. \A i \in 1..Len(p) : (r[i] = "c" <=> Continues(r, i)) /\ Leads(r, i)
  <2> TAKE i \in 1..Len(p)
  <2>1. Continues(r, i) <=> Continues(p, i)
    <3>1. \A j \in 1 .. i - 1 : r[j] = p[j]
      BY <1>1
    <3>2. QED
      BY <3>1 DEF Continues
  <2>2. Leads(r, i)
    BY <1>1, <1>2, <1>3 DEF Leads
  <2>3. QED
    BY <1>1, <1>2, <2>1, <2>2
<1>5. \A i \in 1..Len(s) : Continues(r, i + Len(p)) <=> Continues(s, i)
  <2> TAKE i \in 1..Len(s)
  <2>1. ASSUME NEW j \in 1 .. i - 1, i - j < Lead[s[j]]
        PROVE  Continues(r, i + Len(p))
    <3>1. j \in 1..Len(s) /\ r[j + Len(p)] = s[j]
      BY <1>1
    <3>2. j + Len(p) \in 1 .. (i + Len(p)) - 1 /\ (i + Len(p)) - (j + Len(p)) = i - j
      BY <1>1
    <3>3. QED
      BY <2>1, <3>1, <3>2 DEF Continues
  <2>2. ASSUME NEW j \in 1 .. (i + Len(p)) - 1, (i + Len(p)) - j < Lead[r[j]]
        PROVE  Continues(s, i)
    <3>1. j \notin 1..Len(p)
      <4>1. ASSUME j \in 1..Len(p) PROVE FALSE
        <5>1. r[j] = p[j] /\ j + Lead[p[j]] - 1 <= Len(p) /\ Lead[p[j]] \in Int
          BY <1>1, <1>3, <4>1
        <5>2. QED
          BY <1>1, <2>2, <5>1
      <4>2. QED
        BY <4>1
    <3>2. PICK k : k = j - Len(p)
      OBVIOUS
    <3>3. k \in 1 .. i - 1 /\ k \in 1..Len(s) /\ k + Len(p) = j /\ (i + Len(p)) - j = i - k
      BY <1>1, <3>1, <3>2
    <3>4. r[j] = s[k]
      BY <1>1, <3>3
    <3>5. QED
      BY <2>2, <3>3, <3>4 DEF Continues
  <2>3. QED
    BY <2>1, <2>2 DEF Continues
<1>6. \A i \in 1..Len(s) : Leads(r, i + Len(p)) <=> Leads(s, i)
  <2> TAKE i \in 1..Len(s)
  <2>1. r[i + Len(p)] = s[i] /\ Lead[s[i]] \in Int
    BY <1>1, LeadFacts
  <2>2. ((i + Len(p)) + Lead[s[i]]) - 1 <= Len(r) <=> (i + Lead[s[i]]) - 1 <= Len(s)
    BY <1>1, <2>1
  <2>3. QED
    BY <2>1, <2>2 DEF Leads
<1>7. \A i \in 1..Len(r) : i \in 1..Len(p) \/ \E j \in 1..Len(s) : i = j + Len(p)
  <2> TAKE i \in 1..Len(r)
  <2>1. i \notin 1..Len(p) => i - Len(p) \in 1..Len(s) /\ i = (i - Len(p)) + Len(p)
    BY <1>1
  <2>2. QED
    BY <2>1
<1>8. \A i \in 1..Len(s) : i + Len(p) \in 1..Len(r)
  BY <1>1
<1>9. WellFormed(r) => WellFormed(s)
  BY <1>1, <1>5, <1>6, <1>8, WellFormedAt
<1>10. ASSUME WellFormed(s) PROVE WellFormed(r)
  <2>1. \A i \in 1..Len(s) : (s[i] = "c" <=> Continues(s, i)) /\ Leads(s, i)
    BY <1>10, WellFormedAt
  <2>2. \A i \in 1..Len(s) : (r[i + Len(p)] = "c" <=> Continues(r, i + Len(p))) /\ Leads(r, i + Len(p))
    BY <1>1, <1>5, <1>6, <2>1
  <2>3. \A i \in 1..Len(r) : (r[i] = "c" <=> Continues(r, i)) /\ Leads(r, i)
    BY <1>4, <1>7, <2>2
  <2>4. QED
    BY <1>1, <2>3, WellFormedAt
<1>11. QED
  BY <1>9, <1>10 DEF r

\* What octets begin with.
LEMMA CodePointFacts ==
  ASSUME NEW s \in Seq(Octets), s # <<>>
  PROVE  /\ CodePoint(s) \in {Invalid, Fragment} \cup 1..MaxCodePoint
         /\ CodePoint(s) > 0 =>
               /\ CodePoint(s) = Lead[s[1]] /\ CodePoint(s) \in 1..Len(s)
               /\ \A i \in 2..CodePoint(s) : s[i] = "c"
         /\ CodePoint(s) = Fragment <=> Lead[s[1]] > Len(s)
         /\ CodePoint(s) = Invalid =>
               \/ Lead[s[1]] = 0
               \/ Lead[s[1]] \in 1..Len(s) /\ \E i \in 2..Lead[s[1]] : s[i] # "c"
<1>1. PICK n : n = Lead[s[1]]
  OBVIOUS
<1>2. Len(s) \in Nat /\ Len(s) # 0 /\ 1 \in 1..Len(s) /\ s[1] \in Octets
  OBVIOUS
<1>3. n \in 0..MaxCodePoint /\ n \in Nat
  BY <1>1, <1>2, LeadFacts DEF MaxCodePoint
<1>4. CASE n = 0
  <2>1. CodePoint(s) = Invalid
    BY <1>1, <1>2, <1>4 DEF CodePoint
  <2>2. QED
    BY <1>1, <1>2, <1>4, <2>1 DEF Invalid, Fragment
<1>5. CASE n > Len(s)
  <2>1. CodePoint(s) = Fragment
    BY <1>1, <1>2, <1>3, <1>5 DEF CodePoint
  <2>2. QED
    BY <1>1, <1>2, <1>5, <2>1 DEF Invalid, Fragment
<1>6. CASE n \in 1..Len(s)
  <2>1. CodePoint(s) = IF \A i \in 2..n : s[i] = "c" THEN n ELSE Invalid
    BY <1>1, <1>2, <1>3, <1>6 DEF CodePoint
  <2>2. QED
    BY <1>1, <1>2, <1>3, <1>6, <2>1 DEF Invalid, Fragment
<1>7. QED
  BY <1>2, <1>3, <1>4, <1>5, <1>6

\* A whole code point is UTF-8.
LEMMA WholeWellFormed ==
  ASSUME NEW s \in Seq(Octets), s # <<>>, CodePoint(s) > 0
  PROVE  WellFormed(SubSeq(s, 1, CodePoint(s)))
<1>1. PICK n : n = CodePoint(s)
  OBVIOUS
<1>2. n \in 1..Len(s) /\ n = Lead[s[1]] /\ \A i \in 2..n : s[i] = "c"
  BY <1>1, CodePointFacts
<1> DEFINE u == SubSeq(s, 1, n)
<1>3. u \in Seq(Octets) /\ Len(u) = n /\ \A i \in 1..n : u[i] = s[i]
  <2>1. n \in 0..Len(s)
    BY <1>2
  <2>2. QED
    BY <2>1, Parts
<1> HIDE DEF u
<1>4. n \in Nat /\ n # 0 /\ u[1] = s[1] /\ Lead[u[1]] = n /\ u[1] # "c"
  BY <1>2, <1>3, LeadFacts
<1>5. \A i \in 1..n : (u[i] = "c" <=> Continues(u, i)) /\ Leads(u, i)
  <2> TAKE i \in 1..n
  <2>1. CASE i = 1
    BY <1>3, <1>4, <2>1 DEF Continues, Leads
  <2>2. CASE i # 1
    <3>1. i \in 2..n /\ u[i] = "c"
      BY <1>2, <1>3, <1>4, <2>2
    <3>2. 1 \in 1 .. i - 1 /\ i - 1 < Lead[u[1]]
      BY <1>4, <3>1
    <3>3. QED
      BY <3>1, <3>2 DEF Continues, Leads
  <2>3. QED
    BY <2>1, <2>2
<1>6. QED
  BY <1>1, <1>3, <1>5, WellFormedAt DEF u

\* What is no code point does not become one, whatever comes after it.
LEMMA InvalidRefuted ==
  ASSUME NEW s \in Seq(Octets), s # <<>>, CodePoint(s) = Invalid,
         NEW t \in Seq(Octets)
  PROVE  ~WellFormed(s \o t)
<1> DEFINE r == s \o t
<1>1. /\ r \in Seq(Octets) /\ Len(s) \in Nat /\ Len(s) # 0 /\ Len(t) \in Nat
      /\ Len(r) = Len(s) + Len(t) /\ \A i \in 1..Len(s) : r[i] = s[i]
  <2>1. /\ r \in Seq(Octets) /\ Len(r) = Len(s) + Len(t)
        /\ \A i \in 1 .. Len(s) + Len(t) : r[i] = IF i <= Len(s) THEN s[i] ELSE t[i - Len(s)]
    BY ConcatProperties
  <2>2. Len(s) \in Nat /\ Len(s) # 0 /\ Len(t) \in Nat
    OBVIOUS
  <2> HIDE DEF r
  <2>3. QED
    BY <2>1, <2>2
<1> HIDE DEF r
<1>2. SUFFICES ASSUME WellFormed(r) PROVE FALSE
  BY DEF r
<1>3. \A i \in 1..Len(r) : (r[i] = "c" <=> Continues(r, i)) /\ Leads(r, i)
  BY <1>1, <1>2, WellFormedAt
<1>4. 1 \in 1..Len(s) /\ 1 \in 1..Len(r) /\ r[1] = s[1] /\ ~Continues(r, 1)
  BY <1>1 DEF Continues
<1>5. Lead[s[1]] > 0
  BY <1>3, <1>4 DEF Leads
<1>6. PICK i \in 2..Lead[s[1]] : s[i] # "c" /\ Lead[s[1]] \in 1..Len(s)
  BY <1>5, CodePointFacts
<1>7. i \in 1..Len(s) /\ i \in 1..Len(r) /\ r[i] # "c" /\ 1 \in 1 .. i - 1 /\ i - 1 < Lead[r[1]]
  BY <1>1, <1>4, <1>6
<1>8. Continues(r, i)
  BY <1>7 DEF Continues
<1>9. QED
  BY <1>3, <1>7, <1>8

\* A code point that is not whole is not UTF-8.
LEMMA FragmentRefuted ==
  ASSUME NEW s \in Seq(Octets), s # <<>>, CodePoint(s) = Fragment
  PROVE  ~WellFormed(s)
<1>1. Lead[s[1]] > Len(s) /\ Len(s) \in Nat /\ 1 \in 1..Len(s) /\ s[1] \in Octets
  BY CodePointFacts
<1>2. s[1] # "c" /\ Lead[s[1]] \in Nat
  BY <1>1, LeadFacts DEF MaxCodePoint
<1>3. ~Leads(s, 1)
  BY <1>1, <1>2 DEF Leads
<1>4. QED
  BY <1>1, <1>3, WellFormedAt

-----------------------------------------------------------------------------
(* The loop over a buffer.                                                  *)

\* What is left of a buffer from i on.
From(buf, i) == SubSeq(buf, i, Len(buf))

\* One round of Scan at i, if f is what it finds later on.
ScanAt(f, buf, i) ==
    LET rest == From(buf, i)
    IN IF rest = <<>> THEN [result |-> "ok", rest |-> <<>>]
       ELSE CASE CodePoint(rest) > 0 -> f[i + CodePoint(rest)]
              [] CodePoint(rest) = Fragment -> [result |-> "fragment", rest |-> rest]
              [] CodePoint(rest) = Invalid -> [result |-> "invalid", rest |-> <<>>]

\* What is left and what a round may find.
LEMMA FromFacts ==
  ASSUME NEW buf \in Seq(Octets), NEW i \in 1..Len(buf) + 1
  PROVE  /\ From(buf, i) \in Seq(Octets) /\ Len(From(buf, i)) = Len(buf) + 1 - i
         /\ From(buf, i) = <<>> <=> i = Len(buf) + 1
         /\ From(buf, i) # <<>> =>
               CodePoint(From(buf, i)) \in {Invalid, Fragment} \cup 1..Len(From(buf, i))
<1>1. Len(buf) \in Nat /\ i \in Int /\ i - 1 \in 0..Len(buf) /\ (i - 1) + 1 = i
  OBVIOUS
<1>2. From(buf, i) \in Seq(Octets)
  BY <1>1, Parts DEF From
<1>3. Len(From(buf, i)) = Len(buf) + 1 - i
  BY <1>1 DEF From
<1>4. From(buf, i) = <<>> <=> i = Len(buf) + 1
  BY <1>1, <1>2, <1>3
<1>5. QED
  BY <1>2, <1>3, <1>4, CodePointFacts

\* A round depends on what is found later only.
LEMMA ScanAtSame ==
  ASSUME NEW buf \in Seq(Octets), NEW i \in 1..Len(buf) + 1, NEW f, NEW g,
         \A j \in i + 1 .. Len(buf) + 1 : f[j] = g[j]
  PROVE  ScanAt(f, buf, i) = ScanAt(g, buf, i)
<1> DEFINE rest == From(buf, i)
<1>1. Len(buf) \in Nat
  OBVIOUS
<1>2. rest # <<>> /\ CodePoint(rest) > 0 => f[i + CodePoint(rest)] = g[i + CodePoint(rest)]
  <2>1. ASSUME rest # <<>>, CodePoint(rest) > 0
        PROVE  i + CodePoint(rest) \in i + 1 .. Len(buf) + 1
    BY <1>1, <2>1, FromFacts DEF Invalid, Fragment
  <2>2. QED
    BY <2>1
<1>3. CASE rest = <<>>
  BY <1>3 DEF ScanAt
<1>4. CASE rest # <<>> /\ CodePoint(rest) > 0
  <2>1. CodePoint(rest) # Fragment /\ CodePoint(rest) # Invalid
    BY <1>4 DEF Fragment, Invalid
  <2>2. ScanAt(f, buf, i) = f[i + CodePoint(rest)] /\ ScanAt(g, buf, i) = g[i + CodePoint(rest)]
    BY <1>4, <2>1 DEF ScanAt
  <2>3. QED
    BY <1>2, <1>4, <2>2
<1>5. CASE rest # <<>> /\ CodePoint(rest) = Fragment
  BY <1>5 DEF ScanAt, Fragment, Invalid
<1>6. CASE rest # <<>> /\ CodePoint(rest) = Invalid
  BY <1>6 DEF ScanAt, Fragment, Invalid
<1>7. rest = <<>> \/ CodePoint(rest) > 0 \/ CodePoint(rest) = Fragment \/ CodePoint(rest) = Invalid
  BY FromFacts
<1>8. QED
  BY <1>3, <1>4, <1>5, <1>6, <1>7

\* What Scan is defined by exists.
LEMMA ScanExists ==
  ASSUME NEW buf \in Seq(Octets)
  PROVE  \E f : f = [i \in 1..Len(buf) + 1 |-> ScanAt(f, buf, i)]
<1> DEFINE Good(n) == \E f : f = [i \in Len(buf) + 1 - n .. Len(buf) + 1 |-> ScanAt(f, buf, i)]
<1> HIDE DEF Good
<1> DEFINE T == {n \in Nat : n <= Len(buf) /\ ~Good(n)}
<1>1. Len(buf) \in Nat
  OBVIOUS
<1>2. SUFFICES ASSUME T # {} PROVE FALSE
  <2>1. Good(Len(buf))
    BY <1>1
  <2>2. Len(buf) + 1 - Len(buf) = 1
    BY <1>1
  <2>3. QED
    BY <2>1, <2>2 DEF Good
<1>3. T \subseteq Nat /\ \A n : n \in T <=> n \in Nat /\ n <= Len(buf) /\ ~Good(n)
  OBVIOUS
<1> HIDE DEF T
<1>4. PICK n \in T : \A k \in T : n <= k
  BY <1>2, <1>3, Least
<1>5. n \in Nat /\ n <= Len(buf) /\ ~Good(n)
  BY <1>3
<1>6. PICK a : a = Len(buf) + 1 - n
  OBVIOUS
<1>7. a \in 1..Len(buf) + 1
  BY <1>1, <1>5, <1>6
<1> DEFINE D == a .. Len(buf) + 1
<1>8. \E f : \A i \in a + 1 .. Len(buf) + 1 : f[i] = ScanAt(f, buf, i)
  <2>1. CASE n = 0
    <3>1. a + 1 .. Len(buf) + 1 = {}
      BY <1>1, <1>6, <2>1
    <3>2. QED
      BY <3>1
  <2>2. CASE n # 0
    <3>1. n - 1 \in Nat /\ n - 1 <= Len(buf) /\ ~(n <= n - 1) /\ Len(buf) + 1 - (n - 1) = a + 1
      BY <1>1, <1>5, <1>6, <2>2
    <3>2. Good(n - 1)
      BY <1>3, <1>4, <3>1
    <3>3. PICK f : f = [i \in a + 1 .. Len(buf) + 1 |-> ScanAt(f, buf, i)]
      BY <3>1, <3>2 DEF Good
    <3>4. \A i \in a + 1 .. Len(buf) + 1 : f[i] = ScanAt(f, buf, i)
      BY <3>3
    <3>5. QED
      BY <3>4
  <2>3. QED
    BY <2>1, <2>2
<1>9. PICK f : \A i \in a + 1 .. Len(buf) + 1 : f[i] = ScanAt(f, buf, i)
  BY <1>8
<1> DEFINE g == [i \in D |-> ScanAt(f, buf, i)]
<1>10. \A i \in D : ScanAt(f, buf, i) = ScanAt(g, buf, i)
  <2> TAKE i \in D
  <2>1. i \in 1..Len(buf) + 1 /\ \A j \in i + 1 .. Len(buf) + 1 : j \in D /\ j \in a + 1 .. Len(buf) + 1
    BY <1>1, <1>7
  <2>2. \A j \in i + 1 .. Len(buf) + 1 : f[j] = g[j]
    BY <1>9, <2>1
  <2> HIDE DEF g
  <2>3. QED
    BY <2>1, <2>2, ScanAtSame
<1>11. g = [i \in D |-> ScanAt(g, buf, i)]
  BY <1>10
<1>12. Good(n)
  BY <1>6, <1>11 DEF Good
<1>13. QED
  BY <1>5, <1>12

\* What a scan of s that ends with v says of s.
Outcome(v, s) ==
    \/ v.result = "ok" /\ WellFormed(s)
    \/ /\ v.result = "fragment" /\ v.rest \in Seq(Octets) /\ v.rest # <<>>
       /\ CodePoint(v.rest) = Fragment
       /\ \E p \in Seq(Octets) : WellFormed(p) /\ s = p \o v.rest
    \/ /\ v.result = "invalid"
       /\ \E p, r \in Seq(Octets) :
             WellFormed(p) /\ s = p \o r /\ r # <<>> /\ CodePoint(r) = Invalid

\* What comes after a whole code point says the same of all.
LEMMA OutcomeAfter ==
  ASSUME NEW u \in Seq(Octets), WellFormed(u), NEW s \in Seq(Octets), NEW v, Outcome(v, s)
  PROVE  Outcome(v, u \o s)
<1>1. CASE v.result = "ok" /\ WellFormed(s)
  BY <1>1, WellFormedConcat DEF Outcome
<1>2. ASSUME NEW p \in Seq(Octets), NEW r \in Seq(Octets), WellFormed(p), s = p \o r
      PROVE  u \o p \in Seq(Octets) /\ WellFormed(u \o p) /\ u \o s = (u \o p) \o r
  BY <1>2, WellFormedConcat, ConcatAssociative, ConcatProperties
<1>3. CASE /\ v.result = "fragment" /\ v.rest \in Seq(Octets) /\ v.rest # <<>>
           /\ CodePoint(v.rest) = Fragment
           /\ \E p \in Seq(Octets) : WellFormed(p) /\ s = p \o v.rest
  <2>1. PICK p \in Seq(Octets) : WellFormed(p) /\ s = p \o v.rest
    BY <1>3
  <2>2. u \o p \in Seq(Octets) /\ WellFormed(u \o p) /\ u \o s = (u \o p) \o v.rest
    BY <1>2, <1>3, <2>1
  <2>3. QED
    BY <1>3, <2>2 DEF Outcome
<1>4. CASE /\ v.result = "invalid"
           /\ \E p, r \in Seq(Octets) :
                 WellFormed(p) /\ s = p \o r /\ r # <<>> /\ CodePoint(r) = Invalid
  BY <1>2, <1>4 DEF Outcome
<1>5. QED
  BY <1>1, <1>3, <1>4 DEF Outcome

\* Nothing is UTF-8.
LEMMA EmptyWellFormed == WellFormed(<<>>)
BY DEF WellFormed

\* Scan finds UTF-8 and nothing else to be well-formed.
LEMMA ScanFacts ==
  ASSUME NEW buf \in Seq(Octets)
  PROVE  Outcome(Scan(buf), buf)
<1> DEFINE F == CHOOSE f : f = [i \in 1..Len(buf) + 1 |-> ScanAt(f, buf, i)]
<1>1. F = [i \in 1..Len(buf) + 1 |-> ScanAt(F, buf, i)]
  BY ScanExists
<1>2. Scan(buf) = F[1]
  BY Zenon DEF Scan, ScanAt, From
<1> HIDE DEF F
<1>3. Len(buf) \in Nat
  OBVIOUS
<1>4. \A i \in 1..Len(buf) + 1 : F[i] = ScanAt(F, buf, i)
  BY <1>1
<1> DEFINE Good(n) == Outcome(F[Len(buf) + 1 - n], From(buf, Len(buf) + 1 - n))
<1> HIDE DEF Good
<1> DEFINE T == {n \in Nat : n <= Len(buf) /\ ~Good(n)}
<1>5. SUFFICES ASSUME T # {} PROVE FALSE
  <2>1. Good(Len(buf))
    BY <1>3
  <2>2. Len(buf) + 1 - Len(buf) = 1
    BY <1>3
  <2>3. From(buf, 1) = buf
    BY SubSeqFull DEF From
  <2>4. QED
    BY <1>2, <2>1, <2>2, <2>3 DEF Good
<1>6. T \subseteq Nat /\ \A n : n \in T <=> n \in Nat /\ n <= Len(buf) /\ ~Good(n)
  OBVIOUS
<1> HIDE DEF T
<1>7. PICK n \in T : \A k \in T : n <= k
  BY <1>5, <1>6, Least
<1>8. n \in Nat /\ n <= Len(buf) /\ ~Good(n)
  BY <1>6
<1>9. PICK i : i = Len(buf) + 1 - n
  OBVIOUS
<1>10. i \in 1..Len(buf) + 1 /\ Len(buf) + 1 - i = n
  BY <1>3, <1>8, <1>9
<1> DEFINE s == From(buf, i)
<1>11. /\ s \in Seq(Octets) /\ Len(s) = n /\ (s = <<>> <=> i = Len(buf) + 1)
       /\ s # <<>> => CodePoint(s) \in {Invalid, Fragment} \cup 1..Len(s)
  BY <1>10, FromFacts
<1>12. F[i] = ScanAt(F, buf, i)
  BY <1>4, <1>10
<1>13. ~Outcome(F[i], s)
  BY <1>8, <1>9 DEF Good
<1>14. s # <<>>
  <2>1. ASSUME s = <<>> PROVE FALSE
    <3>1. F[i].result = "ok"
      BY <1>12, <2>1 DEF ScanAt
    <3>2. WellFormed(s)
      BY <2>1, EmptyWellFormed
    <3>3. QED
      BY <1>13, <3>1, <3>2 DEF Outcome
  <2>2. QED
    BY <2>1
<1>15. CodePoint(s) # Fragment
  <2>1. ASSUME CodePoint(s) = Fragment PROVE FALSE
    <3>1. F[i] = [result |-> "fragment", rest |-> s]
      BY <1>12, <1>14, <2>1 DEF ScanAt, Fragment, Invalid
    <3>2. F[i].result = "fragment" /\ F[i].rest = s
      BY <3>1
    <3>3. s = <<>> \o s /\ <<>> \in Seq(Octets)
      BY <1>11, ConcatEmptySeq
    <3>4. QED
      BY <1>11, <1>13, <1>14, <2>1, <3>2, <3>3, EmptyWellFormed DEF Outcome
  <2>2. QED
    BY <2>1
<1>16. CodePoint(s) # Invalid
  <2>1. ASSUME CodePoint(s) = Invalid PROVE FALSE
    <3>1. F[i] = [result |-> "invalid", rest |-> <<>>]
      BY <1>12, <1>14, <2>1 DEF ScanAt, Fragment, Invalid
    <3>2. F[i].result = "invalid"
      BY <3>1
    <3>3. s = <<>> \o s /\ <<>> \in Seq(Octets)
      BY <1>11, ConcatEmptySeq
    <3>4. QED
      BY <1>11, <1>13, <1>14, <2>1, <3>2, <3>3, EmptyWellFormed DEF Outcome
  <2>2. QED
    BY <2>1
<1>17. PICK c : c = CodePoint(s)
  OBVIOUS
<1>18. c \in 1..Len(s) /\ c \in Nat /\ c > 0 /\ c <= n
  BY <1>8, <1>11, <1>14, <1>15, <1>16, <1>17
<1>19. F[i] = F[i + c]
  BY <1>12, <1>14, <1>17, <1>18 DEF ScanAt, Fragment, Invalid
<1>20. n - c \in Nat /\ n - c <= Len(buf) /\ ~(n <= n - c) /\ Len(buf) + 1 - (n - c) = i + c
  BY <1>3, <1>8, <1>9, <1>18
<1>21. Good(n - c)
  BY <1>6, <1>7, <1>20
<1>22. Outcome(F[i], From(buf, i + c))
  BY <1>19, <1>20, <1>21 DEF Good
<1>23. s = SubSeq(s, 1, c) \o From(buf, i + c) /\ SubSeq(s, 1, c) \in Seq(Octets)
  <2>1. c \in 0..Len(s)
    BY <1>18
  <2>2. s = SubSeq(s, 1, c) \o SubSeq(s, c + 1, Len(s)) /\ SubSeq(s, 1, c) \in Seq(Octets)
    BY <1>11, <2>1, Parts
  <2>3. SubSeq(s, c + 1, Len(s)) = From(buf, i + c)
    <3> DEFINE t == SubSeq(s, c + 1, Len(s))
               w == From(buf, i + c)
    <3>1. t \in Seq(Octets) /\ Len(t) = n - c
      BY <1>11, <1>18, <1>8, <2>1, Parts
    <3>2. i + c \in 1..Len(buf) + 1 /\ Len(buf) + 1 - (i + c) = n - c
      BY <1>3, <1>10, <1>8, <1>18
    <3>3. w \in Seq(Octets) /\ Len(w) = n - c
      BY <3>2, FromFacts
    <3>4. ASSUME NEW j \in 1..n - c PROVE t[j] = w[j]
      <4>1. t[j] = s[c + j]
        BY <1>11, <1>18, <1>8
      <4>2. c + j \in 1..n
        BY <1>18, <1>8
      <4>3. s[c + j] = buf[i + (c + j) - 1]
        BY <1>3, <1>10, <1>8, <4>2 DEF From
      <4>4. w[j] = buf[(i + c) + j - 1]
        BY <1>3, <1>8, <3>2 DEF From
      <4>5. i + (c + j) - 1 = (i + c) + j - 1
        BY <1>10, <1>18, <1>8
      <4>6. QED
        BY <4>1, <4>3, <4>4, <4>5
    <3> HIDE DEF t, w
    <3>5. t = w
      BY <3>1, <3>3, <3>4, SeqEqual
    <3>6. QED
      BY <3>5 DEF t, w
  <2>4. QED
    BY <2>2, <2>3
<1>24. From(buf, i + c) \in Seq(Octets)
  <2>1. i + c \in 1..Len(buf) + 1
    BY <1>3, <1>10, <1>8, <1>18
  <2>2. QED
    BY <2>1, FromFacts
<1>25. WellFormed(SubSeq(s, 1, c))
  BY <1>11, <1>14, <1>17, <1>18, WholeWellFormed
<1>26. Outcome(F[i], s)
  BY <1>22, <1>23, <1>24, <1>25, OutcomeAfter
<1>27. QED
  BY <1>13, <1>26

-----------------------------------------------------------------------------
(* The invariant, of a session in any state x.                              *)

\* A frame as its header tells it.
Frame ==
    [fin : BOOLEAN, opcode : Data \cup {"PING", "PONG", "CLOSE", "other", "NONE"},
     rsv : BOOLEAN, masked : BOOLEAN, long : BOOLEAN, code : Code, payload : Seq(Octets),
     excess : 0 .. Word]

\* The frames a header may tell of. A length is cut to nothing, or there is nothing
\* but the length, which cannot be allocated.
Frames ==
    {f \in Frame : /\ f.opcode # "NONE" /\ (f.opcode \in Data => f.code = "none")
                   /\ Len(f.payload) < Word
                   /\ f.excess > 0 => f.excess > Memory
                   /\ f.excess \in 1 .. Word - 1 => f.payload = <<>>}

\* The fields of m.
Fields == {"mode", "proto", "peer", "session", "hs", "reads", "code", "broken", "retry",
           "odd", "aborted", "out", "in", "frame", "continuing", "type", "array", "total",
           "utf8", "close", "frames", "due"}

\* Where a session that talks is, and what m may hold.
Reading == {"RECV_HDR", "RECV_HDREXT", "RECV_PAYLOAD", "RECVD_CHUNKED", "RECVD_CONTROL"}
Closes == {"NO", "NORMAL", "ECHO", "PROTO", "INVALID_FRAME", "TOOBIG"}
Oddities == {"line", "full", "zero", "rest", "rejected", "split", "whole", "empty",
             "huge", "cut", "raw", "left"}

\* The assertions that are known to fail, but for what another connection left.
Known == {"line", "full", "zero", "rest", "whole", "huge"}

\* What the fields are that the properties speak of.
Typed(x) ==
    /\ DOMAIN x = Fields
    /\ x.mode \in {"client", "server"}
    /\ x.session \in {"HANDSHAKE", "ACTIVE", "CLOSING_CONNECTION", "DONE"}
    /\ x.in \in {"NULL", "CLOSED"} \cup Reading
    /\ x.out \in {"NULL", "IDLE", "SENDING"}
    /\ x.close \in Closes /\ x.odd \subseteq Oddities /\ x.aborted \in BOOLEAN
    /\ x.frame \in Frame /\ x.continuing \in BOOLEAN
    /\ x.array \in Seq(Seq(Octets)) /\ x.total \in Nat
    /\ x.utf8 \in Seq(Octets) /\ Len(x.utf8) <= MaxCodePoint
    /\ x.due \in Seq(Octets)

\* The chunks are counted, and they are all octets of a message so far unless the
\* length of one was cut.
Gathered(x, due) ==
    /\ x.total = Len(FlattenSeq(x.array))
    /\ "cut" \notin x.odd => FlattenSeq(x.array) = due

\* Nothing is known to go wrong with UTF-8.
Sober(x) == x.odd \cap {"split", "empty", "cut"} = {}

\* A text is UTF-8 up to what is kept of a code point, and what is not looked at.
Begun(x, rest) == \E p \in Seq(Octets) : WellFormed(p) /\ x.due = (p \o x.utf8) \o rest

\* Between two frames, or at a control frame, which does not change it.
Between(x) ==
    /\ ~x.continuing => x.array = <<>>
    /\ x.continuing => x.type \in {"TEXT", "BINARY"} /\ Gathered(x, x.due)
    /\ Sober(x) => IF x.continuing /\ x.type = "TEXT" THEN Begun(x, <<>>) ELSE x.utf8 = <<>>

\* The next frame may begin a message.
Ready(x) == Between(x) /\ (~x.continuing => x.total = 0)

\* At a data frame: what the octets that it said are a part of.
InData(x, said) ==
    /\ x.continuing = ~x.frame.fin /\ x.type \in {"TEXT", "BINARY"}
    /\ x.frame.code = "none"
    /\ Sober(x) => IF x.type = "TEXT" THEN Begun(x, said) ELSE x.utf8 = <<>>

\* A frame was begun: its header was read, and what a message gathered so far is
\* all but its payload.
Framed(x) ==
    /\ x.frame \in Frames /\ x.frame.opcode \in Data \cup {"PING", "PONG", "CLOSE"}
    /\ x.frame.excess = Word => "cut" \in x.odd
    /\ x.frame.opcode \notin Data => Ready(x)
    /\ x.frame.opcode \in Data =>
          /\ InData(x, Said(x.frame))
          /\ \E q \in Seq(Octets) : Gathered(x, q) /\ x.due = q \o Said(x.frame)

\* Its payload is there.
PayloadIn(x) ==
    /\ x.frame.opcode \in Data \cup {"PING", "PONG", "CLOSE"}
    /\ x.frame.opcode \notin Data => Ready(x)
    /\ x.frame.opcode \in Data =>
          InData(x, x.frame.payload) /\ x.frame.payload # <<>> /\ Gathered(x, x.due)

\* A message can be handed over.
Whole(x) ==
    /\ x.frame.fin /\ ~x.continuing /\ x.type \in {"TEXT", "BINARY"} /\ Gathered(x, x.due)
    /\ Sober(x) => x.utf8 = <<>> /\ (x.type = "TEXT" => WellFormed(x.due))

\* What is known where a session that talks is.
Where(x) ==
    /\ CodePoint(x.utf8) = Fragment
    /\ x.in \in {"RECV_HDR", "RECVD_CONTROL"} => Ready(x)
    /\ x.in = "RECV_HDREXT" => Framed(x)
    /\ x.in = "RECV_PAYLOAD" => PayloadIn(x)
    /\ x.in = "RECVD_CHUNKED" => Whole(x)

\* A connection was failed only for what is not UTF-8.
Refuted(x) ==
    x.close = "INVALID_FRAME" =>
        /\ x.frame.fin => ~WellFormed(x.due)
        /\ ~x.frame.fin => ~Beginning(x.due)

\* No message was begun.
Fresh(x) ==
    /\ ~x.continuing /\ x.close = "NO" /\ x.array = <<>> /\ x.total = 0 /\ x.utf8 = <<>>

\* The invariant of a session that began with nothing left over.
Kept(x) ==
    /\ Typed(x)
    /\ x.aborted => x.odd \cap Known # {}
    /\ x.session = "HANDSHAKE" => Fresh(x)
    /\ x.session = "ACTIVE" =>
          /\ x.close = "NO" /\ x.total <= Limit /\ x.in \in Reading
          /\ IF x.aborted THEN x.in # "RECVD_CHUNKED" ELSE Where(x)
    /\ Sober(x) => Refuted(x)

\* A length that is not too much is that of the payload.
LEMMA LengthFacts ==
  ASSUME NEW f \in Frames
  PROVE  /\ Length(f) \in Nat
         /\ f.excess = 0 => Length(f) = Len(f.payload)
         /\ Length(f) <= Memory =>
               Length(f) = Len(f.payload) /\ (f.excess # Word => f.excess = 0)
<1> DEFINE n == Len(f.payload)
<1>1. /\ n \in Nat /\ n < Word /\ f.excess \in 0 .. Word /\ (f.excess > 0 => f.excess > Memory)
      /\ f.excess \in 1 .. Word - 1 => n = 0
  BY DEF Frames, Frame
<1>2. Memory \in Nat /\ Word \in Nat
  BY WordAssumption
<1>3. Length(f) = IF n + f.excess < Word THEN n + f.excess ELSE n + f.excess - Word
  BY <1>1, <1>2 DEF Length, Cast
<1> HIDE DEF n
<1>4. QED
  BY <1>1, <1>2, <1>3 DEF n

\* What a frame says is its payload unless its length is too much.
LEMMA SaidFacts ==
  ASSUME NEW f \in Frames
  PROVE  Said(f) \in Seq(Octets) /\ (f.excess = 0 => Said(f) = f.payload)
<1>1. f.payload \in Seq(Octets) /\ f.excess \in Nat
  BY WordAssumption DEF Frames, Frame
<1> DEFINE e == [i \in 1 .. f.excess |-> "x"]
<1>2. e \in Seq(Octets)
  <2>1. "x" \in Octets
    BY DEF Octets, Lead
  <2>2. QED
    BY <1>1, <2>1
<1>3. f.excess = 0 => e = <<>>
  <2>1. ASSUME f.excess = 0 PROVE e = <<>>
    <3>1. Len(e) = 0
      BY <2>1
    <3> HIDE DEF e
    <3>2. QED
      BY <1>2, <3>1
  <2>2. QED
    BY <2>1
<1>4. Said(f) = f.payload \o e
  BY DEF Said
<1> HIDE DEF e
<1>5. QED
  BY <1>1, <1>2, <1>3, <1>4, ConcatProperties, ConcatEmptySeq

\* The octets of a code point that is not whole are fewer than it can have.
LEMMA UnfinishedFacts ==
  /\ CodePoint(<<>>) = Fragment
  /\ \A s \in Seq(Octets) : CodePoint(s) = Fragment => Len(s) < MaxCodePoint
<1>1. CodePoint(<<>>) = Fragment
  BY DEF CodePoint
<1>2. ASSUME NEW s \in Seq(Octets), CodePoint(s) = Fragment PROVE Len(s) < MaxCodePoint
  <2>1. CASE s = <<>>
    BY <2>1 DEF MaxCodePoint
  <2>2. CASE s # <<>>
    <3>1. Lead[s[1]] > Len(s) /\ s[1] \in Octets
      BY <1>2, <2>2, CodePointFacts
    <3>2. QED
      BY <3>1, LeadFacts DEF MaxCodePoint
  <2>3. QED
    BY <2>1, <2>2
<1>3. QED
  BY <1>1, <1>2

\* Octets that are UTF-8 before ones that are none are not UTF-8 and cannot become so,
\* whatever comes after them.
LEMMA RefuteAll ==
  ASSUME NEW p \in Seq(Octets), WellFormed(p), NEW r \in Seq(Octets), r # <<>>,
         CodePoint(r) = Invalid, NEW t \in Seq(Octets)
  PROVE  ~WellFormed((p \o r) \o t) /\ ~Beginning((p \o r) \o t)
<1>1. ASSUME NEW u \in Seq(Octets) PROVE ~WellFormed((p \o r) \o u)
  <2>1. r \o u \in Seq(Octets) /\ (p \o r) \o u = p \o (r \o u)
    BY ConcatProperties, ConcatAssociative
  <2>2. ~WellFormed(r \o u)
    BY InvalidRefuted
  <2>3. QED
    BY <2>1, <2>2, WellFormedConcat
<1>2. ASSUME NEW n \in 0 .. MaxCodePoint - 1
      PROVE  ~WellFormed(((p \o r) \o t) \o [i \in 1..n |-> "c"])
  <2>1. n \in Nat
    BY DEF MaxCodePoint
  <2> DEFINE c == [i \in 1..n |-> "c"]
  <2>2. c \in Seq(Octets)
    BY <2>1, LeadFacts
  <2> HIDE DEF c
  <2>3. p \o r \in Seq(Octets) /\ t \o c \in Seq(Octets)
    BY <2>2, ConcatProperties
  <2>4. ((p \o r) \o t) \o c = (p \o r) \o (t \o c)
    BY <2>2, <2>3, ConcatAssociative
  <2>5. ~WellFormed((p \o r) \o (t \o c))
    BY <1>1, <2>3
  <2>6. QED
    BY <2>4, <2>5 DEF c
<1>3. QED
  BY <1>1, <1>2 DEF Beginning

\* The same of those that end with none, or with a part of a code point.
LEMMA Refute ==
  ASSUME NEW p \in Seq(Octets), WellFormed(p), NEW r \in Seq(Octets), r # <<>>
  PROVE  /\ CodePoint(r) = Invalid => ~WellFormed(p \o r) /\ ~Beginning(p \o r)
         /\ CodePoint(r) = Fragment => ~WellFormed(p \o r)
<1>1. CodePoint(r) = Fragment => ~WellFormed(p \o r)
  BY WellFormedConcat, FragmentRefuted
<1>2. p \o r \in Seq(Octets) /\ (p \o r) \o <<>> = p \o r /\ <<>> \in Seq(Octets)
  BY ConcatProperties, ConcatEmptySeq
<1>3. ASSUME CodePoint(r) = Invalid
      PROVE  ~WellFormed((p \o r) \o <<>>) /\ ~Beginning((p \o r) \o <<>>)
  BY <1>2, <1>3, RefuteAll
<1>4. QED
  BY <1>1, <1>2, <1>3

\* What a scan says of a text that is UTF-8 up to where it begins.
LEMMA ScanText ==
  ASSUME NEW p \in Seq(Octets), WellFormed(p), NEW buf \in Seq(Octets)
  PROVE  /\ Scan(buf).result \in {"ok", "fragment", "invalid"}
         /\ Scan(buf).result = "ok" => WellFormed(p \o buf)
         /\ Scan(buf).result = "invalid" => ~WellFormed(p \o buf) /\ ~Beginning(p \o buf)
         /\ Scan(buf).result = "fragment" =>
               /\ Scan(buf).rest \in Seq(Octets) /\ CodePoint(Scan(buf).rest) = Fragment
               /\ ~WellFormed(p \o buf)
               /\ \E q \in Seq(Octets) : WellFormed(q) /\ p \o buf = q \o Scan(buf).rest
<1> DEFINE v == Scan(buf)
<1>1. Outcome(v, p \o buf)
  BY ScanFacts, OutcomeAfter
<1> HIDE DEF v
<1>2. CASE v.result = "ok" /\ WellFormed(p \o buf)
  BY <1>2 DEF v
<1>3. CASE /\ v.result = "fragment" /\ v.rest \in Seq(Octets) /\ v.rest # <<>>
           /\ CodePoint(v.rest) = Fragment
           /\ \E q \in Seq(Octets) : WellFormed(q) /\ p \o buf = q \o v.rest
  <2>1. ~WellFormed(p \o buf)
    BY <1>3, Refute
  <2>2. QED
    BY <1>3, <2>1 DEF v
<1>4. CASE /\ v.result = "invalid"
           /\ \E q, r \in Seq(Octets) :
                 WellFormed(q) /\ p \o buf = q \o r /\ r # <<>> /\ CodePoint(r) = Invalid
  <2>1. ~WellFormed(p \o buf) /\ ~Beginning(p \o buf)
    BY <1>4, Refute
  <2>2. QED
    BY <1>4, <2>1 DEF v
<1>5. QED
  BY <1>1, <1>2, <1>3, <1>4 DEF Outcome

-----------------------------------------------------------------------------
(* What is done with a frame keeps the invariant.                           *)

\* A session that talks, wherever it is in a message.
Active(x) ==
    /\ Typed(x) /\ x.session = "ACTIVE" /\ ~x.aborted /\ x.close = "NO" /\ x.total <= Limit

\* The next header is read.
LEMMA RecvHdrKept ==
  ASSUME NEW x, Active(x), Between(x), CodePoint(x.utf8) = Fragment
  PROVE  Kept(RecvHdr(x))
<1> DEFINE y == RecvHdr(x)
<1>1. NoFrame \in Frame
  BY WordAssumption DEF NoFrame, Frame, Code
<1>2. Limit \in Nat
  BY BoundsAssumption
<1>3. x.continuing \in BOOLEAN
  BY DEF Active, Typed
<1>4. CASE x.continuing
  <2>1. y = [x EXCEPT !.in = "RECV_HDR", !.frame = NoFrame]
    BY <1>4 DEF RecvHdr
  <2> HIDE DEF y
  <2>2. /\ DOMAIN y = Fields /\ y.in = "RECV_HDR" /\ y.frame = NoFrame
        /\ y.mode = x.mode /\ y.session = x.session /\ y.out = x.out /\ y.close = x.close
        /\ y.odd = x.odd /\ y.aborted = x.aborted /\ y.continuing = x.continuing
        /\ y.type = x.type /\ y.array = x.array /\ y.total = x.total /\ y.utf8 = x.utf8
        /\ y.due = x.due
    BY <2>1 DEF Active, Typed, Fields
  <2>3. Typed(y)
    BY <1>1, <2>2 DEF Active, Typed, Reading
  <2>4. Ready(y)
    BY <1>4, <2>2 DEF Between, Ready, Gathered, Sober, Begun
  <2>5. Where(y)
    BY <2>2, <2>4 DEF Where
  <2>6. QED
    BY <2>2, <2>3, <2>5 DEF Kept, Active, Refuted, Reading, y
<1>5. CASE ~x.continuing
  <2>1. x.array = <<>>
    BY <1>5 DEF Between
  <2>2. y = [x EXCEPT !.in = "RECV_HDR", !.frame = NoFrame, !.total = 0]
    BY <1>5, <2>1 DEF RecvHdr, Active, Typed, Fields
  <2> HIDE DEF y
  <2>3. /\ DOMAIN y = Fields /\ y.in = "RECV_HDR" /\ y.frame = NoFrame
        /\ y.mode = x.mode /\ y.session = x.session /\ y.out = x.out /\ y.close = x.close
        /\ y.odd = x.odd /\ y.aborted = x.aborted /\ y.continuing = x.continuing
        /\ y.type = x.type /\ y.array = x.array /\ y.total = 0 /\ y.utf8 = x.utf8
        /\ y.due = x.due
    BY <2>2 DEF Active, Typed, Fields
  <2>4. Typed(y)
    BY <1>1, <2>3 DEF Active, Typed, Reading
  <2>5. Ready(y)
    BY <1>5, <2>3 DEF Between, Ready, Sober
  <2>6. Where(y)
    BY <2>3, <2>5 DEF Where
  <2>7. QED
    BY <1>2, <2>3, <2>4, <2>6 DEF Kept, Active, Refuted, Reading, y
<1>6. QED
  BY <1>3, <1>4, <1>5

\* A connection is failed.
LEMMA FailConnKept ==
  ASSUME NEW x, Typed(x), ~x.aborted, NEW why \in Closes,
         why = "INVALID_FRAME" /\ Sober(x) =>
            (x.frame.fin => ~WellFormed(x.due)) /\ (~x.frame.fin => ~Beginning(x.due))
  PROVE  Kept(FailConn(x, why))
<1> DEFINE y == FailConn(x, why)
<1>1. /\ DOMAIN y = Fields /\ y.in = "CLOSED" /\ y.array = <<>> /\ y.close = why
      /\ y.out = (IF x.out = "IDLE" THEN "SENDING" ELSE x.out)
      /\ y.session = (IF x.out = "IDLE" THEN "CLOSING_CONNECTION" ELSE "DONE")
      /\ y.frame = x.frame /\ y.mode = x.mode /\ y.odd = x.odd /\ y.aborted = x.aborted
      /\ y.continuing = x.continuing /\ y.total = x.total /\ y.utf8 = x.utf8 /\ y.due = x.due
  BY DEF Typed, Fields, FailConn
<1> HIDE DEF y
<1>2. Typed(y)
  BY <1>1 DEF Typed
<1>3. QED
  BY <1>1, <1>2 DEF Kept, Refuted, Sober, y

\* A state that only waits for something else is as good as the one before it.
LEMMA WaitsKept ==
  ASSUME NEW x, Active(x), NEW in \in Reading, CodePoint(x.utf8) = Fragment,
         in \in {"RECV_HDR", "RECVD_CONTROL"} => Ready(x),
         in = "RECV_HDREXT" => Framed(x),
         in = "RECV_PAYLOAD" => PayloadIn(x),
         in = "RECVD_CHUNKED" => Whole(x)
  PROVE  Kept([x EXCEPT !.in = in])
<1> DEFINE y == [x EXCEPT !.in = in]
<1>1. /\ DOMAIN y = Fields /\ y.in = in
      /\ y.mode = x.mode /\ y.session = x.session /\ y.out = x.out /\ y.close = x.close
      /\ y.odd = x.odd /\ y.aborted = x.aborted /\ y.continuing = x.continuing
      /\ y.type = x.type /\ y.array = x.array /\ y.total = x.total /\ y.utf8 = x.utf8
      /\ y.due = x.due /\ y.frame = x.frame
  BY DEF Active, Typed, Fields
<1> HIDE DEF y
<1>2. Typed(y)
  BY <1>1 DEF Active, Typed
<1>3. Sober(y) <=> Sober(x)
  BY <1>1 DEF Sober
<1>4. \A s : Begun(y, s) <=> Begun(x, s)
  BY <1>1 DEF Begun
<1>5. \A s : Gathered(y, s) <=> Gathered(x, s)
  BY <1>1 DEF Gathered
<1>6. Ready(x) => Ready(y)
  BY <1>1, <1>3, <1>4, <1>5 DEF Ready, Between
<1>7. \A s : InData(x, s) => InData(y, s)
  BY <1>1, <1>3, <1>4 DEF InData
<1>8. (Framed(x) => Framed(y)) /\ (PayloadIn(x) => PayloadIn(y))
  BY <1>1, <1>5, <1>6, <1>7 DEF Framed, PayloadIn
<1>9. Whole(x) => Whole(y)
  BY <1>1, <1>3, <1>5 DEF Whole
<1>10. Where(y)
  BY <1>1, <1>6, <1>8, <1>9 DEF Where
<1>11. QED
  BY <1>1, <1>2, <1>10 DEF Kept, Active, Refuted, y

\* A part of a data frame was gathered.
LEMMA ChunkedKept ==
  ASSUME NEW x, Active(x), CodePoint(x.utf8) = Fragment,
         x.continuing = ~x.frame.fin, x.type \in {"TEXT", "BINARY"}, Gathered(x, x.due),
         Sober(x) /\ x.frame.fin => x.utf8 = <<>> /\ (x.type = "TEXT" => WellFormed(x.due)),
         Sober(x) /\ ~x.frame.fin =>
            IF x.type = "TEXT" THEN Begun(x, <<>>) ELSE x.utf8 = <<>>
  PROVE  Kept(Chunked(x))
<1>1. x.frame.fin \in BOOLEAN
  BY DEF Active, Typed, Frame
<1>2. CASE x.frame.fin
  <2>1. Whole(x)
    BY <1>2 DEF Whole
  <2>2. QED
    BY <1>2, <2>1, WaitsKept DEF Chunked, Reading
<1>3. CASE ~x.frame.fin
  <2>1. Between(x)
    BY <1>3 DEF Between
  <2>2. QED
    BY <1>3, <2>1, RecvHdrKept DEF Chunked
<1>4. QED
  BY <1>1, <1>2, <1>3

\* The peer closes the connection.
LEMMA AcknowledgeCloseKept ==
  ASSUME NEW x, Active(x)
  PROVE  Kept(AcknowledgeClose(x))
<1>1. \A why \in {"NORMAL", "PROTO", "ECHO"} : Kept(FailConn(x, why))
  BY FailConnKept DEF Active, Closes
<1>2. AcknowledgeClose(x) \in {FailConn(x, why) : why \in {"NORMAL", "PROTO", "ECHO"}}
  BY DEF AcknowledgeClose
<1>3. QED
  BY <1>1, <1>2

\* Another fragment of a code point is kept.
LEMMA KeepFacts ==
  ASSUME NEW x, Typed(x), NEW u \in Seq(Octets), Len(u) <= MaxCodePoint
  PROVE  /\ Typed([x EXCEPT !.utf8 = u])
         /\ [x EXCEPT !.utf8 = u].utf8 = u
         /\ [x EXCEPT !.utf8 = u].frame = x.frame
         /\ [x EXCEPT !.utf8 = u].due = x.due
         /\ [x EXCEPT !.utf8 = u].session = x.session
         /\ [x EXCEPT !.utf8 = u].aborted = x.aborted
         /\ [x EXCEPT !.utf8 = u].close = x.close
         /\ [x EXCEPT !.utf8 = u].total = x.total
         /\ [x EXCEPT !.utf8 = u].array = x.array
         /\ [x EXCEPT !.utf8 = u].continuing = x.continuing
         /\ [x EXCEPT !.utf8 = u].type = x.type
         /\ [x EXCEPT !.utf8 = u].odd = x.odd
         /\ [x EXCEPT !.utf8 = u].in = x.in
         /\ [x EXCEPT !.utf8 = u].out = x.out
         /\ Active(x) => Active([x EXCEPT !.utf8 = u])
<1> DEFINE y == [x EXCEPT !.utf8 = u]
<1>1. /\ DOMAIN y = Fields /\ y.in = x.in /\ y.utf8 = u
      /\ y.mode = x.mode /\ y.session = x.session /\ y.out = x.out /\ y.close = x.close
      /\ y.odd = x.odd /\ y.aborted = x.aborted /\ y.continuing = x.continuing
      /\ y.type = x.type /\ y.array = x.array /\ y.total = x.total
      /\ y.due = x.due /\ y.frame = x.frame
  BY DEF Typed, Fields
<1> HIDE DEF y
<1>2. Typed(y)
  BY <1>1 DEF Typed
<1>3. Active(x) => Active(y)
  BY <1>1, <1>2 DEF Active
<1>4. QED
  BY <1>1, <1>2, <1>3 DEF y

\* The rest of a chunk of text is checked; all before it is UTF-8.
LEMMA ValidateRestKept ==
  ASSUME NEW x, Active(x), NEW buf \in Seq(Octets),
         x.continuing = ~x.frame.fin, x.type = "TEXT", Gathered(x, x.due),
         Sober(x) => \E p \in Seq(Octets) : WellFormed(p) /\ x.due = p \o buf
  PROVE  Kept(ValidateRest(x, buf))
<1> DEFINE s == Scan(buf)
<1>1. /\ s.result \in {"ok", "fragment", "invalid"}
      /\ s.result = "fragment" => s.rest \in Seq(Octets) /\ CodePoint(s.rest) = Fragment
  <2>1. <<>> \in Seq(Octets)
    OBVIOUS
  <2>2. QED
    BY <2>1, EmptyWellFormed, ScanText
<1>2. Sober(x) =>
         /\ s.result = "ok" => WellFormed(x.due)
         /\ s.result = "invalid" => ~WellFormed(x.due) /\ ~Beginning(x.due)
         /\ s.result = "fragment" =>
               /\ ~WellFormed(x.due)
               /\ \E q \in Seq(Octets) : WellFormed(q) /\ x.due = q \o s.rest
  <2> SUFFICES ASSUME Sober(x)
               PROVE  /\ s.result = "ok" => WellFormed(x.due)
                      /\ s.result = "invalid" => ~WellFormed(x.due) /\ ~Beginning(x.due)
                      /\ s.result = "fragment" =>
                            /\ ~WellFormed(x.due)
                            /\ \E q \in Seq(Octets) : WellFormed(q) /\ x.due = q \o s.rest
    OBVIOUS
  <2>1. PICK p \in Seq(Octets) : WellFormed(p) /\ x.due = p \o buf
    OBVIOUS
  <2>2. QED
    BY <2>1, ScanText
<1>3. x.frame.fin \in BOOLEAN /\ Typed(x)
  BY DEF Active, Typed, Frame
<1> HIDE DEF s
<1>4. <<>> \in Seq(Octets) /\ Len(<<>>) <= MaxCodePoint
  BY DEF MaxCodePoint
<1> DEFINE y == [x EXCEPT !.utf8 = <<>>]
<1>5. /\ Active(y) /\ y.utf8 = <<>> /\ y.frame = x.frame /\ y.due = x.due
      /\ y.continuing = x.continuing /\ y.type = x.type /\ y.odd = x.odd
      /\ y.total = x.total /\ y.array = x.array
  BY <1>3, <1>4, KeepFacts
<1>6. CASE s.result = "ok"
  <2>1. ValidateRest(x, buf) = Chunked(y)
    BY <1>6 DEF ValidateRest, s
  <2> HIDE DEF y
  <2>2. Gathered(y, y.due) /\ (Sober(y) <=> Sober(x))
    BY <1>5 DEF Gathered, Sober
  <2>3. Sober(y) => WellFormed(y.due)
    BY <1>2, <1>5, <1>6, <2>2
  <2>4. Sober(y) => Begun(y, <<>>)
    <3>1. y.due \in Seq(Octets)
      BY <1>5 DEF Active, Typed
    <3>2. y.due = (y.due \o <<>>) \o <<>>
      BY <3>1, ConcatEmptySeq
    <3>3. QED
      BY <1>5, <2>3, <3>1, <3>2 DEF Begun
  <2>5. Kept(Chunked(y))
    BY <1>5, <2>2, <2>3, <2>4, UnfinishedFacts, ChunkedKept
  <2>6. QED
    BY <2>1, <2>5
<1>7. CASE s.result = "invalid"
  <2>1. ValidateRest(x, buf) = FailConn(y, "INVALID_FRAME")
    BY <1>7 DEF ValidateRest, s
  <2> HIDE DEF y
  <2>2. Sober(y) => ~WellFormed(y.due) /\ ~Beginning(y.due)
    BY <1>2, <1>5, <1>7 DEF Sober
  <2>3. QED
    BY <1>5, <2>1, <2>2, FailConnKept DEF Active, Closes
<1>8. CASE s.result = "fragment"
  <2> DEFINE z == [x EXCEPT !.utf8 = s.rest]
  <2>1. ValidateRest(x, buf) = IF x.frame.fin THEN FailConn(z, "INVALID_FRAME") ELSE RecvHdr(z)
    BY <1>8 DEF ValidateRest, s
  <2>2. s.rest \in Seq(Octets) /\ CodePoint(s.rest) = Fragment /\ Len(s.rest) <= MaxCodePoint
    BY <1>1, <1>8, UnfinishedFacts DEF MaxCodePoint
  <2>3. /\ Active(z) /\ z.utf8 = s.rest /\ z.frame = x.frame /\ z.due = x.due
        /\ z.continuing = x.continuing /\ z.type = x.type /\ z.odd = x.odd
        /\ z.total = x.total /\ z.array = x.array
    BY <1>3, <2>2, KeepFacts
  <2> HIDE DEF y, z
  <2>4. Gathered(z, z.due) /\ (Sober(z) <=> Sober(x))
    BY <2>3 DEF Gathered, Sober
  <2>5. CASE x.frame.fin
    <3>1. Sober(z) => ~WellFormed(z.due)
      BY <1>2, <1>8, <2>3, <2>4
    <3>2. Kept(FailConn(z, "INVALID_FRAME"))
      BY <2>3, <2>5, <3>1, FailConnKept DEF Active, Closes
    <3>3. QED
      BY <2>1, <2>5, <3>2
  <2>6. CASE ~x.frame.fin
    <3>1. ASSUME Sober(z) PROVE Begun(z, <<>>)
      <4>1. PICK q \in Seq(Octets) : WellFormed(q) /\ x.due = q \o s.rest
        BY <1>2, <1>8, <2>4, <3>1
      <4>2. x.due = (q \o s.rest) \o <<>>
        BY <2>2, <4>1, ConcatEmptySeq, ConcatProperties
      <4>3. QED
        BY <2>3, <4>1, <4>2 DEF Begun
    <3>2. Between(z)
      BY <2>3, <2>4, <2>6, <3>1 DEF Between
    <3>3. Kept(RecvHdr(z))
      BY <2>2, <2>3, <3>2, RecvHdrKept
    <3>4. QED
      BY <2>1, <2>6, <3>3
  <2>7. QED
    BY <1>3, <2>5, <2>6
<1>9. QED
  BY <1>1, <1>6, <1>7, <1>8

\* History is written down.
LEMMA OddFacts ==
  ASSUME NEW x, Typed(x), NEW what \in {"split", "whole", "empty", "huge"}
  PROVE  /\ Typed(Odd(x, what)) /\ (what \in {"split", "empty"} => ~Sober(Odd(x, what)))
         /\ Odd(x, what).odd = x.odd \cup {what}
         /\ Odd(x, what).utf8 = x.utf8 /\ Odd(x, what).frame = x.frame
         /\ Odd(x, what).due = x.due /\ Odd(x, what).session = x.session
         /\ Odd(x, what).aborted = x.aborted /\ Odd(x, what).close = x.close
         /\ Odd(x, what).total = x.total /\ Odd(x, what).array = x.array
         /\ Odd(x, what).continuing = x.continuing /\ Odd(x, what).type = x.type
         /\ Odd(x, what).in = x.in /\ what \in Odd(x, what).odd
         /\ Active(x) => Active(Odd(x, what))
<1> DEFINE y == Odd(x, what)
<1>1. /\ DOMAIN y = Fields /\ y.in = x.in /\ y.utf8 = x.utf8
      /\ y.mode = x.mode /\ y.session = x.session /\ y.out = x.out /\ y.close = x.close
      /\ y.odd = x.odd \cup {what} /\ y.aborted = x.aborted /\ y.continuing = x.continuing
      /\ y.type = x.type /\ y.array = x.array /\ y.total = x.total
      /\ y.due = x.due /\ y.frame = x.frame
  BY DEF Typed, Fields, Odd
<1> HIDE DEF y
<1>2. Typed(y)
  BY <1>1 DEF Typed, Oddities
<1>3. Active(x) => Active(y)
  BY <1>1, <1>2 DEF Active
<1>4. what \in {"split", "empty"} => ~Sober(y)
  BY <1>1 DEF Sober
<1>5. QED
  BY <1>1, <1>2, <1>3, <1>4 DEF y

\* A fragment of a code point, one octet more, and what comes after it.
LEMMA TriedFacts ==
  ASSUME NEW u \in Seq(Octets), u # <<>>, CodePoint(u) = Fragment,
         NEW buf \in Seq(Octets), buf # <<>>
  PROVE  /\ Append(u, Head(buf)) \in Seq(Octets) /\ Append(u, Head(buf)) # <<>>
         /\ Len(Append(u, Head(buf))) <= MaxCodePoint
         /\ CodePoint(Append(u, Head(buf))) \in {Invalid, Fragment} \cup 1..MaxCodePoint
         /\ CodePoint(Append(u, Head(buf))) > 0 => WellFormed(Append(u, Head(buf)))
         /\ Tail(buf) \in Seq(Octets) /\ (~(Len(buf) > 1) => Tail(buf) = <<>>)
         /\ \A p \in Seq(Octets) :
               (p \o u) \o buf = (p \o Append(u, Head(buf))) \o Tail(buf)
<1> DEFINE o == Head(buf)
           tried == Append(u, o)
           t == Tail(buf)
<1>1. o \in Octets /\ t \in Seq(Octets) /\ buf = <<o>> \o t /\ (~(Len(buf) > 1) => t = <<>>)
  <2>1. Len(buf) \in Nat /\ Len(buf) # 0
    OBVIOUS
  <2>2. o \in Octets /\ t \in Seq(Octets) /\ Len(t) = Len(buf) - 1
        /\ (\A i \in 1..Len(t) : t[i] = buf[i + 1]) /\ o = buf[1]
    BY HeadTailProperties
  <2> HIDE DEF t, o
  <2>3. ~(Len(buf) > 1) => t = <<>>
    BY <2>1, <2>2
  <2>4. buf = <<o>> \o t
    <3>1. <<o>> \o t \in Seq(Octets) /\ Len(<<o>> \o t) = Len(buf) /\ <<o>> \in Seq(Octets)
      BY <2>1, <2>2
    <3>2. ASSUME NEW i \in 1..Len(buf) PROVE buf[i] = (<<o>> \o t)[i]
      BY <2>1, <2>2
    <3>3. QED
      BY <3>1, <3>2, SeqEqual
  <2>5. QED
    BY <2>2, <2>3, <2>4
<1> HIDE DEF o, t
<1>2. /\ tried \in Seq(Octets) /\ tried # <<>> /\ Len(tried) = Len(u) + 1
      /\ tried = u \o <<o>> /\ tried[1] = u[1] /\ Len(u) \in Nat /\ Len(u) # 0
  BY <1>1, AppendProperties, AppendIsConcat
<1> HIDE DEF tried
<1>3. Len(u) < MaxCodePoint /\ Lead[u[1]] > Len(u)
  BY UnfinishedFacts, CodePointFacts
<1>4. Len(tried) <= MaxCodePoint
  BY <1>2, <1>3 DEF MaxCodePoint
<1>5. CodePoint(tried) > 0 => WellFormed(tried)
  <2>1. SUFFICES ASSUME CodePoint(tried) > 0 PROVE WellFormed(tried)
    OBVIOUS
  <2>2. CodePoint(tried) = Lead[u[1]] /\ CodePoint(tried) \in 1..Len(tried)
    BY <1>2, <2>1, CodePointFacts
  <2>3. CodePoint(tried) = Len(tried)
    BY <1>2, <1>3, <2>2
  <2>4. SubSeq(tried, 1, Len(tried)) = tried
    BY <1>2, SubSeqFull
  <2>5. QED
    BY <1>2, <2>1, <2>3, <2>4, WholeWellFormed
<1>6. ASSUME NEW p \in Seq(Octets)
      PROVE  (p \o u) \o buf = (p \o tried) \o t
  <2>1. <<o>> \in Seq(Octets)
    BY <1>1
  <2>2. p \o u \in Seq(Octets)
    BY ConcatProperties
  <2>3. (p \o u) \o (<<o>> \o t) = ((p \o u) \o <<o>>) \o t
    <3>1. t \in Seq(Octets)
      BY <1>1
    <3>2. QED
      BY <2>1, <2>2, <3>1, ConcatAssociative
  <2>4. (p \o u) \o <<o>> = p \o (u \o <<o>>)
    BY <2>1, ConcatAssociative
  <2>5. QED
    BY <1>1, <1>2, <2>3, <2>4
<1>7. CodePoint(tried) \in {Invalid, Fragment} \cup 1..MaxCodePoint
  BY <1>2, CodePointFacts
<1>8. QED
  BY <1>1, <1>2, <1>4, <1>5, <1>6, <1>7 DEF tried, o, t

\* A chunk of text is checked.
LEMMA ValidateUtf8Kept ==
  ASSUME NEW x, Active(x), x.in = "RECV_PAYLOAD", CodePoint(x.utf8) = Fragment,
         InData(x, x.frame.payload), x.type = "TEXT", x.frame.payload # <<>>,
         Gathered(x, x.due)
  PROVE  Kept(ValidateUtf8(x))
<1> DEFINE buf == x.frame.payload
           u == x.utf8
           tried == Append(u, Head(buf))
<1>1. /\ Typed(x) /\ buf \in Seq(Octets) /\ u \in Seq(Octets) /\ x.frame.fin \in BOOLEAN
      /\ x.due \in Seq(Octets)
  BY DEF Active, Typed, Frame
<1>2. x.continuing = ~x.frame.fin /\ (Sober(x) => Begun(x, buf))
  BY DEF InData
<1>3. CASE u = <<>>
  <2>1. ValidateUtf8(x) = ValidateRest(x, buf)
    <3>1. ~(Len(<<>>) >= MaxCodePoint)
      BY DEF MaxCodePoint
    <3>2. QED
      BY <1>3, <3>1 DEF ValidateUtf8
  <2>2. ASSUME Sober(x) PROVE \E p \in Seq(Octets) : WellFormed(p) /\ x.due = p \o buf
    <3>1. PICK p \in Seq(Octets) : WellFormed(p) /\ x.due = (p \o u) \o buf
      BY <1>2, <2>2 DEF Begun
    <3>2. p \o u = p
      BY <1>3, ConcatEmptySeq
    <3>3. QED
      BY <3>1, <3>2
  <2> HIDE DEF buf
  <2>3. Kept(ValidateRest(x, buf))
    BY <1>1, <1>2, <2>2, ValidateRestKept
  <2>4. QED
    BY <2>1, <2>3
<1>4. CASE u # <<>>
  <2>1. /\ tried \in Seq(Octets) /\ tried # <<>> /\ Len(tried) <= MaxCodePoint
        /\ CodePoint(tried) \in {Invalid, Fragment} \cup 1..MaxCodePoint
        /\ CodePoint(tried) > 0 => WellFormed(tried)
        /\ Tail(buf) \in Seq(Octets) /\ (~(Len(buf) > 1) => Tail(buf) = <<>>)
        /\ \A p \in Seq(Octets) : (p \o u) \o buf = (p \o tried) \o Tail(buf)
    BY <1>1, <1>4, TriedFacts
  <2> HIDE DEF buf, u, tried
  <2>2. ASSUME Sober(x)
        PROVE  \E p \in Seq(Octets) : WellFormed(p) /\ x.due = (p \o tried) \o Tail(buf)
    BY <1>2, <2>1, <2>2 DEF Begun, u
  <2> DEFINE y == [x EXCEPT !.utf8 = tried]
  <2>0. Len(u) < MaxCodePoint
    BY <1>1, UnfinishedFacts DEF u
  <2>3. /\ Active(y) /\ y.utf8 = tried /\ y.frame = x.frame /\ y.due = x.due /\ y.in = x.in
        /\ y.continuing = x.continuing /\ y.type = x.type /\ y.odd = x.odd
        /\ y.total = x.total /\ y.array = x.array
    BY <1>1, <2>1, KeepFacts
  <2>4. /\ CodePoint(tried) = Invalid => ValidateUtf8(x) = FailConn(y, "INVALID_FRAME")
        /\ CodePoint(tried) = Fragment =>
              LET z == IF Len(buf) > 1 THEN Odd(y, "split") ELSE y
              IN ValidateUtf8(x) = IF x.frame.fin THEN FailConn(z, "INVALID_FRAME") ELSE RecvHdr(z)
        /\ CodePoint(tried) > 0 =>
              ValidateUtf8(x) = IF Len(tried) = MaxCodePoint THEN Abort(Odd(y, "whole"))
                                ELSE ValidateRest(y, Tail(buf))
    BY <1>4, <2>0, <2>1 DEF ValidateUtf8, buf, u, tried, Invalid, Fragment
  <2> HIDE DEF y
  <2>5. Gathered(y, y.due) /\ (Sober(y) <=> Sober(x))
    BY <2>3 DEF Gathered, Sober
  <2>6. CASE CodePoint(tried) = Invalid
    <3>1. Sober(y) => ~WellFormed(y.due) /\ ~Beginning(y.due)
      BY <2>1, <2>2, <2>3, <2>5, <2>6, RefuteAll
    <3>2. Kept(FailConn(y, "INVALID_FRAME"))
      BY <2>3, <3>1, FailConnKept DEF Active, Closes
    <3>3. QED
      BY <2>4, <2>6, <3>2
  <2>7. CASE CodePoint(tried) = Fragment
    <3> DEFINE z == IF Len(buf) > 1 THEN Odd(y, "split") ELSE y
    <3>1. ValidateUtf8(x) = IF x.frame.fin THEN FailConn(z, "INVALID_FRAME") ELSE RecvHdr(z)
      BY <2>4, <2>7
    <3>2. /\ Active(z) /\ z.utf8 = tried /\ z.frame = x.frame /\ z.due = x.due
          /\ z.continuing = x.continuing /\ z.type = x.type
          /\ z.total = x.total /\ z.array = x.array /\ x.odd \subseteq z.odd
          /\ Sober(z) => Sober(x) /\ ~(Len(buf) > 1)
      BY <2>3, <2>5, OddFacts DEF Active
    <3> HIDE DEF z
    <3>3. ASSUME Sober(z)
          PROVE  \E p \in Seq(Octets) : WellFormed(p) /\ x.due = p \o tried
      <4>1. PICK p \in Seq(Octets) : WellFormed(p) /\ x.due = (p \o tried) \o Tail(buf)
        BY <2>2, <3>2, <3>3
      <4>2. Tail(buf) = <<>> /\ p \o tried \in Seq(Octets)
        BY <2>1, <3>2, <3>3, ConcatProperties
      <4>3. x.due = p \o tried
        BY <4>1, <4>2, ConcatEmptySeq
      <4>4. QED
        BY <4>1, <4>3
    <3>4. CASE x.frame.fin
      <4>1. Sober(z) => ~WellFormed(z.due)
        BY <2>1, <2>7, <3>2, <3>3, Refute
      <4>2. Kept(FailConn(z, "INVALID_FRAME"))
        BY <3>2, <3>4, <4>1, FailConnKept DEF Active, Closes
      <4>3. QED
        BY <3>1, <3>4, <4>2
    <3>5. CASE ~x.frame.fin
      <4>1. ASSUME Sober(z) PROVE Begun(z, <<>>)
        <5>1. PICK p \in Seq(Octets) : WellFormed(p) /\ x.due = p \o tried
          BY <3>3, <4>1
        <5>2. x.due = (p \o tried) \o <<>>
          BY <1>1, <5>1, ConcatEmptySeq
        <5>3. QED
          BY <3>2, <5>1, <5>2 DEF Begun
      <4>2. Gathered(z, z.due)
        BY <3>2 DEF Gathered
      <4>3. Between(z)
        BY <1>2, <3>2, <3>5, <4>1, <4>2 DEF Between
      <4>4. Kept(RecvHdr(z))
        BY <2>7, <3>2, <4>3, RecvHdrKept
      <4>5. QED
        BY <3>1, <3>5, <4>4
    <3>6. QED
      BY <1>1, <3>4, <3>5
  <2>8. CASE CodePoint(tried) > 0
    <3>1. CASE Len(tried) = MaxCodePoint
      <4> DEFINE z == Odd(y, "whole")
                 w == Abort(z)
      <4>1. Active(z) /\ z.in = x.in /\ "whole" \in z.odd
        BY <2>3, OddFacts DEF Active
      <4> HIDE DEF z
      <4>2. /\ DOMAIN w = Fields /\ w.in = z.in /\ w.utf8 = z.utf8
            /\ w.mode = z.mode /\ w.session = z.session /\ w.out = z.out /\ w.close = z.close
            /\ w.odd = z.odd /\ w.aborted = TRUE /\ w.continuing = z.continuing
            /\ w.type = z.type /\ w.array = z.array /\ w.total = z.total
            /\ w.due = z.due /\ w.frame = z.frame
        BY <4>1 DEF Active, Typed, Fields, Abort
      <4> HIDE DEF w
      <4>3. Typed(w)
        BY <4>1, <4>2 DEF Active, Typed
      <4>4. Kept(w)
        BY <4>1, <4>2, <4>3 DEF Kept, Active, Refuted, Reading, Known
      <4>5. QED
        BY <2>4, <2>8, <3>1, <4>4 DEF w, z
    <3>2. CASE Len(tried) # MaxCodePoint
      <4>1. ASSUME Sober(y)
            PROVE  \E p \in Seq(Octets) : WellFormed(p) /\ y.due = p \o Tail(buf)
        <5>1. PICK p \in Seq(Octets) : WellFormed(p) /\ x.due = (p \o tried) \o Tail(buf)
          BY <2>2, <2>5, <4>1
        <5>2. p \o tried \in Seq(Octets) /\ WellFormed(p \o tried)
          BY <2>1, <2>8, <5>1, ConcatProperties, WellFormedConcat
        <5>3. QED
          BY <2>3, <5>1, <5>2
      <4>2. Kept(ValidateRest(y, Tail(buf)))
        BY <1>2, <2>1, <2>3, <2>5, <4>1, ValidateRestKept
      <4>3. QED
        BY <2>4, <2>8, <3>2, <4>2
    <3>3. QED
      BY <3>1, <3>2
  <2>9. QED
    BY <2>1, <2>6, <2>7, <2>8
<1>5. QED
  BY <1>3, <1>4

\* A frame without a payload.
LEMMA EmptyKept ==
  ASSUME NEW x, Active(x), Framed(x), CodePoint(x.utf8) = Fragment, IsEmpty(x.frame)
  PROVE  Kept(Empty(x))
<1>1. /\ Typed(x) /\ x.frame.fin \in BOOLEAN /\ x.utf8 \in Seq(Octets) /\ x.due \in Seq(Octets)
      /\ x.frame.payload = <<>> /\ ("cut" \notin x.odd => Said(x.frame) = <<>>)
  <2>1. x.frame \in Frames /\ (x.frame.excess = Word => "cut" \in x.odd)
    BY DEF Framed
  <2>2. /\ Typed(x) /\ x.frame.fin \in BOOLEAN /\ x.utf8 \in Seq(Octets)
        /\ x.due \in Seq(Octets) /\ x.frame.payload \in Seq(Octets)
    BY DEF Active, Typed, Frame
  <2>3. Length(x.frame) = 0 /\ Memory \in Nat
    BY WordAssumption DEF IsEmpty
  <2>4. Len(x.frame.payload) = 0 /\ (x.frame.excess # Word => x.frame.excess = 0)
    BY <2>1, <2>3, LengthFacts
  <2>5. x.frame.payload = <<>>
    BY <2>2, <2>4
  <2>6. QED
    BY <2>1, <2>2, <2>4, <2>5, SaidFacts
<1>2. x.frame.opcode \in Data \cup {"PING", "PONG", "CLOSE"}
  BY DEF Framed
<1>3. CASE x.frame.opcode \in Data
  <2>1. InData(x, <<>>) /\ Gathered(x, x.due)
    <3>1. PICK q \in Seq(Octets) : Gathered(x, q) /\ x.due = q \o Said(x.frame)
      BY <1>3 DEF Framed
    <3>2. "cut" \notin x.odd => x.due = q
      BY <1>1, <3>1, ConcatEmptySeq
    <3>3. InData(x, Said(x.frame))
      BY <1>3 DEF Framed
    <3>4. InData(x, <<>>)
      BY <1>1, <3>3 DEF InData, Sober
    <3>5. QED
      BY <3>1, <3>2, <3>4 DEF Gathered
  <2>2. x.continuing = ~x.frame.fin /\ x.type \in {"TEXT", "BINARY"}
    BY <2>1 DEF InData
  <2>3. CASE x.frame.fin /\ x.type = "TEXT" /\ x.utf8 # <<>>
    <3> DEFINE y == Odd(x, "empty")
               z == Odd(Chunked(x), "empty")
    <3>1. Empty(x) = z
      BY <1>3, <2>3 DEF Empty, Data
    <3>2. z = [y EXCEPT !.in = "RECVD_CHUNKED"]
      BY <1>1, <2>3 DEF Odd, Chunked, Typed, Fields
    <3>3. /\ Active(y) /\ ~Sober(y) /\ y.frame = x.frame /\ y.continuing = x.continuing
          /\ y.type = x.type /\ y.total = x.total /\ y.array = x.array /\ y.due = x.due
          /\ y.utf8 = x.utf8
      BY <1>1, OddFacts
    <3> HIDE DEF y, z
    <3>4. Whole(y)
      <4>1. y.odd = x.odd \cup {"empty"}
        BY <1>1, OddFacts DEF y
      <4>2. QED
        BY <2>1, <2>2, <2>3, <3>3, <4>1 DEF Whole, Gathered
    <3>5. Kept(z)
      BY <3>2, <3>3, <3>4, WaitsKept DEF Reading
    <3>6. QED
      BY <3>1, <3>5
  <2>4. CASE ~(x.frame.fin /\ x.type = "TEXT" /\ x.utf8 # <<>>)
    <3>1. Empty(x) = Chunked(x)
      BY <1>3, <2>4 DEF Empty, Data
    <3>2. ASSUME Sober(x)
          PROVE  IF x.type = "TEXT" THEN Begun(x, <<>>) ELSE x.utf8 = <<>>
      BY <1>1, <2>1, <3>2 DEF InData
    <3>3. ASSUME Sober(x), x.frame.fin
          PROVE  x.utf8 = <<>> /\ (x.type = "TEXT" => WellFormed(x.due))
      <4>1. x.utf8 = <<>>
        BY <2>2, <2>4, <3>2, <3>3
      <4>2. ASSUME x.type = "TEXT" PROVE WellFormed(x.due)
        <5>1. PICK p \in Seq(Octets) : WellFormed(p) /\ x.due = (p \o x.utf8) \o <<>>
          BY <3>2, <3>3, <4>2 DEF Begun
        <5>2. p \o <<>> = p
          BY ConcatEmptySeq
        <5>3. QED
          BY <4>1, <5>1, <5>2
      <4>3. QED
        BY <4>1, <4>2
    <3>4. Kept(Chunked(x))
      BY <2>1, <2>2, <3>2, <3>3, ChunkedKept
    <3>5. QED
      BY <3>1, <3>4
  <2>5. QED
    BY <2>3, <2>4
<1>4. CASE x.frame.opcode \in {"PING", "PONG"}
  <2>1. Empty(x) = [x EXCEPT !.in = "RECVD_CONTROL"]
    BY <1>4 DEF Empty, Data
  <2>2. Ready(x)
    BY <1>4 DEF Framed, Data
  <2>3. QED
    BY <2>1, <2>2, WaitsKept DEF Reading
<1>5. CASE x.frame.opcode = "CLOSE"
  <2>1. Empty(x) = AcknowledgeClose(x)
    BY <1>5 DEF Empty, Data
  <2>2. QED
    BY <2>1, AcknowledgeCloseKept
<1>6. QED
  BY <1>2, <1>3, <1>4, <1>5

\* A frame with a payload: there must be room for it.
LEMMA AnnounceKept ==
  ASSUME NEW x, Active(x), Framed(x), CodePoint(x.utf8) = Fragment, ~IsEmpty(x.frame),
         x.in \in {"RECV_HDR", "RECV_HDREXT"}
  PROVE  Kept(Announce(x))
<1> DEFINE p == x.frame.payload
           l == Length(x.frame)
           n == Cast(x.total + l)
<1>1. /\ Typed(x) /\ p \in Seq(Octets) /\ x.total \in Nat /\ Len(p) \in Nat
      /\ x.array \in Seq(Seq(Octets)) /\ Limit \in Nat /\ x.total <= Limit
  BY BoundsAssumption DEF Active, Typed, Frame
<1>2. /\ x.frame \in Frames /\ (x.frame.excess = Word => "cut" \in x.odd)
      /\ l \in Nat /\ Memory \in Nat /\ Word \in Nat /\ Limit + Memory < Word
      /\ l <= Memory => l = Len(p) /\ (x.frame.excess # Word => x.frame.excess = 0)
  BY WordAssumption, LengthFacts DEF Framed
<1>3. n \in Nat /\ (l <= Memory => n = x.total + Len(p))
  <2> HIDE DEF l
  <2>1. QED
    BY <1>1, <1>2 DEF Cast
<1>4. CASE x.frame.opcode \notin Data
  <2>1. Announce(x) = [x EXCEPT !.in = "RECV_PAYLOAD"]
    BY <1>4 DEF Announce
  <2>2. PayloadIn(x)
    BY <1>4 DEF Framed, PayloadIn
  <2>3. QED
    BY <2>1, <2>2, WaitsKept DEF Reading
<1>5. CASE x.frame.opcode \in Data
  <2> DEFINE z == [x EXCEPT !.total = n]
             h == Abort(Odd(x, "huge"))
             y == [x EXCEPT !.total = n, !.array = Append(@, p)]
             w == [x EXCEPT !.total = n, !.array = Append(@, p), !.in = "RECV_PAYLOAD"]
  <2>1. /\ n > Limit => Announce(x) = FailConn(z, "TOOBIG")
        /\ n <= Limit /\ l > Memory => Announce(x) = h
        /\ n <= Limit /\ l <= Memory => Announce(x) = w
    <3> DEFINE f == x.frame
    <3>1. /\ Announce(x) =
                CASE f.opcode \notin Data -> [x EXCEPT !.in = "RECV_PAYLOAD"]
                  [] f.opcode \in Data /\ n > Limit -> FailConn(z, "TOOBIG")
                  [] f.opcode \in Data /\ n <= Limit /\ l > Memory -> h
                  [] f.opcode \in Data /\ n <= Limit /\ l <= Memory -> w
      BY Zenon DEF Announce
    <3> HIDE DEF z, h, w, n, l
    <3>2. QED
      BY <1>1, <1>2, <1>3, <1>5, <3>1
  <2>2. w = [y EXCEPT !.in = "RECV_PAYLOAD"]
    BY <1>1 DEF Typed, Fields
  <2> HIDE DEF n, l, w
  <2>3. CASE n > Limit
    <3>1. /\ DOMAIN z = Fields /\ z.in = x.in /\ z.utf8 = x.utf8
          /\ z.mode = x.mode /\ z.session = x.session /\ z.out = x.out /\ z.close = x.close
          /\ z.odd = x.odd /\ z.aborted = x.aborted /\ z.continuing = x.continuing
          /\ z.type = x.type /\ z.array = x.array /\ z.total = n
          /\ z.due = x.due /\ z.frame = x.frame
      BY <1>1 DEF Typed, Fields
    <3> HIDE DEF z
    <3>2. Typed(z) /\ ~z.aborted
      BY <1>3, <3>1 DEF Active, Typed
    <3>3. QED
      BY <2>1, <2>3, <3>2, FailConnKept DEF Closes
  <2>4. CASE n <= Limit /\ l > Memory
    <3> DEFINE o == Odd(x, "huge")
    <3>1. Active(o) /\ o.in = x.in /\ "huge" \in o.odd
      BY <1>1, OddFacts
    <3> HIDE DEF o
    <3>2. /\ DOMAIN h = Fields /\ h.in = o.in /\ h.utf8 = o.utf8
          /\ h.mode = o.mode /\ h.session = o.session /\ h.out = o.out /\ h.close = o.close
          /\ h.odd = o.odd /\ h.aborted = TRUE /\ h.continuing = o.continuing
          /\ h.type = o.type /\ h.array = o.array /\ h.total = o.total
          /\ h.due = o.due /\ h.frame = o.frame
      BY <3>1 DEF Active, Typed, Fields, Abort, o
    <3> HIDE DEF h
    <3>3. Typed(h)
      BY <3>1, <3>2 DEF Active, Typed
    <3>4. Kept(h)
      BY <3>1, <3>2, <3>3 DEF Kept, Active, Refuted, Reading, Known
    <3>5. QED
      BY <2>1, <2>4, <3>4
  <2>5. CASE n <= Limit /\ l <= Memory
    <3>1. /\ DOMAIN y = Fields /\ y.in = x.in /\ y.utf8 = x.utf8
          /\ y.mode = x.mode /\ y.session = x.session /\ y.out = x.out /\ y.close = x.close
          /\ y.odd = x.odd /\ y.aborted = x.aborted /\ y.continuing = x.continuing
          /\ y.type = x.type /\ y.array = Append(x.array, p) /\ y.total = n
          /\ y.due = x.due /\ y.frame = x.frame
      BY <1>1 DEF Typed, Fields
    <3> HIDE DEF y
    <3>2. Append(x.array, p) \in Seq(Seq(Octets))
      BY <1>1, AppendProperties
    <3>3. Active(y)
      BY <1>3, <2>5, <3>1, <3>2 DEF Active, Typed
    <3>4. "cut" \notin x.odd => Said(x.frame) = p
      BY <1>2, <2>5, SaidFacts
    <3>5. PICK q \in Seq(Octets) : Gathered(x, q) /\ x.due = q \o Said(x.frame)
      BY <1>5 DEF Framed
    <3>6. FlattenSeq(y.array) = FlattenSeq(x.array) \o p /\ FlattenSeq(x.array) \in Seq(Octets)
      <4>1. FlattenSeq(Append(x.array, p)) = FlattenSeq(x.array) \o p
        BY <1>1, FlattenFacts
      <4>2. FlattenSeq(x.array) \in Seq(Octets)
        BY <1>1, FlattenFacts
      <4>3. QED
        BY <3>1, <4>1, <4>2
    <3>7. y.total = Len(FlattenSeq(y.array))
      BY <1>1, <1>3, <2>5, <3>1, <3>5, <3>6, ConcatProperties DEF Gathered
    <3>8. Gathered(y, y.due)
      BY <3>1, <3>4, <3>5, <3>6, <3>7 DEF Gathered
    <3>9. InData(y, p)
      <4>1. InData(x, Said(x.frame))
        BY <1>5 DEF Framed
      <4>2. QED
        BY <3>1, <3>4, <4>1 DEF InData, Sober, Begun
    <3>10. p # <<>>
      <4>1. x.frame.code = "none"
        BY <3>9, <3>1 DEF InData
      <4>2. Len(p) # 0
        BY <1>2, <2>5, <4>1 DEF IsEmpty, l
      <4>3. QED
        BY <4>2
    <3>11. PayloadIn(y)
      BY <1>5, <3>1, <3>8, <3>9, <3>10 DEF PayloadIn
    <3>12. Kept([y EXCEPT !.in = "RECV_PAYLOAD"])
      BY <3>1, <3>3, <3>11, WaitsKept DEF Reading
    <3>13. QED
      BY <2>1, <2>2, <2>5, <3>12
  <2>6. QED
    BY <1>1, <1>2, <1>3, <2>3, <2>4, <2>5 DEF l
<1>6. QED
  BY <1>4, <1>5

-----------------------------------------------------------------------------
(* Frames.                                                                  *)

\* What a peer may send.
LEMMA FrameFacts ==
  ASSUME NEW masked \in BOOLEAN
  PROVE  AnyFrame(masked) \subseteq Frames
<1>1. /\ "a" \in Octets /\ "c" \in Octets /\ "L2" \in Octets
      /\ <<>> \in Seq(Octets) /\ <<"a">> \in Seq(Octets) /\ <<"c">> \in Seq(Octets)
      /\ <<"L2">> \in Seq(Octets)
  BY DEF Octets, Lead
<1>2. /\ Memory \in Nat /\ Memory # 0 /\ Word \in Nat /\ MaxChunk \in Nat /\ Limit \in Nat
      /\ MaxChunk <= Memory /\ Limit + Memory < Word /\ Excess \subseteq Memory + 1 .. Word
  BY WordAssumption, BoundsAssumption
<1>3. \A p \in {<<>>, <<"a">>, <<"c">>, <<"L2">>} : p \in Seq(Octets) /\ Len(p) < Word
  <2>1. Len(<<>>) = 0 /\ Len(<<"a">>) = 1 /\ Len(<<"c">>) = 1 /\ Len(<<"L2">>) = 1
    OBVIOUS
  <2>2. 0 < Word /\ 1 < Word
    BY <1>2
  <2> TAKE p \in {<<>>, <<"a">>, <<"c">>, <<"L2">>}
  <2>3. Len(p) = 0 \/ Len(p) = 1
    BY <2>1
  <2>4. p \in Seq(Octets)
    BY <1>1
  <2>5. QED
    BY <2>2, <2>3, <2>4
<1>4. \A p \in Payload : p \in Seq(Octets) /\ Len(p) < Word
  <2> TAKE p \in Payload
  <2>1. p \in Seq(Octet) /\ Len(p) <= MaxChunk
    BY <1>2 DEF Payload, SeqOf
  <2>2. QED
    BY <1>2, <2>1, OctetAssumption, SeqMonotonic DEF Octets
<1>5. ASSUME NEW f \in AnyFrame(masked)
      PROVE  /\ f \in Frame /\ f.opcode # "NONE" /\ (f.opcode \in Data => f.code = "none")
             /\ Len(f.payload) < Word
             /\ f.excess > 0 => f.excess > Memory
             /\ f.excess \in 1 .. Word - 1 => f.payload = <<>>
  <2>0. /\ 0 \in 0 .. Word /\ Excess \subseteq 0 .. Word
        /\ \A e \in Excess : e > Memory /\ (e = Word => e \notin 1 .. Word - 1)
        /\ 0 \notin 1 .. Word - 1 /\ ~(0 > 0)
    BY <1>2
  <2>1. CASE f \in FramesOf(Data, BOOLEAN, masked, {"none"}, Payload, {0})
    <3>1. f \in [fin : BOOLEAN, opcode : Data, rsv : {FALSE}, masked : {masked},
                    long : {FALSE}, code : {"none"}, payload : Payload, excess : {0}]
      BY <2>1 DEF FramesOf
    <3>2. /\ f.payload \in Payload /\ f.excess = 0 /\ f.code = "none" /\ f.opcode \in Data
      BY <3>1
    <3>3. f.payload \in Seq(Octets) /\ Len(f.payload) < Word /\ f.excess \in 0 .. Word
      <4>1. f.payload \in Seq(Octets) /\ Len(f.payload) < Word
        BY <1>4, <3>2
      <4>2. f.excess \in 0 .. Word
        BY <2>0, <3>2
      <4>3. QED
        BY <4>1, <4>2
    <3>4. f \in Frame
      BY <3>1, <3>3 DEF Frame, Data, Code
    <3>5. QED
      BY <2>0, <3>2, <3>3, <3>4 DEF Data
  <2>2. CASE f \in FramesOf(Data, BOOLEAN, masked, {"none"}, {<<>>}, Excess)
    <3>1. f \in [fin : BOOLEAN, opcode : Data, rsv : {FALSE}, masked : {masked},
                    long : {FALSE}, code : {"none"}, payload : {<<>>}, excess : Excess]
      BY <2>2 DEF FramesOf
    <3>2. /\ f.payload = <<>> /\ f.excess \in Excess /\ f.code = "none" /\ f.opcode \in Data
      BY <3>1
    <3>3. f.payload \in Seq(Octets) /\ Len(f.payload) < Word /\ f.excess \in 0 .. Word
      <4>1. f.payload \in Seq(Octets) /\ Len(f.payload) < Word
        BY <1>3, <3>2
      <4>2. f.excess \in 0 .. Word
        BY <2>0, <3>2
      <4>3. QED
        BY <4>1, <4>2
    <3>4. f \in Frame
      BY <3>1, <3>3 DEF Frame, Data, Code
    <3>5. QED
      BY <2>0, <3>2, <3>3, <3>4 DEF Data
  <2>3. CASE f \in FramesOf(Data, BOOLEAN, masked, {"none"}, {<<"c">>}, Excess \cap {Word})
    <3>1. f \in [fin : BOOLEAN, opcode : Data, rsv : {FALSE}, masked : {masked},
                    long : {FALSE}, code : {"none"}, payload : {<<"c">>},
                    excess : Excess \cap {Word}]
      BY <2>3 DEF FramesOf
    <3>2. /\ f.payload = <<"c">> /\ f.excess \in Excess /\ f.excess = Word /\ f.code = "none"
          /\ f.opcode \in Data
      BY <3>1
    <3>3. f.payload \in Seq(Octets) /\ Len(f.payload) < Word /\ f.excess \in 0 .. Word
      <4>1. f.payload \in Seq(Octets) /\ Len(f.payload) < Word
        BY <1>3, <3>2
      <4>2. f.excess \in 0 .. Word
        BY <2>0, <3>2
      <4>3. QED
        BY <4>1, <4>2
    <3>4. f \in Frame
      BY <3>1, <3>3 DEF Frame, Data, Code
    <3>5. QED
      BY <2>0, <3>2, <3>3, <3>4 DEF Data
  <2>4. CASE f \in FramesOf({"PING", "PONG"}, {TRUE}, masked, {"none"}, {<<>>, <<"a">>}, {0})
    <3>1. f \in [fin : {TRUE}, opcode : {"PING", "PONG"}, rsv : {FALSE}, masked : {masked},
                    long : {FALSE}, code : {"none"}, payload : {<<>>, <<"a">>}, excess : {0}]
      BY <2>4 DEF FramesOf
    <3>2. /\ f.payload \in {<<>>, <<"a">>} /\ f.excess = 0 /\ f.opcode \in {"PING", "PONG"}
      BY <3>1
    <3>3. f.payload \in Seq(Octets) /\ Len(f.payload) < Word /\ f.excess \in 0 .. Word
      <4>1. f.payload \in Seq(Octets) /\ Len(f.payload) < Word
        BY <1>3, <3>2
      <4>2. f.excess \in 0 .. Word
        BY <2>0, <3>2
      <4>3. QED
        BY <4>1, <4>2
    <3>4. f \in Frame
      BY <3>1, <3>3 DEF Frame, Data, Code
    <3>5. QED
      BY <2>0, <3>2, <3>3, <3>4 DEF Data
  <2>5. CASE f \in FramesOf({"CLOSE"}, {TRUE}, masked, Code \ {"none"},
                            {<<>>, <<"a">>, <<"c">>, <<"L2">>}, {0})
    <3>1. f \in [fin : {TRUE}, opcode : {"CLOSE"}, rsv : {FALSE}, masked : {masked},
                    long : {FALSE}, code : Code \ {"none"},
                    payload : {<<>>, <<"a">>, <<"c">>, <<"L2">>}, excess : {0}]
      BY <2>5 DEF FramesOf
    <3>2. /\ f.payload \in {<<>>, <<"a">>, <<"c">>, <<"L2">>} /\ f.excess = 0 /\ f.opcode = "CLOSE"
      BY <3>1
    <3>3. f.payload \in Seq(Octets) /\ Len(f.payload) < Word /\ f.excess \in 0 .. Word
      <4>1. f.payload \in Seq(Octets) /\ Len(f.payload) < Word
        BY <1>3, <3>2
      <4>2. f.excess \in 0 .. Word
        BY <2>0, <3>2
      <4>3. QED
        BY <4>1, <4>2
    <3>4. f \in Frame
      BY <3>1, <3>3 DEF Frame, Data, Code
    <3>5. QED
      BY <2>0, <3>2, <3>3, <3>4 DEF Data
  <2>6. CASE f \in [fin : BOOLEAN, opcode : Data \cup {"PING", "PONG", "CLOSE", "other"},
                    rsv : BOOLEAN, masked : BOOLEAN, long : {FALSE}, code : {"none"},
                    payload : {<<>>}, excess : {0}]
    <3>1. /\ f.payload = <<>> /\ f.excess = 0 /\ f.code = "none"
          /\ f.opcode \in Data \cup {"PING", "PONG", "CLOSE", "other"}
      BY <2>6 DEF Data
    <3>2. f.payload \in Seq(Octets) /\ Len(f.payload) < Word /\ f.excess \in 0 .. Word
      <4>1. f.payload \in Seq(Octets) /\ Len(f.payload) < Word
        BY <1>3, <3>1
      <4>2. f.excess \in 0 .. Word
        BY <2>0, <3>1
      <4>3. QED
        BY <4>1, <4>2
    <3>3. f \in Frame
      BY <2>6, <3>2 DEF Frame, Data, Code
    <3>4. QED
      BY <2>0, <3>1, <3>2, <3>3 DEF Data
  <2>7. CASE f \in [fin : {TRUE}, opcode : {"PING", "PONG", "CLOSE"}, rsv : {FALSE},
                    masked : {masked}, long : {TRUE}, code : {"none"}, payload : {<<>>},
                    excess : {0}]
    <3>1. /\ f.payload = <<>> /\ f.excess = 0 /\ f.code = "none"
          /\ f.opcode \in Data \cup {"PING", "PONG", "CLOSE", "other"}
      BY <2>7 DEF Data
    <3>2. f.payload \in Seq(Octets) /\ Len(f.payload) < Word /\ f.excess \in 0 .. Word
      <4>1. f.payload \in Seq(Octets) /\ Len(f.payload) < Word
        BY <1>3, <3>1
      <4>2. f.excess \in 0 .. Word
        BY <2>0, <3>1
      <4>3. QED
        BY <4>1, <4>2
    <3>3. f \in Frame
      BY <2>7, <3>2 DEF Frame, Data, Code
    <3>4. QED
      BY <2>0, <3>1, <3>2, <3>3 DEF Data
  <2>8. QED
    BY <1>5, <2>1, <2>2, <2>3, <2>4, <2>5, <2>6, <2>7 DEF AnyFrame
<1>6. QED
  BY <1>5 DEF Frames

\* What a socket of the library may send: a message that can be allocated or is too
\* long for the receiver.
LEMMA SentFacts ==
  ASSUME NEW mode \in {"client", "server"}, NEW f \in SentFrame(mode)
  PROVE  /\ f \in Frames /\ f.fin /\ f.masked = (mode = "client") /\ f.excess = 0
         /\ f.opcode \in Data => Len(f.payload) <= Memory \/ Len(f.payload) = Limit + 1
<1>1. PICK masked \in BOOLEAN : masked = (mode = "client")
  OBVIOUS
<1>2. /\ Memory \in Nat /\ Memory # 0 /\ Word \in Nat /\ MaxChunk \in Nat /\ Limit \in Nat
      /\ MaxChunk <= Memory /\ Limit + Memory < Word /\ Excess \subseteq Memory + 1 .. Word
  BY WordAssumption, BoundsAssumption
<1>3. CASE f \in AnyFrame(masked) /\ f.fin /\ f.masked = masked /\ f.excess = 0
  <2>1. f \in Frames
    BY <1>3, FrameFacts
  <2>2. f.payload \in Payload \cup {<<>>} \/ f.opcode \notin Data \/ f.excess # 0
    <3>1. f \in FramesOf(Data, BOOLEAN, masked, {"none"}, Payload, {0}) => f.payload \in Payload
      BY DEF FramesOf
    <3>2. f \in FramesOf(Data, BOOLEAN, masked, {"none"}, {<<>>}, Excess) => f.payload = <<>>
      BY DEF FramesOf
    <3>3. f \in FramesOf(Data, BOOLEAN, masked, {"none"}, {<<"c">>}, Excess \cap {Word})
             => f.excess # 0
      BY <1>2 DEF FramesOf
    <3>4. f \in FramesOf({"PING", "PONG"}, {TRUE}, masked, {"none"}, {<<>>, <<"a">>}, {0})
             => f.opcode \notin Data
      BY DEF FramesOf, Data
    <3>5. f \in FramesOf({"CLOSE"}, {TRUE}, masked, Code \ {"none"},
                         {<<>>, <<"a">>, <<"c">>, <<"L2">>}, {0}) => f.opcode \notin Data
      BY DEF FramesOf, Data
    <3>6. f \in [fin : BOOLEAN, opcode : Data \cup {"PING", "PONG", "CLOSE", "other"},
                 rsv : BOOLEAN, masked : BOOLEAN, long : {FALSE}, code : {"none"},
                 payload : {<<>>}, excess : {0}] => f.payload = <<>>
      OBVIOUS
    <3>7. f \in [fin : {TRUE}, opcode : {"PING", "PONG", "CLOSE"}, rsv : {FALSE},
                 masked : {masked}, long : {TRUE}, code : {"none"}, payload : {<<>>},
                 excess : {0}] => f.payload = <<>>
      OBVIOUS
    <3>8. QED
      BY <1>3, <3>1, <3>2, <3>3, <3>4, <3>5, <3>6, <3>7 DEF AnyFrame
  <2>3. \A p \in Payload \cup {<<>>} : Len(p) <= Memory
    <3>1. \A p \in Payload : Len(p) <= MaxChunk /\ Len(p) \in Nat
      BY <1>2 DEF Payload, SeqOf
    <3>2. Len(<<>>) <= Memory
      BY <1>2
    <3>3. QED
      BY <1>2, <3>1, <3>2
  <2>4. QED
    BY <1>1, <1>3, <2>1, <2>2, <2>3
<1>4. CASE f \in FramesOf({"TEXT", "BINARY"}, {TRUE}, masked, {"none"},
                          {[i \in 1 .. Limit + 1 |-> "a"]}, {0})
  <2> DEFINE p == [i \in 1 .. Limit + 1 |-> "a"]
  <2>1. p \in Seq(Octets) /\ Len(p) = Limit + 1
    <3>1. "a" \in Octets
      BY DEF Octets, Lead
    <3>2. QED
      BY <1>2, <3>1
  <2> HIDE DEF p
  <2>2. /\ f.payload = p /\ f.excess = 0 /\ f.code = "none" /\ f.fin /\ f.masked = masked
        /\ f \in [fin : {TRUE}, opcode : {"TEXT", "BINARY"}, rsv : {FALSE}, masked : {masked},
                  long : {FALSE}, code : {"none"}, payload : {p}, excess : {0}]
    BY <1>4 DEF FramesOf, p
  <2>3. f \in Frame /\ f.opcode # "NONE"
    <3>1. f.payload \in Seq(Octets) /\ f.excess \in 0 .. Word /\ f.opcode \in {"TEXT", "BINARY"}
      BY <1>2, <2>1, <2>2
    <3>2. QED
      BY <2>2, <3>1 DEF Frame, Data, Code
  <2>4. f \in Frames
    <3>1. Len(f.payload) < Word /\ ~(f.excess > 0) /\ f.excess \notin 1 .. Word - 1
      BY <1>2, <2>1, <2>2
    <3>2. QED
      BY <2>2, <2>3, <3>1 DEF Frames
  <2>5. QED
    BY <1>1, <2>1, <2>2, <2>4
<1>5. QED
  BY <1>1, <1>3, <1>4 DEF SentFrame

\* What is known of a frame that is noted.
Told(x, f) ==
    (IF f.excess = Word THEN {"cut"} ELSE {})
    \cup IF x.peer # "foreign" /\ (f.rsv \/ f.opcode \notin {"TEXT", "BINARY"})
         THEN {"raw"} ELSE {}

\* What the peer means to say is noted, and what is remembered of its header.
LEMMA NotedFacts ==
  ASSUME NEW x, Typed(x), NEW f \in Frames
  PROVE  LET n == Noted(x, f)
             y == Accepted(n, f)
             before == IF f.opcode = "FRAGMENT" THEN x.due ELSE <<>>
         IN /\ Typed(n) /\ n.session = x.session /\ n.aborted = x.aborted
            /\ n.frame = x.frame /\ n.in = x.in /\ n.close = x.close
            /\ n.odd = x.odd \cup Told(x, f) /\ n.peer = x.peer /\ n.proto = x.proto
            /\ n.due = (IF f.opcode \in Data THEN before \o Said(f) ELSE x.due)
            /\ n.out = x.out /\ n.hs = x.hs /\ n.code = x.code
            /\ Typed(y) /\ y.session = x.session /\ y.aborted = x.aborted
            /\ y.in = x.in /\ y.close = x.close /\ y.total = x.total /\ y.array = x.array
            /\ y.utf8 = x.utf8 /\ y.odd = x.odd \cup Told(x, f) /\ y.frame = f
            /\ y.mode = x.mode /\ y.peer = x.peer /\ y.proto = x.proto
            /\ y.hs = x.hs /\ y.code = x.code
            /\ y.due = (IF f.opcode \in Data THEN before \o Said(f) ELSE x.due)
            /\ y.type = (IF x.continuing THEN x.type ELSE f.opcode)
            /\ y.continuing = (IF f.opcode \in Data THEN ~f.fin ELSE x.continuing)
<1> DEFINE before == IF f.opcode = "FRAGMENT" THEN x.due ELSE <<>>
           due == IF f.opcode \in Data THEN before \o Said(f) ELSE x.due
           continuing == IF f.opcode \in Data THEN ~f.fin ELSE x.continuing
           type == IF x.continuing THEN x.type ELSE f.opcode
           odd2 == x.odd \cup Told(x, f)
           n == Noted(x, f)
           y == Accepted(n, f)
<1>1. /\ f \in Frame /\ f.fin \in BOOLEAN /\ Said(f) \in Seq(Octets)
      /\ x.due \in Seq(Octets) /\ x.continuing \in BOOLEAN
  BY SaidFacts DEF Frames, Frame, Typed
<1>2. due \in Seq(Octets) /\ continuing \in BOOLEAN /\ odd2 \subseteq Oddities
  <2>1. before \in Seq(Octets)
    BY <1>1
  <2> HIDE DEF before
  <2>2. before \o Said(f) \in Seq(Octets)
    BY <1>1, <2>1, ConcatProperties
  <2>3. odd2 \subseteq Oddities
    BY DEF Typed, Told, Oddities
  <2>4. QED
    BY <1>1, <2>2, <2>3
<1>3. n = [x EXCEPT !.frames = @ + 1, !.odd = odd2, !.due = due]
  BY DEF Noted, Told, Typed, Fields
<1>4. y = [n EXCEPT !.frame = f, !.type = IF n.continuing THEN @ ELSE f.opcode,
                    !.continuing = IF f.opcode \in Data THEN ~f.fin ELSE @]
  BY DEF Accepted
<1> HIDE DEF n, y, odd2, due
<1>5. /\ DOMAIN n = Fields /\ n.due = due /\ n.in = x.in
      /\ n.mode = x.mode /\ n.session = x.session /\ n.out = x.out /\ n.close = x.close
      /\ n.odd = odd2 /\ n.aborted = x.aborted /\ n.continuing = x.continuing
      /\ n.type = x.type /\ n.array = x.array /\ n.total = x.total /\ n.utf8 = x.utf8
      /\ n.frame = x.frame /\ n.peer = x.peer /\ n.proto = x.proto
      /\ n.hs = x.hs /\ n.code = x.code
  BY <1>3 DEF Typed, Fields
<1>6. /\ DOMAIN y = Fields /\ y.due = n.due /\ y.in = n.in
      /\ y.mode = n.mode /\ y.session = n.session /\ y.out = n.out /\ y.close = n.close
      /\ y.odd = n.odd /\ y.aborted = n.aborted /\ y.array = n.array /\ y.total = n.total
      /\ y.utf8 = n.utf8 /\ y.frame = f /\ y.type = type /\ y.continuing = continuing
      /\ y.peer = n.peer /\ y.proto = n.proto /\ y.hs = n.hs /\ y.code = n.code
  BY <1>4, <1>5 DEF Fields
<1> HIDE DEF continuing, type
<1>7. Typed(n)
  BY <1>2, <1>5 DEF Typed
<1>8. Typed(y)
  BY <1>1, <1>2, <1>5, <1>6, <1>7 DEF Typed
<1>9. QED
  BY <1>5, <1>6, <1>7, <1>8 DEF n, y, odd2, due, continuing, type

\* A frame that is not refused is a part of the message it belongs to.
LEMMA AcceptedFacts ==
  ASSUME NEW x, Kept(x), x.session = "ACTIVE", ~x.aborted, x.in = "RECV_HDR",
         NEW f \in Frames, ~Refused(x, f)
  PROVE  LET y == Accepted(Noted(x, f), f)
         IN Active(y) /\ Framed(y) /\ CodePoint(y.utf8) = Fragment /\ y.frame = f
<1> DEFINE y == Accepted(Noted(x, f), f)
           before == IF f.opcode = "FRAGMENT" THEN x.due ELSE <<>>
<1>1. /\ Typed(x) /\ x.close = "NO" /\ x.total <= Limit /\ CodePoint(x.utf8) = Fragment
      /\ Ready(x) /\ x.continuing \in BOOLEAN /\ x.due \in Seq(Octets)
      /\ x.utf8 \in Seq(Octets)
  BY DEF Kept, Where, Typed
<1>2. /\ Typed(y) /\ y.session = x.session /\ y.aborted = x.aborted
      /\ y.in = x.in /\ y.close = x.close /\ y.total = x.total /\ y.array = x.array
      /\ y.utf8 = x.utf8 /\ y.odd = x.odd \cup Told(x, f) /\ y.frame = f
      /\ y.due = (IF f.opcode \in Data THEN before \o Said(f) ELSE x.due)
      /\ y.type = (IF x.continuing THEN x.type ELSE f.opcode)
      /\ y.continuing = (IF f.opcode \in Data THEN ~f.fin ELSE x.continuing)
  BY <1>1, NotedFacts
<1> HIDE DEF y
<1>3. /\ f.opcode \in Data \cup {"PING", "PONG", "CLOSE"}
      /\ f.opcode = "FRAGMENT" => x.continuing
      /\ f.opcode \in {"TEXT", "BINARY"} => ~x.continuing
  BY DEF Refused, Frames, Frame
<1>4. Active(y) /\ CodePoint(y.utf8) = Fragment
  BY <1>1, <1>2 DEF Active
<1>5. /\ Sober(y) => Sober(x)
      /\ "cut" \notin y.odd => "cut" \notin x.odd
      /\ f.excess = Word => "cut" \in y.odd
  BY <1>2 DEF Sober, Told
<1>6. /\ f.fin \in BOOLEAN /\ Said(f) \in Seq(Octets)
      /\ f.opcode \in Data => f.code = "none"
  BY SaidFacts DEF Frames, Frame
<1>7. CASE f.opcode \notin Data
  <2>1. y.due = x.due /\ y.continuing = x.continuing /\ (x.continuing => y.type = x.type)
    BY <1>2, <1>7
  <2>2. \A s : Begun(y, s) <=> Begun(x, s)
    BY <1>2, <2>1 DEF Begun
  <2>3. Ready(y)
    BY <1>1, <1>2, <1>5, <2>1, <2>2 DEF Ready, Between, Gathered
  <2>4. QED
    BY <1>2, <1>3, <1>4, <1>5, <1>7, <2>3 DEF Framed, y
<1>8. CASE f.opcode \in Data
  <2>1. y.due = before \o Said(f) /\ y.continuing = ~f.fin /\ before \in Seq(Octets)
    <3>1. before \in Seq(Octets)
      BY <1>1
    <3> HIDE DEF before
    <3>2. QED
      BY <1>2, <1>8, <3>1
  <2>2. y.type \in {"TEXT", "BINARY"}
    BY <1>1, <1>2, <1>3, <1>8 DEF Data, Ready, Between
  <2>3. Gathered(y, before)
    <3>1. CASE f.opcode = "FRAGMENT"
      BY <1>1, <1>2, <1>3, <1>5, <3>1 DEF Ready, Between, Gathered
    <3>2. CASE f.opcode # "FRAGMENT"
      <4>1. ~x.continuing /\ x.array = <<>> /\ x.total = 0 /\ before = <<>>
        BY <1>1, <1>3, <1>8, <3>2 DEF Ready, Between, Data
      <4>2. FlattenSeq(<<>>) = <<>> /\ Len(<<>>) = 0
        <5>1. <<>> \in Seq(Seq(Octets))
          OBVIOUS
        <5>2. QED
          BY <5>1, FlattenFacts
      <4>3. QED
        BY <1>2, <4>1, <4>2 DEF Gathered
    <3>3. QED
      BY <3>1, <3>2
  <2>4. ASSUME Sober(y) PROVE IF y.type = "TEXT" THEN Begun(y, Said(f)) ELSE y.utf8 = <<>>
    <3>1. CASE f.opcode = "FRAGMENT"
      <4>1. x.continuing /\ y.type = x.type /\ before = x.due
        BY <1>2, <1>3, <3>1
      <4>2. IF x.type = "TEXT" THEN Begun(x, <<>>) ELSE x.utf8 = <<>>
        BY <1>1, <1>5, <2>4, <4>1 DEF Ready, Between
      <4>3. ASSUME x.type = "TEXT" PROVE Begun(y, Said(f))
        <5>1. PICK p \in Seq(Octets) : WellFormed(p) /\ x.due = (p \o x.utf8) \o <<>>
          BY <4>2, <4>3 DEF Begun
        <5>2. p \o x.utf8 \in Seq(Octets)
          BY <1>1, ConcatProperties
        <5>3. x.due = p \o x.utf8
          BY <5>1, <5>2, ConcatEmptySeq
        <5>4. QED
          BY <1>2, <2>1, <4>1, <5>1, <5>3 DEF Begun
      <4>4. QED
        BY <1>2, <4>1, <4>2, <4>3
    <3>2. CASE f.opcode # "FRAGMENT"
      <4>1. ~x.continuing /\ before = <<>>
        BY <1>3, <1>8, <3>2 DEF Data
      <4>2. x.utf8 = <<>>
        BY <1>1, <1>5, <2>4, <4>1 DEF Ready, Between
      <4>3. <<>> \in Seq(Octets) /\ <<>> \o <<>> = <<>>
        BY ConcatEmptySeq
      <4>4. Begun(y, Said(f))
        BY <1>2, <2>1, <4>1, <4>2, <4>3, EmptyWellFormed DEF Begun
      <4>5. QED
        BY <1>2, <4>2, <4>4
    <3>3. QED
      BY <3>1, <3>2
  <2>5. InData(y, Said(f))
    BY <1>2, <1>6, <1>8, <2>1, <2>2, <2>4 DEF InData
  <2>6. Framed(y)
    BY <1>2, <1>3, <1>5, <1>8, <2>1, <2>3, <2>5 DEF Framed
  <2>7. QED
    BY <1>2, <1>4, <2>6 DEF y
<1>9. QED
  BY <1>7, <1>8

-----------------------------------------------------------------------------
(* Every step keeps the invariant.                                          *)

\* The fields of the handshake.
Early == {"mode", "proto", "peer", "session", "hs", "reads", "code", "broken", "retry", "odd",
          "aborted"}

\* A session that starts has them anew, and the rest of the record that it replaces.
StartedOver(j, mode, proto, peer, b) ==
    /\ DOMAIN j = Early \cup DOMAIN b
    /\ j.mode = mode /\ j.proto = proto /\ j.peer = peer /\ j.session = "HANDSHAKE"
    /\ j.hs = (IF mode = "client" THEN "CLIENT_SEND" ELSE "SERVER_RECV")
    /\ j.odd = {} /\ j.aborted = FALSE
    /\ \A k \in DOMAIN b : k \notin Early => j[k] = b[k]

LEMMA JoinedFacts ==
  ASSUME NEW mode, NEW proto, NEW peer, NEW b, NEW j,
         j = Joined(Started(mode, proto, peer), b)
  PROVE  StartedOver(j, mode, proto, peer, b)
<1> DEFINE a == Started(mode, proto, peer)
<1>1. /\ DOMAIN a = Early /\ a.mode = mode /\ a.proto = proto /\ a.peer = peer
      /\ a.session = "HANDSHAKE" /\ a.odd = {} /\ a.aborted = FALSE
      /\ a.hs = (IF mode = "client" THEN "CLIENT_SEND" ELSE "SERVER_RECV")
  BY DEF Started, Early
<1>2. j = [k \in (DOMAIN a) \cup (DOMAIN b) |-> IF k \in DOMAIN a THEN a[k] ELSE b[k]]
  BY DEF Joined
<1> HIDE DEF a
<1>3. DOMAIN j = Early \cup DOMAIN b
  BY <1>1, <1>2
<1>4. \A k \in Early : j[k] = a[k]
  BY <1>1, <1>2
<1>5. \A k \in DOMAIN b : k \notin Early => j[k] = b[k]
  BY <1>1, <1>2
<1>6. /\ j.mode = a.mode /\ j.proto = a.proto /\ j.peer = a.peer /\ j.session = a.session
      /\ j.odd = a.odd /\ j.aborted = a.aborted /\ j.hs = a.hs
  BY <1>4 DEF Early
<1>7. QED
  BY <1>1, <1>3, <1>5, <1>6 DEF StartedOver

\* At the start nothing was read.
LEMMA InitFacts ==
  ASSUME Init
  PROVE  /\ Kept(m) /\ m.session = "HANDSHAKE" /\ m.proto \in Sockets /\ m.peer \in Peer
         /\ m.odd = {} /\ m.hs \in {"CLIENT_SEND", "SERVER_RECV"} /\ m.in = "NULL"
         /\ ~m.aborted /\ m.frame = NoFrame /\ m.close = "NO"
<1> DEFINE b == [out |-> "NULL", in |-> "NULL", frame |-> NoFrame, continuing |-> FALSE,
                 type |-> "NONE", array |-> <<>>, total |-> 0, utf8 |-> <<>>,
                 close |-> "NO", frames |-> 0, due |-> <<>>]
<1>1. PICK mode \in {"client", "server"}, proto \in Sockets, peer \in Peer :
         m = Joined(Started(mode, proto, peer), b)
  BY DEF Init
<1>2. /\ DOMAIN b = {"out", "in", "frame", "continuing", "type", "array", "total", "utf8",
                     "close", "frames", "due"}
      /\ b.out = "NULL" /\ b.in = "NULL" /\ b.frame = NoFrame /\ b.continuing = FALSE
      /\ b.array = <<>> /\ b.total = 0 /\ b.utf8 = <<>> /\ b.close = "NO" /\ b.due = <<>>
  OBVIOUS
<1> HIDE DEF b
<1>10. StartedOver(m, mode, proto, peer, b)
  BY <1>1, JoinedFacts, Zenon
<1>3. /\ DOMAIN m = Early \cup DOMAIN b
      /\ m.mode = mode /\ m.proto = proto /\ m.peer = peer /\ m.session = "HANDSHAKE"
      /\ m.hs = (IF mode = "client" THEN "CLIENT_SEND" ELSE "SERVER_RECV")
      /\ m.odd = {} /\ m.aborted = FALSE
      /\ \A k \in DOMAIN b : k \notin Early => m[k] = b[k]
  BY <1>10 DEF StartedOver
<1>4. DOMAIN m = Fields
  BY <1>2, <1>3 DEF Fields, Early
<1>5. /\ m.out = "NULL" /\ m.in = "NULL" /\ m.frame = NoFrame /\ m.continuing = FALSE
      /\ m.array = <<>> /\ m.total = 0 /\ m.utf8 = <<>> /\ m.close = "NO" /\ m.due = <<>>
  BY <1>2, <1>3 DEF Early
<1>6. NoFrame \in Frame /\ <<>> \in Seq(Octets) /\ <<>> \in Seq(Seq(Octets)) /\ Len(<<>>) = 0
  BY WordAssumption DEF NoFrame, Frame, Code
<1>7. Typed(m)
  <2>1. Len(<<>>) <= MaxCodePoint /\ 0 \in Nat /\ "NO" \in Closes
    BY DEF MaxCodePoint, Closes
  <2>2. QED
    BY <1>3, <1>4, <1>5, <1>6, <2>1 DEF Typed
<1>8. Kept(m)
  BY <1>3, <1>5, <1>7 DEF Kept, Fresh, Refuted
<1>9. QED
  BY <1>3, <1>5, <1>8

\* x with nothing changed but what the handshake changes.
Shaken(x, y) ==
    /\ DOMAIN y = Fields /\ y.mode = x.mode /\ y.peer = x.peer /\ y.proto = x.proto
    /\ y.out = x.out /\ y.in = x.in
    /\ y.frame = x.frame /\ y.continuing = x.continuing /\ y.array = x.array
    /\ y.total = x.total /\ y.utf8 = x.utf8 /\ y.close = x.close /\ y.due = x.due
    /\ y.session \in {"HANDSHAKE", "DONE"}
    /\ x.odd \subseteq y.odd /\ y.odd \subseteq Oddities /\ y.aborted \in BOOLEAN
    /\ y.aborted => y.odd \cap {"line", "full", "zero", "rest"} # {}

\* The handshake changes nothing of the session.
LEMMA ShakenKept ==
  ASSUME NEW x, Kept(x), x.session = "HANDSHAKE", NEW y, Shaken(x, y)
  PROVE  Kept(y)
<1>1. Typed(x) /\ Fresh(x)
  BY DEF Kept
<1>2. Typed(y) /\ Fresh(y)
  BY <1>1 DEF Typed, Fresh, Shaken
<1>3. y.aborted => y.odd \cap Known # {}
  BY DEF Shaken, Known
<1>4. QED
  BY <1>2, <1>3 DEF Kept, Refuted, Fresh, Shaken

\* A buffer that is too small.
LEMMA ReadOnShaken ==
  ASSUME Typed(m), ~m.aborted, m.session = "HANDSHAKE",
         NEW full, Shaken(m, full), ReadOn(full)
  PROVE  Shaken(m, m')
<1>1. Typed(m)
  OBVIOUS
<1>2. Shaken(m, [m EXCEPT !.reads = @ + 1])
  BY <1>1 DEF Shaken, Typed, Fields
<1>3. Shaken(m, Abort(Odd(m, "full"))) /\ Shaken(m, Abort(Odd(m, "zero")))
  BY <1>1 DEF Shaken, Typed, Fields, Abort, Odd, Oddities
<1>4. QED
  BY <1>2, <1>3 DEF ReadOn

\* Each step of the handshake.
LEMMA HandshakeShaken ==
  ASSUME Typed(m), HandshakeNext
  PROVE  m.session = "HANDSHAKE" /\ Shaken(m, m')
<1>1. Typed(m) /\ m.session = "HANDSHAKE" /\ ~m.aborted
  BY DEF HandshakeNext, OpeningRead, ReplySent, RequestSent, ResponseRead,
         HandshakeBreaks, HandshakeFailed, Handshaking
<1>2. \A code : Shaken(m, Reply(m, code))
  BY <1>1 DEF Reply, Abort, Odd, Shaken, Typed, Fields, Oddities
<1>3. CASE OpeningRead
  <2>1. CASE ReadOn(Reply(m, "TOO_BIG"))
    BY <1>1, <1>2, <2>1, ReadOnShaken
  <2>2. CASE m' = Abort(Odd(m, "rest"))
    BY <1>1, <2>2 DEF Shaken, Typed, Fields, Abort, Odd, Oddities
  <2>3. CASE \E o : m' = Reply(m, ParseOpening(m.proto, o))
    BY <1>1, <1>2, <2>3
  <2>4. QED
    BY <1>3, <2>1, <2>2, <2>3 DEF OpeningRead
<1>4. CASE ReplySent
  BY <1>1, <1>4 DEF ReplySent, Shaken, Typed, Fields, Oddities
<1>5. CASE RequestSent
  BY <1>1, <1>5 DEF RequestSent, Shaken, Typed, Fields
<1>6. CASE ResponseRead
  <2>1. Shaken(m, [m EXCEPT !.hs = "STOPPING_TIMER_ERROR"])
    BY <1>1 DEF Shaken, Typed, Fields
  <2>2. Shaken(m, Abort(Odd(m, "line"))) /\ Shaken(m, Abort(Odd(m, "rest")))
    BY <1>1 DEF Shaken, Typed, Fields, Abort, Odd, Oddities
  <2>3. Shaken(m, [m EXCEPT !.hs = "STOPPING_TIMER_DONE"])
    BY <1>1 DEF Shaken, Typed, Fields
  <2>4. ReadOn([m EXCEPT !.hs = "STOPPING_TIMER_ERROR"]) => Shaken(m, m')
    BY <1>1, <2>1, ReadOnShaken
  <2> DEFINE more == ReadOn([m EXCEPT !.hs = "STOPPING_TIMER_ERROR"])
  <2>5. PICK r : CASE ~r.ended -> more
                   [] r.ended /\ ParseResponse(r) = "RECV_MORE" ->
                         IF r.rest THEN more ELSE m' = Abort(Odd(m, "line"))
                   [] r.ended /\ ParseResponse(r) # "RECV_MORE" /\ r.rest ->
                         m' = Abort(Odd(m, "rest"))
                   [] r.ended /\ ParseResponse(r) = "INVALID" /\ ~r.rest ->
                         m' = [m EXCEPT !.hs = "STOPPING_TIMER_ERROR"]
                   [] r.ended /\ ParseResponse(r) = "VALID" /\ ~r.rest ->
                         m' = [m EXCEPT !.hs = "STOPPING_TIMER_DONE"]
    BY <1>6 DEF ResponseRead
  <2>6. ParseResponse(r) \in {"RECV_MORE", "INVALID", "VALID"}
    BY DEF ParseResponse
  <2> HIDE DEF more
  <2>7. QED
    BY <1>1, <2>1, <2>2, <2>3, <2>4, <2>5, <2>6 DEF more
<1>7. CASE HandshakeBreaks
  BY <1>1, <1>7 DEF HandshakeBreaks, Shaken, Typed, Fields
<1>8. CASE HandshakeFailed
  BY <1>1, <1>8 DEF HandshakeFailed, Shaken, Typed, Fields
<1>9. QED
  BY <1>3, <1>4, <1>5, <1>6, <1>7, <1>8 DEF HandshakeNext

\* The session starts with no message begun.
LEMMA StartKept ==
  ASSUME Kept(m), StartSession
  PROVE  Kept(m')
<1>1. Typed(m) /\ Fresh(m) /\ m.session = "HANDSHAKE" /\ ~m.aborted
  BY DEF Kept, StartSession, Handshaking
<1>2. CASE m' = [m EXCEPT !.hs = "DONE", !.session = "DONE", !.broken = TRUE, !.retry = TRUE]
  <2>1. Shaken(m, [m EXCEPT !.hs = "DONE", !.session = "DONE", !.broken = TRUE, !.retry = TRUE])
    BY <1>1 DEF Shaken, Typed, Fields
  <2>2. QED
    BY <1>1, <1>2, <2>1, ShakenKept
<1>3. CASE m' = RecvHdr([m EXCEPT !.hs = "DONE", !.reads = 0, !.code = "NULL",
                                  !.session = "ACTIVE", !.out = "IDLE"])
  <2> DEFINE y == [m EXCEPT !.hs = "DONE", !.reads = 0, !.code = "NULL",
                            !.session = "ACTIVE", !.out = "IDLE"]
  <2>1. /\ DOMAIN y = Fields /\ y.mode = m.mode /\ y.out = "IDLE" /\ y.in = m.in
        /\ y.frame = m.frame /\ y.continuing = m.continuing /\ y.array = m.array
        /\ y.total = m.total /\ y.utf8 = m.utf8 /\ y.close = m.close /\ y.due = m.due
        /\ y.session = "ACTIVE" /\ y.odd = m.odd /\ y.aborted = m.aborted
    BY <1>1 DEF Typed, Fields
  <2> HIDE DEF y
  <2>2. Typed(y) /\ Fresh(y)
    BY <1>1, <2>1 DEF Typed, Fresh
  <2>3. Limit \in Nat
    BY BoundsAssumption
  <2>4. Active(y) /\ Between(y)
    BY <1>1, <2>1, <2>2, <2>3 DEF Active, Between, Fresh
  <2>5. CodePoint(y.utf8) = Fragment
    BY <2>2, UnfinishedFacts DEF Fresh
  <2>6. Kept(RecvHdr(y))
    BY <2>4, <2>5, RecvHdrKept
  <2>7. QED
    BY <1>3, <2>6 DEF y
<1>4. QED
  BY <1>2, <1>3 DEF StartSession

\* What the invariant says of a session that talks.
LEMMA ActiveFacts ==
  ASSUME NEW x, Kept(x), x.session = "ACTIVE", ~x.aborted
  PROVE  Active(x) /\ Where(x) /\ CodePoint(x.utf8) = Fragment
BY DEF Kept, Active, Where

\* A header is read.
LEMMA HdrReadKept ==
  ASSUME Kept(m), HdrRead
  PROVE  Kept(m')
<1>1. /\ Typed(m) /\ m.session = "ACTIVE" /\ ~m.aborted /\ m.in = "RECV_HDR"
      /\ m.mode \in {"client", "server"}
  BY DEF Kept, Typed, HdrRead
<1> DEFINE other == IF m.mode = "server" THEN "client" ELSE "server"
<1>2. PICK f \in IF m.peer = "foreign" THEN AnyFrame(m.mode = "server") ELSE SentFrame(other) :
         m' = CASE Refused(m, f) -> FailConn(Noted(m, f), "PROTO")
                [] ~Refused(m, f) /\ m.mode = "server" ->
                      [Accepted(Noted(m, f), f) EXCEPT !.in = "RECV_HDREXT"]
                [] ~Refused(m, f) /\ m.mode = "client" ->
                      IF IsEmpty(f) THEN Empty(Accepted(Noted(m, f), f))
                      ELSE Announce(Accepted(Noted(m, f), f))
  BY DEF HdrRead
<1>3. f \in Frames
  <2>1. (m.mode = "server") \in BOOLEAN
    OBVIOUS
  <2>2. AnyFrame(m.mode = "server") \subseteq Frames
    BY <2>1, FrameFacts
  <2>3. SentFrame(other) \subseteq Frames
    BY SentFacts
  <2>4. QED
    BY <2>2, <2>3
<1>4. CASE Refused(m, f)
  <2>1. Typed(Noted(m, f)) /\ ~Noted(m, f).aborted
    BY <1>1, <1>3, NotedFacts
  <2>2. Kept(FailConn(Noted(m, f), "PROTO"))
    BY <2>1, FailConnKept DEF Closes
  <2>3. QED
    BY <1>2, <1>4, <2>2
<1>5. CASE ~Refused(m, f)
  <2> DEFINE y == Accepted(Noted(m, f), f)
  <2>1. /\ Active(y) /\ Framed(y) /\ CodePoint(y.utf8) = Fragment /\ y.frame = f
        /\ y.in = "RECV_HDR"
    BY <1>1, <1>3, <1>5, AcceptedFacts, NotedFacts
  <2>2. m' \in {[y EXCEPT !.in = "RECV_HDREXT"], IF IsEmpty(f) THEN Empty(y) ELSE Announce(y)}
    BY <1>1, <1>2, <1>5
  <2> HIDE DEF y
  <2>3. Kept([y EXCEPT !.in = "RECV_HDREXT"])
    BY <2>1, WaitsKept DEF Reading
  <2>4. IsEmpty(f) => Kept(Empty(y))
    BY <2>1, EmptyKept
  <2>5. ~IsEmpty(f) => Kept(Announce(y))
    BY <2>1, AnnounceKept
  <2>6. QED
    BY <2>2, <2>3, <2>4, <2>5
<1>6. QED
  BY <1>4, <1>5

\* The rest of a header is read.
LEMMA HdrExtReadKept ==
  ASSUME Kept(m), HdrExtRead
  PROVE  Kept(m')
<1>1. /\ Active(m) /\ Framed(m) /\ CodePoint(m.utf8) = Fragment
      /\ m.in = "RECV_HDREXT"
  BY ActiveFacts DEF HdrExtRead, Where
<1>2. QED
  BY <1>1, EmptyKept, AnnounceKept DEF HdrExtRead

\* A payload is read.
LEMMA PayloadReadKept ==
  ASSUME Kept(m), PayloadRead
  PROVE  Kept(m')
<1>1. Active(m) /\ PayloadIn(m) /\ CodePoint(m.utf8) = Fragment /\ m.in = "RECV_PAYLOAD"
  BY ActiveFacts DEF PayloadRead, Where
<1>2. m.frame.opcode \in Data \cup {"PING", "PONG", "CLOSE"}
  BY <1>1 DEF PayloadIn
<1>3. CASE m.frame.opcode \in Data
  <2>1. InData(m, m.frame.payload) /\ m.frame.payload # <<>> /\ Gathered(m, m.due)
    BY <1>1, <1>3 DEF PayloadIn
  <2>2. m' = IF m.type = "TEXT" THEN ValidateUtf8(m) ELSE Chunked(m)
    BY <1>3 DEF PayloadRead, Data
  <2>3. m.type = "TEXT" => Kept(ValidateUtf8(m))
    BY <1>1, <2>1, ValidateUtf8Kept
  <2>4. m.type # "TEXT" => Kept(Chunked(m))
    BY <1>1, <2>1, ChunkedKept DEF InData
  <2>5. QED
    BY <2>2, <2>3, <2>4
<1>4. CASE m.frame.opcode \in {"PING", "PONG"}
  <2>1. m' = [m EXCEPT !.in = "RECVD_CONTROL"] /\ Ready(m)
    BY <1>1, <1>4 DEF PayloadRead, Data, PayloadIn
  <2>2. QED
    BY <1>1, <2>1, WaitsKept DEF Reading
<1>5. CASE m.frame.opcode = "CLOSE"
  <2>1. m' = AcknowledgeClose(m)
    BY <1>5 DEF PayloadRead, Data
  <2>2. QED
    BY <1>1, <2>1, AcknowledgeCloseKept
<1>6. QED
  BY <1>2, <1>3, <1>4, <1>5

\* A message or a control frame is handed over.
LEMMA RecvKept ==
  ASSUME Kept(m), Recv
  PROVE  Kept(m')
<1>1. /\ Active(m) /\ Where(m) /\ CodePoint(m.utf8) = Fragment /\ Typed(m)
      /\ m.frame \in Frame
  BY ActiveFacts DEF Recv, Active, Typed
<1>2. CASE /\ m.in = "RECVD_CHUNKED"
           /\ m' = IF m.frame.fin /\ m.type \in {"TEXT", "BINARY"}
                      /\ Len(FlattenSeq(m.array)) = m.total
                   THEN RecvHdr([m EXCEPT !.array = <<>>, !.continuing = FALSE])
                   ELSE Abort(m)
  <2> DEFINE y == [m EXCEPT !.array = <<>>, !.continuing = FALSE]
  <2>1. Whole(m)
    BY <1>1, <1>2 DEF Where
  <2>2. m' = RecvHdr(y)
    BY <1>2, <2>1 DEF Whole, Gathered
  <2>3. /\ DOMAIN y = Fields /\ y.mode = m.mode /\ y.out = m.out /\ y.in = m.in
        /\ y.frame = m.frame /\ y.continuing = FALSE /\ y.array = <<>>
        /\ y.total = m.total /\ y.utf8 = m.utf8 /\ y.close = m.close /\ y.due = m.due
        /\ y.session = m.session /\ y.odd = m.odd /\ y.aborted = m.aborted
    BY <1>1 DEF Typed, Fields
  <2> HIDE DEF y
  <2>4. <<>> \in Seq(Seq(Octets))
    OBVIOUS
  <2>5. Active(y)
    BY <1>1, <2>3, <2>4 DEF Active, Typed
  <2>6. Between(y)
    BY <2>1, <2>3 DEF Between, Whole, Sober
  <2>7. CodePoint(y.utf8) = Fragment
    BY <1>1, <2>3
  <2>8. QED
    BY <2>2, <2>5, <2>6, <2>7, RecvHdrKept
<1>3. CASE m.in = "RECVD_CONTROL" /\ m' = RecvHdr(m)
  <2>1. Between(m)
    BY <1>1, <1>3 DEF Where, Ready
  <2>2. QED
    BY <1>1, <1>3, <2>1, RecvHdrKept
<1>4. QED
  BY <1>2, <1>3 DEF Recv

\* What is sent, and a connection that ends, change nothing that was received.
LEMMA SendingKept ==
  ASSUME Kept(m), Send \/ Sent \/ Broken
  PROVE  Kept(m')
<1>1. Typed(m) /\ ~m.aborted /\ m.session # "HANDSHAKE"
  BY DEF Kept, Send, Sent, Broken
<1>2. /\ DOMAIN m' = Fields /\ m'.mode = m.mode /\ m'.in = m.in
      /\ m'.frame = m.frame /\ m'.continuing = m.continuing /\ m'.array = m.array
      /\ m'.total = m.total /\ m'.utf8 = m.utf8 /\ m'.close = m.close /\ m'.due = m.due
      /\ m'.odd = m.odd /\ m'.aborted = m.aborted /\ m'.type = m.type
      /\ m'.out \in {m.out, "SENDING", "IDLE"}
      /\ m'.session = m.session \/ m'.session = "DONE"
  BY <1>1 DEF Typed, Fields, Send, Sent, Broken
<1>3. PICK y : y = m'
  OBVIOUS
<1>4. /\ DOMAIN y = Fields /\ y.mode = m.mode /\ y.in = m.in
      /\ y.frame = m.frame /\ y.continuing = m.continuing /\ y.array = m.array
      /\ y.total = m.total /\ y.utf8 = m.utf8 /\ y.close = m.close /\ y.due = m.due
      /\ y.odd = m.odd /\ y.aborted = m.aborted /\ y.type = m.type
      /\ y.out \in {m.out, "SENDING", "IDLE"}
      /\ y.session = m.session \/ y.session = "DONE"
  BY <1>2, <1>3
<1>5. Typed(y)
  BY <1>1, <1>4 DEF Typed
<1>6. Where(m) => Where(y)
  <2>1. Sober(y) <=> Sober(m)
    BY <1>4 DEF Sober
  <2>2. \A s : Begun(y, s) <=> Begun(m, s)
    BY <1>4 DEF Begun
  <2>3. \A s : Gathered(y, s) <=> Gathered(m, s)
    BY <1>4 DEF Gathered
  <2>4. (Ready(m) => Ready(y)) /\ (\A s : InData(m, s) => InData(y, s))
    BY <1>4, <2>1, <2>2, <2>3 DEF Ready, Between, InData
  <2>5. (Framed(m) => Framed(y)) /\ (PayloadIn(m) => PayloadIn(y)) /\ (Whole(m) => Whole(y))
    BY <1>4, <2>1, <2>3, <2>4 DEF Framed, PayloadIn, Whole
  <2>6. QED
    BY <1>4, <2>4, <2>5 DEF Where
<1>7. Refuted(m) => Refuted(y)
  BY <1>4 DEF Refuted
<1>8. Kept(y)
  BY <1>1, <1>4, <1>5, <1>6, <1>7 DEF Kept, Sober
<1>9. QED
  BY <1>3, <1>8

-----------------------------------------------------------------------------
(* A session that began with something left over keeps less, but goes on.   *)

\* A frame whose header was read is one that there may be.
Placed(x) ==
    x.in \in {"RECV_HDREXT", "RECV_PAYLOAD"} =>
        /\ x.frame \in Frames /\ x.frame.opcode \in Data \cup {"PING", "PONG", "CLOSE"}
        /\ x.in = "RECV_PAYLOAD" /\ x.frame.opcode \in Data => x.frame.payload # <<>>

Sound(x) == Typed(x) /\ Placed(x)

\* A connection stays that of the same sockets, and nothing of it is forgotten.
Onward(x, y) ==
    Sound(y) /\ y.peer = x.peer /\ y.proto = x.proto /\ x.odd \subseteq y.odd

\* One thing after another.
LEMMA OnwardOn ==
  ASSUME NEW x, NEW y, NEW z, Onward(x, y), Onward(y, z)
  PROVE  Onward(x, z)
BY DEF Onward

\* Changes of one field.
LEMMA ChangeOn ==
  ASSUME NEW x, Sound(x)
  PROVE  /\ Onward(x, x) /\ Onward(x, Abort(x))
         /\ \A what \in Oddities : Onward(x, Odd(x, what))
         /\ \A u \in Seq(Octets) : Len(u) <= MaxCodePoint => Onward(x, [x EXCEPT !.utf8 = u])
         /\ \A n \in Nat : Onward(x, [x EXCEPT !.total = n])
<1>1. Typed(x) /\ Placed(x)
  BY DEF Sound
<1>2. Onward(x, x)
  BY DEF Onward
<1>3. Onward(x, Abort(x))
  <2> DEFINE y == Abort(x)
  <2>1. /\ DOMAIN y = Fields /\ y.in = x.in /\ y.utf8 = x.utf8
        /\ y.mode = x.mode /\ y.session = x.session /\ y.out = x.out /\ y.close = x.close
        /\ y.odd = x.odd /\ y.aborted = TRUE /\ y.continuing = x.continuing
        /\ y.array = x.array /\ y.total = x.total
        /\ y.due = x.due /\ y.frame = x.frame /\ y.peer = x.peer /\ y.proto = x.proto
    BY <1>1 DEF Typed, Fields, Abort
  <2> HIDE DEF y
  <2>2. Typed(y) /\ Placed(y)
    BY <1>1, <2>1 DEF Typed, Placed
  <2>3. QED
    BY <2>1, <2>2 DEF Onward, Sound, y
<1>4. ASSUME NEW what \in Oddities PROVE Onward(x, Odd(x, what))
  <2> DEFINE y == Odd(x, what)
  <2>1. /\ DOMAIN y = Fields /\ y.in = x.in /\ y.utf8 = x.utf8
        /\ y.mode = x.mode /\ y.session = x.session /\ y.out = x.out /\ y.close = x.close
        /\ y.odd = x.odd \cup {what} /\ y.aborted = x.aborted /\ y.continuing = x.continuing
        /\ y.array = x.array /\ y.total = x.total
        /\ y.due = x.due /\ y.frame = x.frame /\ y.peer = x.peer /\ y.proto = x.proto
    BY <1>1 DEF Typed, Fields, Odd
  <2> HIDE DEF y
  <2>2. Typed(y) /\ Placed(y)
    BY <1>1, <2>1 DEF Typed, Placed
  <2>3. QED
    BY <2>1, <2>2 DEF Onward, Sound, y
<1>5. ASSUME NEW u \in Seq(Octets), Len(u) <= MaxCodePoint
      PROVE  Onward(x, [x EXCEPT !.utf8 = u])
  <2> DEFINE y == [x EXCEPT !.utf8 = u]
  <2>1. /\ DOMAIN y = Fields /\ y.in = x.in /\ y.utf8 = u
        /\ y.mode = x.mode /\ y.session = x.session /\ y.out = x.out /\ y.close = x.close
        /\ y.odd = x.odd /\ y.aborted = x.aborted /\ y.continuing = x.continuing
        /\ y.array = x.array /\ y.total = x.total
        /\ y.due = x.due /\ y.frame = x.frame /\ y.peer = x.peer /\ y.proto = x.proto
    BY <1>1 DEF Typed, Fields
  <2> HIDE DEF y
  <2>2. Typed(y) /\ Placed(y)
    BY <1>1, <1>5, <2>1 DEF Typed, Placed
  <2>3. QED
    BY <2>1, <2>2 DEF Onward, Sound, y
<1>6. ASSUME NEW n \in Nat PROVE Onward(x, [x EXCEPT !.total = n])
  <2> DEFINE y == [x EXCEPT !.total = n]
  <2>1. /\ DOMAIN y = Fields /\ y.in = x.in /\ y.utf8 = x.utf8
        /\ y.mode = x.mode /\ y.session = x.session /\ y.out = x.out /\ y.close = x.close
        /\ y.odd = x.odd /\ y.aborted = x.aborted /\ y.continuing = x.continuing
        /\ y.array = x.array /\ y.total = n
        /\ y.due = x.due /\ y.frame = x.frame /\ y.peer = x.peer /\ y.proto = x.proto
    BY <1>1 DEF Typed, Fields
  <2> HIDE DEF y
  <2>2. Typed(y) /\ Placed(y)
    BY <1>1, <2>1 DEF Typed, Placed
  <2>3. QED
    BY <2>1, <2>2 DEF Onward, Sound, y
<1>7. QED
  BY <1>2, <1>3, <1>4, <1>5, <1>6

\* A connection is failed, or waits for something else.
LEMMA MoveOn ==
  ASSUME NEW x, Typed(x)
  PROVE  /\ \A why \in Closes : Onward(x, FailConn(x, why))
         /\ \A in \in {"RECVD_CHUNKED", "RECVD_CONTROL"} : Onward(x, [x EXCEPT !.in = in])
         /\ Onward(x, RecvHdr(x)) /\ Onward(x, Chunked(x)) /\ Onward(x, AcknowledgeClose(x))
<1>1. ASSUME NEW why \in Closes PROVE Onward(x, FailConn(x, why))
  <2> DEFINE y == FailConn(x, why)
  <2>1. /\ DOMAIN y = Fields /\ y.in = "CLOSED" /\ y.array = <<>> /\ y.close = why
        /\ y.out = (IF x.out = "IDLE" THEN "SENDING" ELSE x.out)
        /\ y.session = (IF x.out = "IDLE" THEN "CLOSING_CONNECTION" ELSE "DONE")
        /\ y.frame = x.frame /\ y.mode = x.mode /\ y.odd = x.odd /\ y.aborted = x.aborted
        /\ y.continuing = x.continuing /\ y.total = x.total /\ y.utf8 = x.utf8
        /\ y.due = x.due /\ y.peer = x.peer /\ y.proto = x.proto
    BY DEF Typed, Fields, FailConn
  <2> HIDE DEF y
  <2>2. Typed(y) /\ Placed(y)
    BY <2>1 DEF Typed, Placed
  <2>3. QED
    BY <2>1, <2>2 DEF Onward, Sound, y
<1>2. ASSUME NEW in \in {"RECVD_CHUNKED", "RECVD_CONTROL"}
      PROVE  Onward(x, [x EXCEPT !.in = in])
  <2> DEFINE y == [x EXCEPT !.in = in]
  <2>1. /\ DOMAIN y = Fields /\ y.in = in /\ y.utf8 = x.utf8
        /\ y.mode = x.mode /\ y.session = x.session /\ y.out = x.out /\ y.close = x.close
        /\ y.odd = x.odd /\ y.aborted = x.aborted /\ y.continuing = x.continuing
        /\ y.array = x.array /\ y.total = x.total
        /\ y.due = x.due /\ y.frame = x.frame /\ y.peer = x.peer /\ y.proto = x.proto
    BY DEF Typed, Fields
  <2> HIDE DEF y
  <2>2. Typed(y) /\ Placed(y)
    BY <2>1 DEF Typed, Placed, Reading
  <2>3. QED
    BY <2>1, <2>2 DEF Onward, Sound, y
<1>3. Onward(x, RecvHdr(x))
  <2> DEFINE y == RecvHdr(x)
  <2>1. x.continuing \in BOOLEAN /\ NoFrame \in Frame
    BY WordAssumption DEF Typed, NoFrame, Frame, Code
  <2>2. /\ DOMAIN y = Fields /\ y.in = "RECV_HDR" /\ y.utf8 = x.utf8
        /\ y.mode = x.mode /\ y.session = x.session /\ y.out = x.out /\ y.close = x.close
        /\ y.odd = x.odd /\ y.aborted \in {x.aborted, TRUE} /\ y.continuing = x.continuing
        /\ y.array = x.array /\ y.total \in {x.total, 0}
        /\ y.due = x.due /\ y.frame = NoFrame /\ y.peer = x.peer /\ y.proto = x.proto
    <3> DEFINE z == [x EXCEPT !.in = "RECV_HDR", !.frame = NoFrame]
    <3>1. /\ DOMAIN z = Fields /\ z.in = "RECV_HDR" /\ z.utf8 = x.utf8
          /\ z.mode = x.mode /\ z.session = x.session /\ z.out = x.out /\ z.close = x.close
          /\ z.odd = x.odd /\ z.aborted = x.aborted /\ z.continuing = x.continuing
          /\ z.array = x.array /\ z.total = x.total
          /\ z.due = x.due /\ z.frame = NoFrame /\ z.peer = x.peer /\ z.proto = x.proto
      BY DEF Typed, Fields
    <3> DEFINE u == [z EXCEPT !.total = 0]
               v == [z EXCEPT !.aborted = TRUE]
    <3>2. y = z \/ y = u \/ y = v
      BY <2>1 DEF RecvHdr, Abort
    <3> HIDE DEF z
    <3>3. /\ DOMAIN u = Fields /\ u.in = z.in /\ u.utf8 = z.utf8
          /\ u.mode = z.mode /\ u.session = z.session /\ u.out = z.out /\ u.close = z.close
          /\ u.odd = z.odd /\ u.aborted = z.aborted /\ u.continuing = z.continuing
          /\ u.array = z.array /\ u.total = 0
          /\ u.due = z.due /\ u.frame = z.frame /\ u.peer = z.peer /\ u.proto = z.proto
      BY <3>1 DEF Fields
    <3>4. /\ DOMAIN v = Fields /\ v.in = z.in /\ v.utf8 = z.utf8
          /\ v.mode = z.mode /\ v.session = z.session /\ v.out = z.out /\ v.close = z.close
          /\ v.odd = z.odd /\ v.aborted = TRUE /\ v.continuing = z.continuing
          /\ v.array = z.array /\ v.total = z.total
          /\ v.due = z.due /\ v.frame = z.frame /\ v.peer = z.peer /\ v.proto = z.proto
      BY <3>1 DEF Fields
    <3> HIDE DEF y, u, v
    <3>5. CASE y = z
      BY <3>1, <3>5
    <3>6. CASE y = u
      BY <3>1, <3>3, <3>6
    <3>7. CASE y = v
      BY <3>1, <3>4, <3>7
    <3>8. QED
      BY <3>2, <3>5, <3>6, <3>7
  <2> HIDE DEF y
  <2>3. y.aborted \in BOOLEAN /\ y.total \in Nat /\ y.frame \in Frame
    <3>1. y.aborted = x.aborted \/ y.aborted = TRUE
      BY <2>2
    <3>2. y.total = x.total \/ y.total = 0
      BY <2>2
    <3>3. x.aborted \in BOOLEAN /\ x.total \in Nat
      BY DEF Typed
    <3>4. y.aborted \in BOOLEAN
      BY <3>1, <3>3, Zenon
    <3>5. y.total \in Nat
      BY <3>2, <3>3
    <3>6. QED
      BY <2>1, <2>2, <3>4, <3>5
  <2>4. Typed(y)
    BY <2>2, <2>3 DEF Typed, Reading
  <2>5. Placed(y)
    BY <2>2 DEF Placed
  <2>6. QED
    BY <2>2, <2>4, <2>5 DEF Onward, Sound, y
<1>4. Onward(x, Chunked(x))
  BY <1>2, <1>3 DEF Chunked
<1>5. Onward(x, AcknowledgeClose(x))
  <2>1. AcknowledgeClose(x) \in {FailConn(x, why) : why \in {"NORMAL", "PROTO", "ECHO"}}
    BY DEF AcknowledgeClose
  <2>2. QED
    BY <1>1, <2>1 DEF Closes
<1>6. QED
  BY <1>1, <1>2, <1>3, <1>4, <1>5

\* A text that is checked.
LEMMA ValidateOn ==
  ASSUME NEW x, Sound(x), x.frame.payload # <<>>
  PROVE  Onward(x, ValidateUtf8(x))
<1>1. ASSUME NEW z, Sound(z), NEW buf \in Seq(Octets)
      PROVE  Onward(z, ValidateRest(z, buf))
  <2> DEFINE r == Scan(buf)
             y(u) == [z EXCEPT !.utf8 = u]
  <2>1. /\ r.result \in {"ok", "fragment", "invalid"}
        /\ r.result = "fragment" => r.rest \in Seq(Octets) /\ CodePoint(r.rest) = Fragment
    <3>1. <<>> \in Seq(Octets)
      OBVIOUS
    <3>2. QED
      BY <3>1, EmptyWellFormed, ScanText
  <2>2. \/ ValidateRest(z, buf) \in {Chunked(y(<<>>)), FailConn(y(<<>>), "INVALID_FRAME")}
        \/ /\ r.result = "fragment"
           /\ ValidateRest(z, buf) \in {FailConn(y(r.rest), "INVALID_FRAME"), RecvHdr(y(r.rest))}
    BY <2>1 DEF ValidateRest
  <2>3. /\ <<>> \in Seq(Octets) /\ Len(<<>>) <= MaxCodePoint
        /\ r.result = "fragment" => Len(r.rest) <= MaxCodePoint
    <3>1. r.result = "fragment" => Len(r.rest) \in Nat /\ Len(r.rest) < MaxCodePoint
      BY <2>1, UnfinishedFacts
    <3>2. QED
      BY <3>1 DEF MaxCodePoint
  <2>4. /\ Onward(z, y(<<>>)) /\ (r.result = "fragment" => Onward(z, y(r.rest)))
    BY <1>1, <2>1, <2>3, ChangeOn
  <2> HIDE DEF y, r
  <2>5. \A v : Onward(z, v) =>
           Onward(z, Chunked(v)) /\ Onward(z, RecvHdr(v)) /\ Onward(z, FailConn(v, "INVALID_FRAME"))
    <3> TAKE v
    <3> HAVE Onward(z, v)
    <3>1. Typed(v) /\ "INVALID_FRAME" \in Closes
      BY DEF Onward, Sound, Closes
    <3>2. /\ Onward(v, Chunked(v)) /\ Onward(v, RecvHdr(v))
          /\ Onward(v, FailConn(v, "INVALID_FRAME"))
      BY <3>1, MoveOn
    <3>3. QED
      BY <3>2, OnwardOn
  <2>6. QED
    BY <2>2, <2>4, <2>5
<1> DEFINE buf == x.frame.payload
           tried == Append(x.utf8, Head(buf))
           y == [x EXCEPT !.utf8 = tried]
           z == Odd(y, "split")
           w == Abort(Odd(y, "whole"))
<1>2. /\ buf \in Seq(Octets) /\ buf # <<>> /\ x.utf8 \in Seq(Octets) /\ Typed(x)
      /\ Len(x.utf8) <= MaxCodePoint
  BY DEF Sound, Typed, Frame
<1>3. CASE x.utf8 = <<>>
  <2>1. ValidateUtf8(x) = ValidateRest(x, buf)
    <3>1. ~(Len(<<>>) >= MaxCodePoint)
      BY DEF MaxCodePoint
    <3>2. QED
      BY <1>3, <3>1 DEF ValidateUtf8
  <2> HIDE DEF buf
  <2>2. QED
    BY <1>1, <1>2, <2>1
<1>4. CASE Len(x.utf8) >= MaxCodePoint
  <2>1. ValidateUtf8(x) = Abort(x)
    <3>1. x.utf8 # <<>> /\ ~(Len(x.utf8) < MaxCodePoint)
      BY <1>2, <1>4 DEF MaxCodePoint
    <3>2. QED
      BY <1>4, <3>1 DEF ValidateUtf8
  <2>2. QED
    BY <2>1, ChangeOn
<1>5. CASE x.utf8 # <<>> /\ ~(Len(x.utf8) >= MaxCodePoint)
  <2>1. /\ tried \in Seq(Octets) /\ tried # <<>> /\ Len(tried) <= MaxCodePoint
        /\ Tail(buf) \in Seq(Octets)
    <3>1. Head(buf) \in Octets /\ Tail(buf) \in Seq(Octets)
      BY <1>2, HeadTailProperties
    <3> HIDE DEF buf
    <3>2. tried \in Seq(Octets) /\ Len(tried) = Len(x.utf8) + 1 /\ tried # <<>>
      BY <1>2, <3>1, AppendProperties
    <3>3. Len(x.utf8) \in Nat /\ Len(x.utf8) < MaxCodePoint
      BY <1>2, <1>5 DEF MaxCodePoint
    <3>4. QED
      BY <3>1, <3>2, <3>3 DEF MaxCodePoint
  <2>2. CodePoint(tried) \in {Invalid, Fragment} \cup 1..MaxCodePoint
    BY <2>1, CodePointFacts
  <2>3. Len(x.utf8) < MaxCodePoint
    BY <1>2, <1>5 DEF MaxCodePoint
  <2> HIDE DEF tried, buf
  <2>4. ValidateUtf8(x) \in {FailConn(y, "INVALID_FRAME"), FailConn(z, "INVALID_FRAME"),
                             RecvHdr(z), RecvHdr(y), w, ValidateRest(y, Tail(buf))}
    BY <1>5, <2>2, <2>3 DEF ValidateUtf8, tried, buf, Invalid, Fragment
  <2>5. Onward(x, y)
    BY <2>1, ChangeOn
  <2> HIDE DEF y
  <2>6. Sound(y)
    BY <2>5 DEF Onward
  <2>7. Onward(y, z) /\ Onward(y, Odd(y, "whole"))
    BY <2>6, ChangeOn DEF Oddities
  <2>8. Onward(y, w)
    <3>1. Sound(Odd(y, "whole"))
      BY <2>7 DEF Onward
    <3>2. Onward(Odd(y, "whole"), Abort(Odd(y, "whole")))
      BY <3>1, ChangeOn
    <3>3. QED
      BY <2>7, <3>2, OnwardOn
  <2>9. Onward(y, ValidateRest(y, Tail(buf)))
    BY <1>1, <2>1, <2>6
  <2> HIDE DEF z, w
  <2>10. /\ Onward(y, RecvHdr(y)) /\ Onward(y, FailConn(y, "INVALID_FRAME"))
         /\ Onward(z, RecvHdr(z)) /\ Onward(z, FailConn(z, "INVALID_FRAME"))
    BY <2>6, <2>7, MoveOn DEF Onward, Sound, Closes
  <2>11. Onward(y, ValidateUtf8(x))
    BY <2>4, <2>7, <2>8, <2>9, <2>10, OnwardOn
  <2>12. QED
    BY <2>5, <2>11, OnwardOn
<1>6. QED
  BY <1>3, <1>4, <1>5

\* A frame whose header was read.
LEMMA FrameOn ==
  ASSUME NEW x, Sound(x), x.frame \in Frames,
         x.frame.opcode \in Data \cup {"PING", "PONG", "CLOSE"}
  PROVE  /\ Onward(x, [x EXCEPT !.in = "RECV_HDREXT"])
         /\ IsEmpty(x.frame) => Onward(x, Empty(x))
         /\ ~IsEmpty(x.frame) => Onward(x, Announce(x))
<1>1. Typed(x)
  BY DEF Sound
<1>2. Onward(x, [x EXCEPT !.in = "RECV_HDREXT"])
  <2> DEFINE y == [x EXCEPT !.in = "RECV_HDREXT"]
  <2>1. /\ DOMAIN y = Fields /\ y.in = "RECV_HDREXT" /\ y.utf8 = x.utf8
        /\ y.mode = x.mode /\ y.session = x.session /\ y.out = x.out /\ y.close = x.close
        /\ y.odd = x.odd /\ y.aborted = x.aborted /\ y.continuing = x.continuing
        /\ y.array = x.array /\ y.total = x.total
        /\ y.due = x.due /\ y.frame = x.frame /\ y.peer = x.peer /\ y.proto = x.proto
    BY <1>1 DEF Typed, Fields
  <2> HIDE DEF y
  <2>2. Typed(y) /\ Placed(y)
    BY <1>1, <2>1 DEF Typed, Placed, Reading
  <2>3. QED
    BY <2>1, <2>2 DEF Onward, Sound, y
<1>3. Onward(x, Empty(x))
  <2>1. Empty(x) \in {Odd(Chunked(x), "empty"), Chunked(x), [x EXCEPT !.in = "RECVD_CONTROL"],
                      AcknowledgeClose(x)}
    BY DEF Empty, Data
  <2>2. Onward(x, Chunked(x)) /\ Onward(x, AcknowledgeClose(x))
        /\ Onward(x, [x EXCEPT !.in = "RECVD_CONTROL"])
    BY <1>1, MoveOn
  <2>3. Onward(Chunked(x), Odd(Chunked(x), "empty"))
    BY <2>2, ChangeOn DEF Onward, Oddities
  <2>4. QED
    BY <2>1, <2>2, <2>3, OnwardOn
<1>4. ASSUME ~IsEmpty(x.frame) PROVE Onward(x, Announce(x))
  <2> DEFINE p == x.frame.payload
             l == Length(x.frame)
             n == Cast(x.total + l)
             z == [x EXCEPT !.total = n]
             h == Abort(Odd(x, "huge"))
             v == [x EXCEPT !.in = "RECV_PAYLOAD"]
             w == [x EXCEPT !.total = n, !.array = Append(@, p), !.in = "RECV_PAYLOAD"]
  <2>1. /\ p \in Seq(Octets) /\ x.total \in Nat /\ Limit \in Nat /\ Memory \in Nat
        /\ Word \in Nat /\ l \in Nat /\ (l <= Memory => l = Len(p))
        /\ x.array \in Seq(Seq(Octets))
    BY <1>1, BoundsAssumption, WordAssumption, LengthFacts DEF Typed, Frame
  <2>2. n \in Nat
    <3> HIDE DEF l
    <3>1. QED
      BY <2>1 DEF Cast
  <2>3. \/ x.frame.opcode \notin Data /\ Announce(x) = v
        \/ Announce(x) = FailConn(z, "TOOBIG")
        \/ Announce(x) = h
        \/ x.frame.opcode \in Data /\ l <= Memory /\ Announce(x) = w
    <3> DEFINE f == x.frame
    <3>1. Announce(x) =
             CASE f.opcode \notin Data -> v
               [] f.opcode \in Data /\ n > Limit -> FailConn(z, "TOOBIG")
               [] f.opcode \in Data /\ n <= Limit /\ l > Memory -> h
               [] f.opcode \in Data /\ n <= Limit /\ l <= Memory -> w
      BY Zenon DEF Announce
    <3>2. n > Limit \/ (n <= Limit /\ l > Memory) \/ (n <= Limit /\ l <= Memory)
      <4> HIDE DEF n, l
      <4>1. QED
        BY <2>1, <2>2
    <3> HIDE DEF n, l, z, h, v, w
    <3>3. QED
      BY <3>1, <3>2
  <2> HIDE DEF n, l
  <2>4. Onward(x, FailConn(z, "TOOBIG"))
    <3>1. Onward(x, z)
      BY <2>2, ChangeOn
    <3> HIDE DEF z
    <3>2. Onward(z, FailConn(z, "TOOBIG"))
      BY <3>1, MoveOn DEF Onward, Sound, Closes
    <3>3. QED
      BY <3>1, <3>2, OnwardOn
  <2>5. Onward(x, h)
    <3>1. Onward(x, Odd(x, "huge"))
      BY ChangeOn DEF Oddities
    <3>2. Onward(Odd(x, "huge"), h)
      BY <3>1, ChangeOn DEF Onward
    <3>3. QED
      BY <3>1, <3>2, OnwardOn
  <2>6. x.frame.opcode \notin Data => Onward(x, v)
    <3>1. /\ DOMAIN v = Fields /\ v.in = "RECV_PAYLOAD" /\ v.utf8 = x.utf8
          /\ v.mode = x.mode /\ v.session = x.session /\ v.out = x.out /\ v.close = x.close
          /\ v.odd = x.odd /\ v.aborted = x.aborted /\ v.continuing = x.continuing
          /\ v.array = x.array /\ v.total = x.total
          /\ v.due = x.due /\ v.frame = x.frame /\ v.peer = x.peer /\ v.proto = x.proto
      BY <1>1 DEF Typed, Fields
    <3> HIDE DEF v
    <3>2. x.frame.opcode \notin Data => Typed(v) /\ Placed(v)
      BY <1>1, <3>1 DEF Typed, Placed, Reading
    <3>3. QED
      BY <3>1, <3>2 DEF Onward, Sound
  <2>7. x.frame.opcode \in Data /\ l <= Memory => Onward(x, w)
    <3>1. /\ DOMAIN w = Fields /\ w.in = "RECV_PAYLOAD" /\ w.utf8 = x.utf8
          /\ w.mode = x.mode /\ w.session = x.session /\ w.out = x.out /\ w.close = x.close
          /\ w.odd = x.odd /\ w.aborted = x.aborted /\ w.continuing = x.continuing
          /\ w.array = Append(x.array, p) /\ w.total = n
          /\ w.due = x.due /\ w.frame = x.frame /\ w.peer = x.peer /\ w.proto = x.proto
      BY <1>1 DEF Typed, Fields
    <3> HIDE DEF w
    <3>2. Append(x.array, p) \in Seq(Seq(Octets))
      BY <2>1, AppendProperties
    <3>3. ASSUME x.frame.opcode \in Data, l <= Memory PROVE p # <<>>
      <4>1. x.frame.code = "none"
        BY <3>3 DEF Frames
      <4>2. Len(p) # 0
        BY <1>4, <2>1, <3>3, <4>1 DEF IsEmpty, l
      <4>3. QED
        BY <4>2
    <3>4. Typed(w)
      BY <1>1, <2>2, <3>1, <3>2 DEF Typed, Reading
    <3>5. x.frame.opcode \in Data /\ l <= Memory => Placed(w)
      BY <3>1, <3>3 DEF Placed
    <3>6. QED
      BY <3>1, <3>4, <3>5 DEF Onward, Sound
  <2>8. QED
    BY <2>3, <2>4, <2>5, <2>6, <2>7
<1>5. QED
  BY <1>2, <1>3, <1>4

\* Every step but a new connection.
LEMMA StepOn ==
  ASSUME Sound(m),
         HandshakeNext \/ StartSession \/ HdrRead \/ HdrExtRead \/ PayloadRead
         \/ Recv \/ Send \/ Sent \/ Broken \/ UNCHANGED m
  PROVE  Onward(m, m')
<1>1. Typed(m) /\ Placed(m) /\ m.continuing \in BOOLEAN
  BY DEF Sound, Typed
<1>2. CASE HandshakeNext
  <2>1. Shaken(m, m')
    BY <1>1, <1>2, HandshakeShaken
  <2>2. PICK y : y = m'
    OBVIOUS
  <2>3. Shaken(m, y)
    BY <2>1, <2>2
  <2>4. Typed(y) /\ Placed(y) /\ y.peer = m.peer /\ y.proto = m.proto /\ m.odd \subseteq y.odd
    BY <1>1, <2>3 DEF Shaken, Typed, Placed
  <2>5. QED
    BY <2>2, <2>4 DEF Onward, Sound
<1>3. CASE StartSession
  <2> DEFINE y == [m EXCEPT !.hs = "DONE", !.session = "DONE", !.broken = TRUE, !.retry = TRUE]
             z == [m EXCEPT !.hs = "DONE", !.reads = 0, !.code = "NULL",
                            !.session = "ACTIVE", !.out = "IDLE"]
  <2>1. m' = y \/ m' = RecvHdr(z)
    BY <1>3 DEF StartSession
  <2>2. /\ DOMAIN y = Fields /\ y.in = m.in /\ y.utf8 = m.utf8
        /\ y.mode = m.mode /\ y.session = "DONE" /\ y.out = m.out /\ y.close = m.close
        /\ y.odd = m.odd /\ y.aborted = m.aborted /\ y.continuing = m.continuing
        /\ y.array = m.array /\ y.total = m.total
        /\ y.due = m.due /\ y.frame = m.frame /\ y.peer = m.peer /\ y.proto = m.proto
    BY <1>1 DEF Typed, Fields
  <2>3. /\ DOMAIN z = Fields /\ z.in = m.in /\ z.utf8 = m.utf8
        /\ z.mode = m.mode /\ z.session = "ACTIVE" /\ z.out = "IDLE" /\ z.close = m.close
        /\ z.odd = m.odd /\ z.aborted = m.aborted /\ z.continuing = m.continuing
        /\ z.array = m.array /\ z.total = m.total
        /\ z.due = m.due /\ z.frame = m.frame /\ z.peer = m.peer /\ z.proto = m.proto
    BY <1>1 DEF Typed, Fields
  <2> HIDE DEF y, z
  <2>4. Typed(y) /\ Placed(y) /\ Typed(z) /\ Placed(z)
    BY <1>1, <2>2, <2>3 DEF Typed, Placed
  <2>5. Onward(m, y) /\ Onward(m, z)
    BY <2>2, <2>3, <2>4 DEF Onward, Sound
  <2>6. Onward(z, RecvHdr(z))
    BY <2>4, MoveOn
  <2>7. Onward(m, RecvHdr(z))
    BY <2>5, <2>6, OnwardOn
  <2>8. QED
    BY <2>1, <2>5, <2>7
<1>4. CASE HdrRead
  <2>1. /\ m.in = "RECV_HDR" /\ m.mode \in {"client", "server"}
    BY <1>1, <1>4 DEF HdrRead, Typed
  <2> DEFINE other == IF m.mode = "server" THEN "client" ELSE "server"
  <2>2. PICK f \in IF m.peer = "foreign" THEN AnyFrame(m.mode = "server") ELSE SentFrame(other) :
           m' = CASE Refused(m, f) -> FailConn(Noted(m, f), "PROTO")
                  [] ~Refused(m, f) /\ m.mode = "server" ->
                        [Accepted(Noted(m, f), f) EXCEPT !.in = "RECV_HDREXT"]
                  [] ~Refused(m, f) /\ m.mode = "client" ->
                        IF IsEmpty(f) THEN Empty(Accepted(Noted(m, f), f))
                        ELSE Announce(Accepted(Noted(m, f), f))
    BY <1>4 DEF HdrRead
  <2>3. f \in Frames
    <3>1. (m.mode = "server") \in BOOLEAN /\ other \in {"client", "server"}
      OBVIOUS
    <3>2. QED
      BY <3>1, FrameFacts, SentFacts
  <2> DEFINE n == Noted(m, f)
             y == Accepted(n, f)
  <2>4. /\ Typed(n) /\ n.peer = m.peer /\ n.proto = m.proto /\ m.odd \subseteq n.odd
        /\ n.in = m.in
        /\ Typed(y) /\ y.peer = m.peer /\ y.proto = m.proto /\ m.odd \subseteq y.odd
        /\ y.in = m.in /\ y.frame = f
    BY <1>1, <2>3, NotedFacts
  <2>5. \/ m' = FailConn(n, "PROTO")
        \/ ~Refused(m, f) /\ m' = [y EXCEPT !.in = "RECV_HDREXT"]
        \/ ~Refused(m, f) /\ m' = (IF IsEmpty(f) THEN Empty(y) ELSE Announce(y))
    BY <2>1, <2>2
  <2> HIDE DEF n, y
  <2>6. Placed(n) /\ Placed(y)
    BY <2>1, <2>4 DEF Placed
  <2>7. Onward(m, n) /\ Onward(m, y)
    BY <2>4, <2>6 DEF Onward, Sound
  <2>8. Onward(n, FailConn(n, "PROTO"))
    BY <2>4, MoveOn DEF Closes
  <2>9. ~Refused(m, f) => f.opcode \in Data \cup {"PING", "PONG", "CLOSE"}
    BY <2>3 DEF Refused, Frames, Frame
  <2>10. ~Refused(m, f) =>
           /\ Onward(y, [y EXCEPT !.in = "RECV_HDREXT"])
           /\ Onward(y, IF IsEmpty(f) THEN Empty(y) ELSE Announce(y))
    BY <2>3, <2>4, <2>6, <2>9, FrameOn DEF Sound
  <2>11. Onward(m, FailConn(n, "PROTO"))
    BY <2>7, <2>8, OnwardOn
  <2>12. ~Refused(m, f) => Onward(m, m')
    BY <2>5, <2>7, <2>10, <2>11, OnwardOn
  <2>13. QED
    BY <2>5, <2>11, <2>12
<1>5. CASE HdrExtRead
  <2>1. m.frame \in Frames /\ m.frame.opcode \in Data \cup {"PING", "PONG", "CLOSE"}
    BY <1>1, <1>5 DEF HdrExtRead, Placed
  <2>2. QED
    BY <1>5, <2>1, FrameOn DEF HdrExtRead
<1>6. CASE PayloadRead
  <2>1. /\ m.frame.opcode \in Data \cup {"PING", "PONG", "CLOSE"}
        /\ m.frame.opcode \in Data => m.frame.payload # <<>>
    BY <1>1, <1>6 DEF PayloadRead, Placed
  <2>2. \/ m.frame.opcode \in Data /\ m' = ValidateUtf8(m)
        \/ m' \in {Chunked(m), [m EXCEPT !.in = "RECVD_CONTROL"], AcknowledgeClose(m)}
    BY <1>6, <2>1 DEF PayloadRead, Data
  <2>3. m.frame.opcode \in Data => Onward(m, ValidateUtf8(m))
    BY <2>1, ValidateOn
  <2>4. QED
    BY <1>1, <2>2, <2>3, MoveOn
<1>7. CASE Recv
  <2> DEFINE y == [m EXCEPT !.array = <<>>, !.continuing = FALSE]
  <2>1. m' \in {RecvHdr(y), Abort(m), RecvHdr(m)}
    BY <1>7 DEF Recv
  <2>2. /\ DOMAIN y = Fields /\ y.in = m.in /\ y.utf8 = m.utf8
        /\ y.mode = m.mode /\ y.session = m.session /\ y.out = m.out /\ y.close = m.close
        /\ y.odd = m.odd /\ y.aborted = m.aborted /\ y.continuing = FALSE
        /\ y.array = <<>> /\ y.total = m.total
        /\ y.due = m.due /\ y.frame = m.frame /\ y.peer = m.peer /\ y.proto = m.proto
    BY <1>1 DEF Typed, Fields
  <2>3. <<>> \in Seq(Seq(Octets))
    OBVIOUS
  <2> HIDE DEF y
  <2>4. Typed(y) /\ Placed(y)
    BY <1>1, <2>2, <2>3 DEF Typed, Placed
  <2>5. Onward(m, y)
    BY <2>2, <2>4 DEF Onward, Sound
  <2>6. Onward(y, RecvHdr(y)) /\ Onward(m, RecvHdr(m)) /\ Onward(m, Abort(m))
    BY <1>1, <2>4, MoveOn, ChangeOn
  <2>7. Onward(m, RecvHdr(y))
    BY <2>5, <2>6, OnwardOn
  <2>8. QED
    BY <2>1, <2>6, <2>7
<1>8. CASE Send \/ Sent \/ Broken
  <2>1. /\ DOMAIN m' = Fields /\ m'.mode = m.mode /\ m'.in = m.in
        /\ m'.frame = m.frame /\ m'.continuing = m.continuing /\ m'.array = m.array
        /\ m'.total = m.total /\ m'.utf8 = m.utf8 /\ m'.close = m.close /\ m'.due = m.due
        /\ m'.odd = m.odd /\ m'.aborted = m.aborted
        /\ m'.out \in {m.out, "SENDING", "IDLE"}
        /\ m'.session \in {m.session, "DONE"} /\ m'.peer = m.peer /\ m'.proto = m.proto
    BY <1>1, <1>8 DEF Typed, Fields, Send, Sent, Broken
  <2>2. PICK y : y = m'
    OBVIOUS
  <2>3. /\ DOMAIN y = Fields /\ y.mode = m.mode /\ y.in = m.in
        /\ y.frame = m.frame /\ y.continuing = m.continuing /\ y.array = m.array
        /\ y.total = m.total /\ y.utf8 = m.utf8 /\ y.close = m.close /\ y.due = m.due
        /\ y.odd = m.odd /\ y.aborted = m.aborted
        /\ y.out \in {m.out, "SENDING", "IDLE"}
        /\ y.session \in {m.session, "DONE"} /\ y.peer = m.peer /\ y.proto = m.proto
    BY <2>1, <2>2
  <2>4. Typed(y) /\ Placed(y)
    BY <1>1, <2>3 DEF Typed, Placed
  <2>5. QED
    BY <2>2, <2>3, <2>4 DEF Onward, Sound
<1>9. CASE UNCHANGED m
  BY <1>9, ChangeOn
<1>10. QED
  BY <1>2, <1>3, <1>4, <1>5, <1>6, <1>7, <1>8, <1>9

-----------------------------------------------------------------------------
(* A session and the connections it goes through.                           *)

\* Nothing of another connection was left when this one was made.
Clean(x) == "left" \notin x.odd

\* The invariant of every session.
Inv(x) ==
    Sound(x) /\ x.proto \in Sockets /\ x.peer \in Peer /\ (Clean(x) => Kept(x))

\* The session of a client goes on with what it has.
LEMMA ReconnectFacts ==
  ASSUME Typed(m), m.proto \in Sockets, Reconnect
  PROVE  /\ Sound(m') /\ m'.proto \in Sockets /\ m'.peer \in Peer
         /\ Clean(m') => Kept(m')
         /\ m'.session = "HANDSHAKE" /\ m'.hs = "CLIENT_SEND" /\ ~m'.aborted
         /\ m'.frame.fin /\ m'.close = "NO" /\ (Clean(m') => m'.odd = {})
<1> DEFINE odd2 == IF LeftOver(m) THEN {"left"} ELSE {}
           type == IF m.continuing THEN m.type ELSE "NONE"
           total == IF m.continuing THEN m.total ELSE 0
<1>1. PICK peer \in Peer :
         m' = [Joined(Started("client", m.proto, peer), m)
                 EXCEPT !.odd = odd2,
                        !.type = IF m.continuing THEN @ ELSE "NONE",
                        !.total = IF m.continuing THEN @ ELSE 0,
                        !.out = "NULL", !.in = "NULL",
                        !.frame = NoFrame, !.close = "NO", !.due = <<>>]
  BY DEF Reconnect
<1>2. PICK j : j = Joined(Started("client", m.proto, peer), m)
  OBVIOUS
<1>3. StartedOver(j, "client", m.proto, peer, m)
  BY <1>2, JoinedFacts, Zenon
<1>4. DOMAIN m = Fields /\ Early \subseteq Fields
  BY DEF Typed, Fields, Early
<1>5. /\ DOMAIN j = Fields /\ j.mode = "client" /\ j.proto = m.proto /\ j.peer = peer
      /\ j.session = "HANDSHAKE" /\ j.hs = "CLIENT_SEND" /\ j.odd = {} /\ j.aborted = FALSE
      /\ j.continuing = m.continuing /\ j.array = m.array /\ j.utf8 = m.utf8
      /\ j.total = m.total /\ j.type = m.type
  <2>1. /\ DOMAIN j = Early \cup DOMAIN m
        /\ j.mode = "client" /\ j.proto = m.proto /\ j.peer = peer
        /\ j.session = "HANDSHAKE" /\ j.hs = "CLIENT_SEND" /\ j.odd = {} /\ j.aborted = FALSE
        /\ \A k \in DOMAIN m : k \notin Early => j[k] = m[k]
    BY <1>3 DEF StartedOver
  <2>2. /\ "continuing" \in DOMAIN m /\ "array" \in DOMAIN m /\ "utf8" \in DOMAIN m
        /\ "total" \in DOMAIN m /\ "type" \in DOMAIN m
    BY <1>4 DEF Fields
  <2>3. /\ "continuing" \notin Early /\ "array" \notin Early /\ "utf8" \notin Early
        /\ "total" \notin Early /\ "type" \notin Early
    BY DEF Early
  <2>4. DOMAIN j = Fields
    BY <1>4, <2>1
  <2>5. QED
    BY <2>1, <2>2, <2>3, <2>4
<1>6. PICK y : y = m'
  OBVIOUS
<1> HIDE DEF odd2
<1>7. /\ DOMAIN y = Fields /\ y.mode = "client" /\ y.proto = m.proto /\ y.peer = peer
      /\ y.session = "HANDSHAKE" /\ y.hs = "CLIENT_SEND" /\ y.odd = odd2 /\ y.aborted = FALSE
      /\ y.continuing = m.continuing /\ y.array = m.array /\ y.utf8 = m.utf8
      /\ y.total = total /\ y.out = "NULL" /\ y.in = "NULL" /\ y.frame = NoFrame
      /\ y.close = "NO" /\ y.due = <<>>
  <2>1. y = [j EXCEPT !.odd = odd2,
                      !.type = IF m.continuing THEN @ ELSE "NONE",
                      !.total = IF m.continuing THEN @ ELSE 0,
                      !.out = "NULL", !.in = "NULL",
                      !.frame = NoFrame, !.close = "NO", !.due = <<>>]
    BY <1>1, <1>2, <1>6
  <2>2. QED
    BY <1>5, <2>1 DEF Fields
<1>8. /\ NoFrame \in Frame /\ NoFrame.fin /\ <<>> \in Seq(Octets) /\ total \in Nat
      /\ odd2 \subseteq Oddities /\ m.continuing \in BOOLEAN /\ "NO" \in Closes
  <2>1. NoFrame \in Frame /\ NoFrame.fin
    BY WordAssumption DEF NoFrame, Frame, Code
  <2>2. total \in Nat /\ m.continuing \in BOOLEAN
    BY DEF Typed
  <2>3. odd2 \subseteq Oddities /\ "NO" \in Closes
    BY DEF odd2, Oddities, Closes
  <2>4. QED
    BY <2>1, <2>2, <2>3
<1> HIDE DEF total
<1>9. Typed(y) /\ Placed(y)
  <2>1. Typed(y)
    BY <1>7, <1>8 DEF Typed
  <2>2. Placed(y)
    BY <1>7 DEF Placed
  <2>3. QED
    BY <2>1, <2>2
<1>10. ASSUME Clean(y) PROVE y.odd = {} /\ Kept(y)
  <2>1. ~LeftOver(m)
    BY <1>7, <1>10 DEF Clean, odd2
  <2>2. ~m.continuing /\ m.array = <<>> /\ m.utf8 = <<>>
    BY <1>8, <2>1 DEF LeftOver
  <2>3. y.odd = {} /\ Fresh(y)
    BY <1>7, <2>1, <2>2 DEF Fresh, odd2, total
  <2>4. QED
    BY <1>7, <1>9, <2>3 DEF Kept, Refuted
<1>11. QED
  BY <1>6, <1>7, <1>8, <1>9, <1>10 DEF Sound

\* Every step keeps the invariant.
LEMMA NextInv ==
  ASSUME Inv(m), [Next]_m
  PROVE  Inv(m')
<1>1. CASE Reconnect
  <2>1. Typed(m) /\ m.proto \in Sockets
    BY DEF Inv, Sound
  <2>2. QED
    BY <1>1, <2>1, ReconnectFacts DEF Inv
<1>2. CASE \/ HandshakeNext \/ StartSession \/ HdrRead \/ HdrExtRead \/ PayloadRead
           \/ Recv \/ Send \/ Sent \/ Broken \/ UNCHANGED m
  <2>1. Onward(m, m')
    BY <1>2, StepOn DEF Inv
  <2>2. Clean(m') => Clean(m)
    BY <2>1 DEF Onward, Clean
  <2>3. Kept(m) => Kept(m')
    <3>1. CASE HandshakeNext
      <4>1. ASSUME Kept(m) PROVE Kept(m')
        <5>1. m.session = "HANDSHAKE" /\ Shaken(m, m')
          BY <3>1, <4>1, HandshakeShaken DEF Kept
        <5>2. QED
          BY <4>1, <5>1, ShakenKept
      <4>2. QED
        BY <4>1
    <3>2. CASE StartSession
      BY <3>2, StartKept
    <3>3. CASE HdrRead
      BY <3>3, HdrReadKept
    <3>4. CASE HdrExtRead
      BY <3>4, HdrExtReadKept
    <3>5. CASE PayloadRead
      BY <3>5, PayloadReadKept
    <3>6. CASE Recv
      BY <3>6, RecvKept
    <3>7. CASE Send \/ Sent \/ Broken
      BY <3>7, SendingKept
    <3>8. CASE UNCHANGED m
      BY <3>8
    <3>9. QED
      BY <1>2, <3>1, <3>2, <3>3, <3>4, <3>5, <3>6, <3>7, <3>8
  <2>4. QED
    BY <2>1, <2>2, <2>3 DEF Inv, Onward
<1>3. QED
  BY <1>1, <1>2 DEF Next

\* It holds at the start.
LEMMA InitInv == Init => Inv(m)
<1>1. SUFFICES ASSUME Init PROVE Inv(m)
  OBVIOUS
<1>2. Kept(m) /\ m.proto \in Sockets /\ m.peer \in Peer /\ m.in = "NULL"
  BY <1>1, InitFacts
<1>3. Sound(m)
  BY <1>2 DEF Kept, Sound, Placed
<1>4. QED
  BY <1>2, <1>3 DEF Inv

\* What a run checks follows from it.
LEMMA InvImplies ==
  ASSUME Inv(m)
  PROVE  NeverAborts /\ Reassembled /\ TextChecked
<1>1. NeverAborts
  <2>1. CASE Clean(m)
    BY <2>1 DEF Inv, Kept, Known, NeverAborts
  <2>2. CASE ~Clean(m)
    BY <2>2 DEF Clean, NeverAborts
  <2>3. QED
    BY <2>1, <2>2
<1>2. TypeOK
  BY DEF Inv, Sound, Typed, TypeOK, Reading, Closes, Oddities
<1>3. ASSUME Kept(m), m.session = "ACTIVE", m.in = "RECVD_CHUNKED" PROVE Whole(m)
  BY <1>3 DEF Kept, Where
<1>4. Reassembled
  <2>1. ASSUME m.odd \cap {"left", "cut"} = {}
        PROVE  /\ m.session = "ACTIVE" => m.total <= Limit
               /\ m.session = "ACTIVE" /\ m.in = "RECVD_CHUNKED" => FlattenSeq(m.array) = m.due
    <3>1. Kept(m) /\ "cut" \notin m.odd
      BY <2>1 DEF Inv, Clean
    <3>2. QED
      BY <1>3, <3>1 DEF Kept, Whole, Gathered
  <2>2. QED
    BY <1>2, <2>1 DEF Reassembled
<1>5. TextChecked
  <2>1. ASSUME m.odd \cap {"split", "empty", "left", "cut"} = {}
        PROVE  /\ m.session = "ACTIVE" /\ m.in = "RECVD_CHUNKED" /\ m.type = "TEXT"
                     => WellFormed(m.due)
               /\ Refuted(m)
    <3>1. Kept(m) /\ Sober(m)
      BY <2>1 DEF Inv, Clean, Sober
    <3>2. QED
      BY <1>3, <3>1 DEF Kept, Whole
  <2>2. QED
    BY <2>1 DEF TextChecked, Refuted
<1>6. QED
  BY <1>1, <1>4, <1>5

\* The invariant holds always.
LEMMA Always == Spec => []Inv(m)
<1>1. Init => Inv(m)
  BY InitInv
<1>2. Inv(m) /\ [Next]_m => Inv(m)'
  BY NextInv
<1>3. QED
  BY <1>1, <1>2, PTL DEF Spec

\* Whatever a peer sends, only the assertions that are known to fail do (sws.c and
\* ws_handshake.c, nn_assert).
THEOREM SpecNeverAborts == Spec => []NeverAborts
<1>1. Inv(m) => NeverAborts
  BY InvImplies
<1>2. QED
  BY <1>1, Always, PTL

\* Messages are handed over as they were sent, and none is longer than NN_RCVMAXSIZE
\* (sws.c, inmsg_array and inmsg_total_size), but in a session that began with what
\* another connection left, and where a length was cut.
THEOREM SpecReassembled == Spec => []Reassembled
<1>1. Inv(m) => Reassembled
  BY InvImplies
<1>2. QED
  BY <1>1, Always, PTL

\* A text is handed over only when it is UTF-8, and refused only when it is none
\* (nn_sws_validate_utf8_chunk), but for what is known to go wrong.
THEOREM SpecTextChecked == Spec => []TextChecked
<1>1. Inv(m) => TextChecked
  BY InvImplies
<1>2. QED
  BY <1>1, Always, PTL

-----------------------------------------------------------------------------
(* Two sockets of the library.                                              *)

\* What a server answers a client of the library.
Answer(proto, peer) == ParseOpening(proto, ClientRequest(peer))

\* The two may talk, or one of them does not know that they may not.
Matched(x) == Compatible(x.proto, x.peer) \/ "rejected" \in x.odd

\* No assertion failed, and no frame was a part of a message.
Quiet(x) == ~x.aborted /\ x.frame.fin /\ x.odd \subseteq {"rejected", "raw"}

\* The session talks, and no message is in the making between two frames.
Talking(x) ==
    /\ Typed(x) /\ x.session = "ACTIVE" /\ x.close = "NO" /\ Quiet(x) /\ Matched(x)
    /\ ~x.continuing /\ x.utf8 = <<>>

\* A frame is a message, or something else that the user meant to send.
AtFrame(x) ==
    \/ x.frame.opcode \in {"TEXT", "BINARY"}
    \/ x.frame.opcode \in {"PING", "PONG", "CLOSE"} /\ "raw" \in x.odd

\* The message is the first since the one before was handed over, and when it is too
\* long for the memory it is too long for the receiver.
Fits(x) ==
    /\ x.frame \in Frames /\ x.frame.excess = 0
    /\ x.frame.opcode \in Data =>
          /\ x.total = 0 /\ x.due = x.frame.payload
          /\ Len(x.due) <= Memory \/ Len(x.due) = Limit + 1

\* Why an end failed the connection.
Justified(x) ==
    /\ x.close = "TOOBIG" => Len(x.due) > Limit
    /\ x.close \in {"PROTO", "NORMAL", "ECHO"} => "raw" \in x.odd

\* The invariant of two sockets of the library.
Own(x) ==
    x.peer # "foreign" /\ Clean(x) =>
        /\ Quiet(x) /\ Justified(x)
        /\ x.session = "HANDSHAKE" =>
              /\ x.hs = "SERVER_REPLY" => x.code = Answer(x.proto, x.peer)
              /\ x.hs = "STOPPING_TIMER_DONE" => Matched(x)
        /\ x.session = "ACTIVE" =>
              /\ Talking(x)
              /\ x.in \in {"RECV_HDREXT", "RECV_PAYLOAD"} => AtFrame(x)
              /\ x.in = "RECV_HDREXT" => Fits(x)

\* An answer is never nothing, and it is "OK" only to the socket that may connect.
LEMMA AnswerFacts ==
  ASSUME NEW proto \in Sockets, NEW peer \in Sockets
  PROVE  /\ Answer(proto, peer) \in {"UNKNOWNTYPE", "NOTPEER", "OK"}
         /\ Answer(proto, peer) = "OK" => Compatible(proto, peer) /\ Compatible(peer, proto)
<1>1. proto \in Protocol /\ peer \in Protocol
  BY SocketsAssumption
<1>2. \A p, q \in Protocol : ClientOf[p] = q => ClientOf[q] = p
  BY DEF Protocol, ClientOf
<1>3. \E p \in Protocol : ClientOf[p] = peer
  BY <1>1 DEF Protocol, ClientOf
<1> DEFINE sp == CHOOSE p \in Protocol : ClientOf[p] = peer
<1>4. sp \in Protocol /\ ClientOf[sp] = peer
  BY <1>3
<1> HIDE DEF sp
<1>5. sp # "unknown" /\ sp # "none"
  BY <1>4 DEF Protocol, ClientOf
<1> DEFINE o == ClientRequest(peer)
<1>6. o.line = TRUE /\ o.required = TRUE /\ o.version = TRUE /\ o.upgrade = TRUE /\ o.sp = sp
  BY DEF ClientRequest, sp
<1> HIDE DEF o
<1>7. Answer(proto, peer) = IF sp = proto THEN "OK" ELSE "NOTPEER"
  BY <1>4, <1>5, <1>6 DEF Answer, ParseOpening, o
<1>8. QED
  BY <1>1, <1>2, <1>4, <1>7 DEF Compatible

\* A connection is failed.
LEMMA FailConnOwn ==
  ASSUME NEW x, Typed(x), Quiet(x), NEW why \in Closes,
         why = "TOOBIG" => Len(x.due) > Limit,
         why \in {"PROTO", "NORMAL", "ECHO"} => "raw" \in x.odd
  PROVE  Own(FailConn(x, why))
<1> DEFINE y == FailConn(x, why)
<1>1. /\ y.close = why /\ y.session = (IF x.out = "IDLE" THEN "CLOSING_CONNECTION" ELSE "DONE")
      /\ y.frame = x.frame /\ y.odd = x.odd /\ y.aborted = x.aborted /\ y.due = x.due
  BY DEF Typed, Fields, FailConn
<1> HIDE DEF y
<1>2. QED
  BY <1>1 DEF Own, Quiet, Justified, y

\* The session waits for something else.
LEMMA WaitsOwn ==
  ASSUME NEW x, Talking(x), NEW in \in Reading,
         in \in {"RECV_HDREXT", "RECV_PAYLOAD"} => AtFrame(x),
         in = "RECV_HDREXT" => Fits(x)
  PROVE  Own([x EXCEPT !.in = in])
<1> DEFINE y == [x EXCEPT !.in = in]
<1>1. /\ DOMAIN y = Fields /\ y.in = in /\ y.peer = x.peer /\ y.proto = x.proto
      /\ y.mode = x.mode /\ y.session = x.session /\ y.out = x.out /\ y.close = x.close
      /\ y.odd = x.odd /\ y.aborted = x.aborted /\ y.continuing = x.continuing
      /\ y.type = x.type /\ y.array = x.array /\ y.total = x.total /\ y.utf8 = x.utf8
      /\ y.due = x.due /\ y.frame = x.frame
  BY DEF Talking, Typed, Fields
<1> HIDE DEF y
<1>2. Typed(y)
  BY <1>1 DEF Talking, Typed
<1>3. Talking(y)
  BY <1>1, <1>2 DEF Talking, Quiet, Matched
<1>4. (AtFrame(x) => AtFrame(y)) /\ (Fits(x) => Fits(y))
  BY <1>1 DEF AtFrame, Fits
<1>5. Justified(y)
  BY <1>3 DEF Justified, Talking
<1>6. QED
  BY <1>1, <1>3, <1>4, <1>5 DEF Own, Talking, y

\* The next header is read.
LEMMA RecvHdrOwn ==
  ASSUME NEW x, Talking(x), x.array = <<>>
  PROVE  Own(RecvHdr(x))
<1> DEFINE y == RecvHdr(x)
<1>1. NoFrame \in Frame /\ NoFrame.fin
  BY WordAssumption DEF NoFrame, Frame, Code
<1>2. y = [x EXCEPT !.in = "RECV_HDR", !.frame = NoFrame, !.total = 0]
  BY DEF RecvHdr, Talking, Typed, Fields
<1> HIDE DEF y
<1>3. /\ DOMAIN y = Fields /\ y.in = "RECV_HDR" /\ y.peer = x.peer /\ y.proto = x.proto
      /\ y.mode = x.mode /\ y.session = x.session /\ y.out = x.out /\ y.close = x.close
      /\ y.odd = x.odd /\ y.aborted = x.aborted /\ y.continuing = x.continuing
      /\ y.type = x.type /\ y.array = x.array /\ y.total = 0 /\ y.utf8 = x.utf8
      /\ y.due = x.due /\ y.frame = NoFrame
  BY <1>2 DEF Talking, Typed, Fields
<1>4. Typed(y)
  BY <1>1, <1>3 DEF Talking, Typed, Reading
<1>5. Talking(y)
  BY <1>1, <1>3, <1>4 DEF Talking, Quiet, Matched
<1>6. Justified(y)
  BY <1>5 DEF Justified, Talking
<1>7. QED
  BY <1>3, <1>5, <1>6 DEF Own, Talking, y

\* A close frame, which no message is.
LEMMA AcknowledgeOwn ==
  ASSUME NEW x, Talking(x), "raw" \in x.odd
  PROVE  Own(AcknowledgeClose(x))
<1>1. \A why \in {"NORMAL", "PROTO", "ECHO"} : Own(FailConn(x, why))
  BY FailConnOwn DEF Talking, Closes
<1>2. AcknowledgeClose(x) \in {FailConn(x, why) : why \in {"NORMAL", "PROTO", "ECHO"}}
  BY DEF AcknowledgeClose
<1>3. QED
  BY <1>1, <1>2

\* A frame that is whole with its header.
LEMMA EmptyOwn ==
  ASSUME NEW x, Talking(x), AtFrame(x)
  PROVE  Own(Empty(x))
<1>1. x.frame.fin /\ x.utf8 = <<>>
  BY DEF Talking, Quiet
<1>2. CASE x.frame.opcode \in {"TEXT", "BINARY"}
  <2>1. Empty(x) = [x EXCEPT !.in = "RECVD_CHUNKED"]
    BY <1>1, <1>2 DEF Empty, Chunked, Data
  <2>2. QED
    BY <2>1, WaitsOwn DEF Reading
<1>3. CASE x.frame.opcode \in {"PING", "PONG"}
  <2>1. Empty(x) = [x EXCEPT !.in = "RECVD_CONTROL"]
    BY <1>3 DEF Empty, Data
  <2>2. QED
    BY <2>1, WaitsOwn DEF Reading
<1>4. CASE x.frame.opcode = "CLOSE"
  <2>1. Empty(x) = AcknowledgeClose(x) /\ "raw" \in x.odd
    BY <1>4 DEF Empty, Data, AtFrame
  <2>2. QED
    BY <2>1, AcknowledgeOwn
<1>5. QED
  BY <1>2, <1>3, <1>4 DEF AtFrame

\* A length: what is too long is failed, and the rest can be allocated.
LEMMA AnnounceOwn ==
  ASSUME NEW x, Talking(x), AtFrame(x), Fits(x)
  PROVE  Own(Announce(x))
<1> DEFINE p == x.frame.payload
           l == Length(x.frame)
           n == Cast(x.total + l)
           z == [x EXCEPT !.total = n]
           v == [x EXCEPT !.in = "RECV_PAYLOAD"]
           w == [x EXCEPT !.total = n, !.array = Append(@, p), !.in = "RECV_PAYLOAD"]
<1>1. /\ Typed(x) /\ p \in Seq(Octets) /\ Len(p) \in Nat /\ Len(p) < Word /\ l = Len(p)
      /\ Limit \in Nat /\ Memory \in Nat /\ Word \in Nat
  BY LengthFacts, BoundsAssumption, WordAssumption DEF Talking, Fits, Frames, Frame
<1>2. Own(v)
  BY WaitsOwn DEF Reading
<1>3. CASE x.frame.opcode \notin Data
  <2>1. Announce(x) = v
    BY <1>3 DEF Announce
  <2>2. QED
    BY <1>2, <2>1
<1>4. CASE x.frame.opcode \in Data
  <2>1. x.total = 0 /\ x.due = p /\ (Len(p) <= Memory \/ Len(p) = Limit + 1)
    BY <1>4 DEF Fits
  <2>2. n = Len(p)
    <3> HIDE DEF l, p
    <3>1. QED
      BY <1>1, <2>1 DEF Cast
  <2> DEFINE f == x.frame
  <2>3. Announce(x) =
           CASE f.opcode \notin Data -> v
             [] f.opcode \in Data /\ n > Limit -> FailConn(z, "TOOBIG")
             [] f.opcode \in Data /\ n <= Limit /\ l > Memory -> Abort(Odd(x, "huge"))
             [] f.opcode \in Data /\ n <= Limit /\ l <= Memory -> w
    BY Zenon DEF Announce
  <2>4. n \in Nat /\ n = l /\ (n > Limit \/ (n <= Limit /\ n <= Memory))
    <3> HIDE DEF n, l, p
    <3>1. QED
      BY <1>1, <2>1, <2>2
  <2>5. (Announce(x) = FailConn(z, "TOOBIG") /\ n > Limit) \/ Announce(x) = w
    <3> HIDE DEF n, l, p, z, v, w
    <3>1. QED
      BY <1>1, <1>4, <2>3, <2>4
  <2>6. n > Limit => Own(FailConn(z, "TOOBIG"))
    <3> HIDE DEF n
    <3>1. /\ DOMAIN z = Fields /\ z.in = x.in /\ z.utf8 = x.utf8
          /\ z.mode = x.mode /\ z.session = x.session /\ z.out = x.out /\ z.close = x.close
          /\ z.odd = x.odd /\ z.aborted = x.aborted /\ z.continuing = x.continuing
          /\ z.array = x.array /\ z.total = n
          /\ z.due = x.due /\ z.frame = x.frame
      BY <1>1 DEF Typed, Fields
    <3> HIDE DEF z
    <3>2. Typed(z) /\ Quiet(z)
      BY <1>1, <2>4, <3>1 DEF Typed, Quiet, Talking
    <3>3. n > Limit => Len(z.due) > Limit
      BY <2>1, <2>2, <3>1
    <3>4. QED
      BY <3>2, <3>3, FailConnOwn DEF Closes
  <2>7. Own(w)
    <3> HIDE DEF n
    <3>1. /\ DOMAIN w = Fields /\ w.in = "RECV_PAYLOAD" /\ w.utf8 = x.utf8
          /\ w.peer = x.peer /\ w.proto = x.proto
          /\ w.mode = x.mode /\ w.session = x.session /\ w.out = x.out /\ w.close = x.close
          /\ w.odd = x.odd /\ w.aborted = x.aborted /\ w.continuing = x.continuing
          /\ w.array = Append(x.array, p) /\ w.total = n
          /\ w.due = x.due /\ w.frame = x.frame
      BY <1>1 DEF Typed, Fields
    <3> HIDE DEF w
    <3>2. Append(x.array, p) \in Seq(Seq(Octets))
      BY <1>1, AppendProperties DEF Typed
    <3>3. Typed(w)
      BY <1>1, <2>4, <3>1, <3>2 DEF Typed, Reading
    <3>4. Talking(w) /\ AtFrame(w)
      BY <3>1, <3>3 DEF Talking, Quiet, Matched, AtFrame
    <3>5. Justified(w)
      BY <3>4 DEF Justified, Talking
    <3>6. QED
      BY <3>1, <3>4, <3>5 DEF Own, Talking
  <2>8. QED
    BY <2>5, <2>6, <2>7
<1>5. QED
  BY <1>3, <1>4

\* A text: it is in one frame, and it is handed over or the connection is failed.
LEMMA ValidateOwn ==
  ASSUME NEW x, Talking(x)
  PROVE  Own(ValidateUtf8(x))
<1> DEFINE buf == x.frame.payload
           r == Scan(buf)
           y(u) == [x EXCEPT !.utf8 = u]
<1>1. /\ Typed(x) /\ x.utf8 = <<>> /\ x.frame.fin /\ buf \in Seq(Octets)
  BY DEF Talking, Quiet, Typed, Frame
<1>2. ValidateUtf8(x) = ValidateRest(x, buf)
  <2>1. ~(Len(<<>>) >= MaxCodePoint)
    BY DEF MaxCodePoint
  <2>2. QED
    BY <1>1, <2>1 DEF ValidateUtf8
<1>3. /\ r.result \in {"ok", "fragment", "invalid"}
      /\ r.result = "fragment" => r.rest \in Seq(Octets) /\ CodePoint(r.rest) = Fragment
  <2>1. <<>> \in Seq(Octets)
    OBVIOUS
  <2> HIDE DEF buf
  <2>2. QED
    BY <1>1, <2>1, EmptyWellFormed, ScanText
<1>4. ASSUME NEW u \in Seq(Octets), Len(u) <= MaxCodePoint
      PROVE  /\ Typed(y(u)) /\ Quiet(y(u)) /\ y(u).frame = x.frame
             /\ u = <<>> => Talking(y(u))
  <2> DEFINE z == y(u)
  <2>1. /\ DOMAIN z = Fields /\ z.in = x.in /\ z.utf8 = u /\ z.peer = x.peer
        /\ z.proto = x.proto
        /\ z.mode = x.mode /\ z.session = x.session /\ z.out = x.out /\ z.close = x.close
        /\ z.odd = x.odd /\ z.aborted = x.aborted /\ z.continuing = x.continuing
        /\ z.array = x.array /\ z.total = x.total
        /\ z.due = x.due /\ z.frame = x.frame
    BY <1>1 DEF Typed, Fields
  <2> HIDE DEF z
  <2>2. Typed(z)
    BY <1>1, <1>4, <2>1 DEF Typed
  <2>3. Quiet(z) /\ (u = <<>> => Talking(z))
    BY <2>1, <2>2 DEF Talking, Quiet, Matched
  <2>4. QED
    BY <2>1, <2>2, <2>3 DEF z
<1>5. ASSUME NEW u \in Seq(Octets), Len(u) <= MaxCodePoint
      PROVE  Own(FailConn(y(u), "INVALID_FRAME"))
  <2>1. Typed(y(u)) /\ Quiet(y(u))
    BY <1>4, <1>5
  <2> HIDE DEF y
  <2>2. QED
    BY <2>1, FailConnOwn DEF Closes
<1>6. Own(Chunked(y(<<>>)))
  <2>1. Talking(y(<<>>)) /\ y(<<>>).frame.fin
    <3>1. <<>> \in Seq(Octets) /\ Len(<<>>) <= MaxCodePoint
      BY DEF MaxCodePoint
    <3>2. QED
      BY <1>1, <1>4, <3>1
  <2> HIDE DEF y
  <2>2. QED
    BY <2>1, WaitsOwn DEF Chunked, Reading
<1>7. /\ <<>> \in Seq(Octets) /\ Len(<<>>) <= MaxCodePoint
      /\ r.result = "fragment" => Len(r.rest) <= MaxCodePoint
  <2>1. r.result = "fragment" => Len(r.rest) \in Nat /\ Len(r.rest) < MaxCodePoint
    BY <1>3, UnfinishedFacts
  <2>2. QED
    BY <2>1 DEF MaxCodePoint
<1>8. \/ ValidateRest(x, buf) \in {Chunked(y(<<>>)), FailConn(y(<<>>), "INVALID_FRAME")}
      \/ r.result = "fragment" /\ ValidateRest(x, buf) = FailConn(y(r.rest), "INVALID_FRAME")
  <2>1. [x EXCEPT !.utf8 = r.rest].frame = x.frame \/ r.result # "fragment"
    BY <1>1 DEF Typed, Fields
  <2>2. QED
    BY <1>1, <1>3 DEF ValidateRest
<1> HIDE DEF y, r, buf
<1>9. QED
  BY <1>2, <1>3, <1>5, <1>6, <1>7, <1>8

\* The handshake of two sockets of the library: the client is told what the server finds.
LEMMA HandshakeOwn ==
  ASSUME Inv(m), Own(m), Clean(m), HandshakeNext, MaxReads >= 1, m.peer # "foreign"
  PROVE  Own(m')
<1>1. /\ Typed(m) /\ m.session = "HANDSHAKE" /\ ~m.aborted /\ m.close = "NO"
      /\ m.proto \in Sockets /\ m.peer \in Sockets /\ Quiet(m)
      /\ m.hs = "SERVER_REPLY" => m.code = Answer(m.proto, m.peer)
      /\ m.hs = "STOPPING_TIMER_DONE" => Matched(m)
  <2>1. Typed(m) /\ Kept(m) /\ m.proto \in Sockets /\ m.peer \in Sockets
    BY DEF Inv, Sound, Peer
  <2>2. m.session = "HANDSHAKE"
    BY <2>1, HandshakeShaken
  <2>3. QED
    BY <2>1, <2>2 DEF Kept, Fresh, Own, Quiet
<1> DEFINE Goes(h, c, o, s) ==
             /\ m'.peer = m.peer /\ m'.proto = m.proto /\ m'.frame = m.frame
             /\ m'.aborted = m.aborted /\ m'.close = "NO"
             /\ m'.hs = h /\ m'.code = c /\ m'.odd = o /\ m'.session = s
<1>2. ASSUME NEW h, NEW c, NEW o, NEW s, s \in {"HANDSHAKE", "DONE"}, Goes(h, c, o, s),
             o = m.odd \/ o = m.odd \cup {"rejected"},
             h = "SERVER_REPLY" => c = Answer(m.proto, m.peer),
             h = "STOPPING_TIMER_DONE" =>
                Compatible(m.proto, m.peer) \/ "rejected" \in o
      PROVE  Own(m')
  <2>7. PICK y : y = m'
    OBVIOUS
  <2>1. /\ y = m' /\ y.peer = m.peer /\ y.proto = m.proto /\ y.frame = m.frame
        /\ y.aborted = m.aborted /\ y.close = "NO"
        /\ y.hs = h /\ y.code = c /\ y.odd = o /\ y.session = s
    BY <1>2, <2>7
  <2>2. Quiet(y)
    BY <1>1, <1>2, <2>1 DEF Quiet
  <2>3. Justified(y)
    BY <2>1 DEF Justified
  <2>4. (h = "STOPPING_TIMER_DONE" => Matched(y))
    BY <1>2, <2>1 DEF Matched
  <2>5. Own(y)
    BY <1>2, <2>1, <2>2, <2>3, <2>4 DEF Own
  <2>6. QED
    BY <2>1, <2>5
<1> HIDE DEF Goes
<1>3. CASE OpeningRead
  <2> DEFINE c == Answer(m.proto, m.peer)
  <2>1. m' = Reply(m, c)
    <3> DEFINE o == ClientRequest(m.peer)
    <3>1. /\ o.rest = FALSE
          /\ m' = IF o.rest /\ o.line THEN Abort(Odd(m, "rest"))
                  ELSE Reply(m, ParseOpening(m.proto, o))
      BY <1>1, <1>3 DEF OpeningRead, ClientRequest
    <3>2. QED
      BY <3>1 DEF Answer
  <2>2. c # "NULL"
    BY <1>1, AnswerFacts
  <2> HIDE DEF c
  <2>3. m' = [m EXCEPT !.hs = "SERVER_REPLY", !.code = c]
    BY <2>1, <2>2 DEF Reply
  <2>4. Goes("SERVER_REPLY", c, m.odd, "HANDSHAKE")
    BY <1>1, <2>3 DEF Typed, Fields, Goes
  <2>5. QED
    BY <1>2, <2>4 DEF c
<1>4. CASE ReplySent
  <2>1. m.code = Answer(m.proto, m.peer)
    BY <1>1, <1>4 DEF ReplySent
  <2>2. m.code = "OK" => Compatible(m.proto, m.peer)
    BY <1>1, <2>1, AnswerFacts
  <2> DEFINE strange == m.odd \cup (IF m.code = "OK" THEN {} ELSE {"rejected"})
  <2>3. m' = [m EXCEPT !.hs = "STOPPING_TIMER_DONE", !.odd = strange]
    BY <1>4 DEF ReplySent
  <2>4. /\ m.code # "OK" => "rejected" \in strange
        /\ strange = m.odd \/ strange = m.odd \cup {"rejected"}
    OBVIOUS
  <2> HIDE DEF strange
  <2>5. Goes("STOPPING_TIMER_DONE", m.code, strange, "HANDSHAKE")
    BY <1>1, <2>3 DEF Typed, Fields, Goes
  <2>6. QED
    BY <1>2, <2>2, <2>4, <2>5
<1>5. CASE RequestSent
  <2>1. Goes("CLIENT_RECV", m.code, m.odd, "HANDSHAKE")
    BY <1>1, <1>5 DEF RequestSent, Typed, Fields, Goes
  <2>2. QED
    BY <1>2, <2>1
<1>6. CASE ResponseRead
  <2> DEFINE r == ServerReply(Answer(m.peer, m.proto))
             more == ReadOn([m EXCEPT !.hs = "STOPPING_TIMER_ERROR"])
  <2>1. (CASE ~r.ended -> more
           [] r.ended /\ ParseResponse(r) = "RECV_MORE" ->
                 IF r.rest THEN more ELSE m' = Abort(Odd(m, "line"))
           [] r.ended /\ ParseResponse(r) # "RECV_MORE" /\ r.rest -> m' = Abort(Odd(m, "rest"))
           [] r.ended /\ ParseResponse(r) = "INVALID" /\ ~r.rest ->
                 m' = [m EXCEPT !.hs = "STOPPING_TIMER_ERROR"]
           [] r.ended /\ ParseResponse(r) = "VALID" /\ ~r.rest ->
                 m' = [m EXCEPT !.hs = "STOPPING_TIMER_DONE"])
    BY <1>1, <1>6 DEF ResponseRead, Answer
  <2>2. CASE Answer(m.peer, m.proto) = "OK"
    <3>1. ParseResponse(r) = "VALID" /\ r.ended = TRUE /\ r.rest = FALSE
      BY <2>2 DEF ServerReply, ParseResponse
    <3> HIDE DEF r, more
    <3>2. m' = [m EXCEPT !.hs = "STOPPING_TIMER_DONE"]
      BY <2>1, <3>1
    <3>3. Compatible(m.proto, m.peer)
      BY <1>1, <2>2, AnswerFacts
    <3>4. Goes("STOPPING_TIMER_DONE", m.code, m.odd, "HANDSHAKE")
      BY <1>1, <3>2 DEF Typed, Fields, Goes
    <3>5. QED
      BY <1>2, <3>3, <3>4
  <2>3. CASE Answer(m.peer, m.proto) # "OK"
    <3>1. r.ended = FALSE
      BY <2>3 DEF ServerReply
    <3> HIDE DEF r
    <3>2. more
      <4> HIDE DEF more
      <4>1. QED
        BY <2>1, <3>1
    <3>3. m.reads = 0
      BY <1>1, <1>6 DEF ResponseRead
    <3>4. m' = [m EXCEPT !.reads = @ + 1]
      BY <1>1, <3>2, <3>3, MaxReadsAssumption DEF ReadOn
    <3>5. PICK reads : m' = [m EXCEPT !.reads = reads]
      BY <3>4
    <3>6. Goes("CLIENT_RECV", m.code, m.odd, "HANDSHAKE")
      BY <1>1, <1>6, <3>5 DEF Typed, Fields, Goes, ResponseRead
    <3>7. QED
      BY <1>2, <3>6
  <2>4. QED
    BY <2>2, <2>3
<1>7. CASE HandshakeBreaks
  <2>1. Goes("STOPPING_TIMER_ERROR", m.code, m.odd, "HANDSHAKE")
    BY <1>1, <1>7 DEF HandshakeBreaks, Typed, Fields, Goes
  <2>2. QED
    BY <1>2, <2>1
<1>8. CASE HandshakeFailed
  <2>1. Goes("DONE", m.code, m.odd, "DONE")
    BY <1>1, <1>8 DEF HandshakeFailed, Typed, Fields, Goes
  <2>2. QED
    BY <1>2, <2>1
<1>9. QED
  BY <1>3, <1>4, <1>5, <1>6, <1>7, <1>8 DEF HandshakeNext

\* The session starts.
LEMMA StartOwn ==
  ASSUME Inv(m), Own(m), Clean(m), StartSession, m.peer # "foreign"
  PROVE  Own(m')
<1>1. /\ Typed(m) /\ Fresh(m) /\ m.session = "HANDSHAKE" /\ Quiet(m) /\ Matched(m)
  <2>1. Kept(m) /\ m.session = "HANDSHAKE" /\ m.hs = "STOPPING_TIMER_DONE"
    BY DEF Inv, StartSession, Handshaking
  <2>2. QED
    BY <2>1 DEF Kept, Own
<1>2. CASE m' = [m EXCEPT !.hs = "DONE", !.session = "DONE", !.broken = TRUE, !.retry = TRUE]
  <2>1. PICK y : y = m'
    OBVIOUS
  <2>2. /\ y.session = "DONE" /\ y.close = "NO" /\ y.frame = m.frame /\ y.odd = m.odd
        /\ y.aborted = m.aborted
    BY <1>1, <1>2, <2>1 DEF Typed, Fields, Fresh
  <2>3. Own(y)
    BY <1>1, <2>2 DEF Own, Quiet, Justified
  <2>4. QED
    BY <2>1, <2>3
<1>3. CASE m' = RecvHdr([m EXCEPT !.hs = "DONE", !.reads = 0, !.code = "NULL",
                                  !.session = "ACTIVE", !.out = "IDLE"])
  <2> DEFINE y == [m EXCEPT !.hs = "DONE", !.reads = 0, !.code = "NULL",
                            !.session = "ACTIVE", !.out = "IDLE"]
  <2>1. /\ DOMAIN y = Fields /\ y.mode = m.mode /\ y.out = "IDLE" /\ y.in = m.in
        /\ y.frame = m.frame /\ y.continuing = m.continuing /\ y.array = m.array
        /\ y.total = m.total /\ y.utf8 = m.utf8 /\ y.close = m.close /\ y.due = m.due
        /\ y.session = "ACTIVE" /\ y.odd = m.odd /\ y.aborted = m.aborted
        /\ y.proto = m.proto /\ y.peer = m.peer
    BY <1>1 DEF Typed, Fields
  <2> HIDE DEF y
  <2>2. Typed(y)
    BY <1>1, <2>1 DEF Typed
  <2>3. Talking(y) /\ y.array = <<>>
    BY <1>1, <2>1, <2>2 DEF Talking, Fresh, Quiet, Matched
  <2>4. QED
    BY <1>3, <2>3, RecvHdrOwn DEF y
<1>4. QED
  BY <1>2, <1>3 DEF StartSession

\* A header is read: what is refused is no message.
LEMMA HdrReadOwn ==
  ASSUME Inv(m), Own(m), Clean(m), HdrRead, m.peer # "foreign"
  PROVE  Own(m')
<1>1. /\ Typed(m) /\ m.session = "ACTIVE" /\ m.in = "RECV_HDR" /\ Talking(m)
      /\ m.total = 0 /\ m.mode \in {"client", "server"} /\ m.continuing = FALSE
  <2>1. Kept(m) /\ m.session = "ACTIVE" /\ ~m.aborted /\ m.in = "RECV_HDR"
    BY DEF Inv, HdrRead
  <2>2. Talking(m)
    BY <2>1 DEF Own
  <2>3. Ready(m)
    BY <2>1 DEF Kept, Where
  <2>4. QED
    BY <2>1, <2>2, <2>3 DEF Talking, Ready, Typed
<1> DEFINE other == IF m.mode = "server" THEN "client" ELSE "server"
<1>2. PICK f \in SentFrame(other) :
         m' = CASE Refused(m, f) -> FailConn(Noted(m, f), "PROTO")
                [] ~Refused(m, f) /\ m.mode = "server" ->
                      [Accepted(Noted(m, f), f) EXCEPT !.in = "RECV_HDREXT"]
                [] ~Refused(m, f) /\ m.mode = "client" ->
                      IF IsEmpty(f) THEN Empty(Accepted(Noted(m, f), f))
                      ELSE Announce(Accepted(Noted(m, f), f))
  BY DEF HdrRead
<1>3. /\ f \in Frames /\ f.fin /\ f.masked = (m.mode = "server") /\ f.excess = 0
      /\ f.opcode \in Data => Len(f.payload) <= Memory \/ Len(f.payload) = Limit + 1
  <2>1. other \in {"client", "server"} /\ ((other = "client") <=> (m.mode = "server"))
    BY <1>1
  <2> HIDE DEF other
  <2>2. /\ f \in Frames /\ f.fin /\ f.masked = (other = "client") /\ f.excess = 0
        /\ f.opcode \in Data => Len(f.payload) <= Memory \/ Len(f.payload) = Limit + 1
    BY <2>1, SentFacts
  <2>3. QED
    BY <2>1, <2>2
<1> HIDE DEF other
<1> DEFINE n == Noted(m, f)
           y == Accepted(n, f)
<1>4. /\ Typed(n) /\ n.aborted = m.aborted /\ n.frame = m.frame
      /\ n.odd = m.odd \cup Told(m, f)
      /\ Typed(y) /\ y.session = m.session /\ y.aborted = m.aborted /\ y.in = m.in
      /\ y.close = m.close /\ y.total = m.total /\ y.array = m.array /\ y.utf8 = m.utf8
      /\ y.odd = m.odd \cup Told(m, f) /\ y.frame = f /\ y.peer = m.peer /\ y.proto = m.proto
      /\ y.due = (IF f.opcode \in Data
                  THEN (IF f.opcode = "FRAGMENT" THEN m.due ELSE <<>>) \o Said(f) ELSE m.due)
      /\ y.continuing = (IF f.opcode \in Data THEN ~f.fin ELSE m.continuing)
  BY <1>1, <1>3, NotedFacts
<1>5. /\ m' = FailConn(n, "PROTO") \/ ~Refused(m, f)
      /\ ~Refused(m, f) => \/ m' = [y EXCEPT !.in = "RECV_HDREXT"]
                           \/ m' = Empty(y)
                           \/ m' = Announce(y)
  BY <1>1, <1>2
<1> HIDE DEF n, y
<1>6. Told(m, f) = IF f.rsv \/ f.opcode \notin {"TEXT", "BINARY"} THEN {"raw"} ELSE {}
  <2>1. f.excess # Word
    BY <1>3, BoundsAssumption, WordAssumption
  <2>2. QED
    BY <2>1 DEF Told
<1>7. Told(m, f) \subseteq {"raw"}
  BY <1>6
<1>8. CASE Refused(m, f)
  <2>1. f.rsv \/ f.opcode \notin {"TEXT", "BINARY"}
    BY <1>1, <1>3, <1>8 DEF Refused
  <2>2. "raw" \in n.odd
    BY <1>4, <1>6, <2>1
  <2>3. Quiet(n)
    BY <1>1, <1>4, <1>7 DEF Talking, Quiet
  <2>4. Own(FailConn(n, "PROTO"))
    BY <1>4, <2>2, <2>3, FailConnOwn DEF Closes
  <2>5. m' = FailConn(n, "PROTO")
    BY <1>2, <1>8 DEF n
  <2>6. QED
    BY <2>4, <2>5
<1>9. CASE ~Refused(m, f)
  <2>1. f.opcode \in {"TEXT", "BINARY", "PING", "PONG", "CLOSE"}
    BY <1>1, <1>3, <1>9 DEF Refused, Frames, Frame, Data
  <2>2. Quiet(y)
    BY <1>1, <1>3, <1>4, <1>7 DEF Talking, Quiet
  <2>3. ~y.continuing
    BY <1>1, <1>3, <1>4
  <2>4. Matched(y)
    BY <1>1, <1>4 DEF Talking, Matched
  <2>5. Talking(y)
    BY <1>1, <1>4, <2>2, <2>3, <2>4 DEF Talking
  <2>6. AtFrame(y)
    <3>1. f.opcode \notin {"TEXT", "BINARY"} => "raw" \in y.odd
      BY <1>4, <1>6
    <3>2. QED
      BY <1>4, <2>1, <3>1 DEF AtFrame
  <2>7. f.opcode \in Data => y.due = f.payload
    <3>1. f.payload \in Seq(Octets) /\ Said(f) = f.payload
      BY <1>3, SaidFacts DEF Frames, Frame
    <3>2. ASSUME f.opcode \in Data PROVE y.due = <<>> \o f.payload
      BY <1>4, <2>1, <3>1, <3>2
    <3>3. QED
      BY <3>1, <3>2, ConcatEmptySeq
  <2>8. Fits(y)
    BY <1>1, <1>3, <1>4, <2>7 DEF Fits
  <2>9. QED
    BY <1>5, <1>9, <2>5, <2>6, <2>8, WaitsOwn, EmptyOwn, AnnounceOwn DEF Reading
<1>10. QED
  BY <1>8, <1>9

\* Every other step of a session.
LEMMA SessionOwn ==
  ASSUME Inv(m), Own(m), Clean(m), m.peer # "foreign",
         HdrExtRead \/ PayloadRead \/ Recv \/ Send \/ Sent \/ Broken
  PROVE  Own(m')
<1>1. Typed(m) /\ Kept(m)
  BY DEF Inv, Sound
<1>2. CASE HdrExtRead
  <2>1. Talking(m) /\ AtFrame(m) /\ Fits(m)
    BY <1>2 DEF HdrExtRead, Own
  <2>2. QED
    BY <1>2, <2>1, EmptyOwn, AnnounceOwn DEF HdrExtRead
<1>3. CASE PayloadRead
  <2>1. Talking(m) /\ AtFrame(m)
    BY <1>3 DEF PayloadRead, Own
  <2>2. CASE m.frame.opcode \in {"TEXT", "BINARY"}
    <3>1. m' = ValidateUtf8(m) \/ m' = Chunked(m)
      BY <1>3, <2>2 DEF PayloadRead, Data
    <3>2. Own(Chunked(m))
      BY <2>1, WaitsOwn DEF Chunked, Talking, Quiet, Reading
    <3>3. QED
      BY <2>1, <3>1, <3>2, ValidateOwn
  <2>3. CASE m.frame.opcode \in {"PING", "PONG"}
    <3>1. m' = [m EXCEPT !.in = "RECVD_CONTROL"]
      BY <1>3, <2>3 DEF PayloadRead, Data
    <3>2. QED
      BY <2>1, <3>1, WaitsOwn DEF Reading
  <2>4. CASE m.frame.opcode = "CLOSE"
    <3>1. m' = AcknowledgeClose(m) /\ "raw" \in m.odd
      BY <1>3, <2>1, <2>4 DEF PayloadRead, Data, AtFrame
    <3>2. QED
      BY <2>1, <3>1, AcknowledgeOwn
  <2>5. QED
    BY <2>1, <2>2, <2>3, <2>4 DEF AtFrame
<1>4. CASE Recv
  <2>1. Talking(m) /\ Where(m) /\ m.session = "ACTIVE"
    BY <1>1, <1>4 DEF Recv, Own, Kept
  <2>2. CASE /\ m.in = "RECVD_CHUNKED"
             /\ m' = IF m.frame.fin /\ m.type \in {"TEXT", "BINARY"}
                        /\ Len(FlattenSeq(m.array)) = m.total
                     THEN RecvHdr([m EXCEPT !.array = <<>>, !.continuing = FALSE])
                     ELSE Abort(m)
    <3> DEFINE y == [m EXCEPT !.array = <<>>, !.continuing = FALSE]
    <3>1. m' = RecvHdr(y)
      BY <2>1, <2>2 DEF Where, Whole, Gathered
    <3>2. /\ DOMAIN y = Fields /\ y.mode = m.mode /\ y.out = m.out /\ y.in = m.in
          /\ y.frame = m.frame /\ y.continuing = FALSE /\ y.array = <<>>
          /\ y.total = m.total /\ y.utf8 = m.utf8 /\ y.close = m.close /\ y.due = m.due
          /\ y.session = m.session /\ y.odd = m.odd /\ y.aborted = m.aborted
          /\ y.peer = m.peer /\ y.proto = m.proto
      BY <1>1 DEF Typed, Fields
    <3> HIDE DEF y
    <3>3. <<>> \in Seq(Seq(Octets))
      OBVIOUS
    <3>4. Typed(y)
      BY <1>1, <3>2, <3>3 DEF Typed
    <3>5. Talking(y)
      BY <2>1, <3>2, <3>4 DEF Talking, Quiet, Matched
    <3>6. QED
      BY <3>1, <3>2, <3>5, RecvHdrOwn
  <2>3. CASE m.in = "RECVD_CONTROL" /\ m' = RecvHdr(m)
    <3>1. m.array = <<>>
      BY <2>1, <2>3 DEF Where, Ready, Between, Talking
    <3>2. QED
      BY <2>1, <2>3, <3>1, RecvHdrOwn
  <2>4. QED
    BY <1>4, <2>2, <2>3 DEF Recv
<1>5. CASE Send \/ Sent \/ Broken
  <2>1. /\ DOMAIN m' = Fields /\ m'.mode = m.mode /\ m'.in = m.in
        /\ m'.frame = m.frame /\ m'.continuing = m.continuing /\ m'.array = m.array
        /\ m'.total = m.total /\ m'.utf8 = m.utf8 /\ m'.close = m.close /\ m'.due = m.due
        /\ m'.odd = m.odd /\ m'.aborted = m.aborted
        /\ m'.peer = m.peer /\ m'.proto = m.proto
        /\ m'.session = m.session \/ m'.session = "DONE"
    BY <1>1, <1>5 DEF Typed, Fields, Send, Sent, Broken
  <2>2. PICK y : y = m'
    OBVIOUS
  <2>3. /\ y.in = m.in
        /\ y.frame = m.frame /\ y.continuing = m.continuing
        /\ y.total = m.total /\ y.utf8 = m.utf8 /\ y.close = m.close /\ y.due = m.due
        /\ y.odd = m.odd /\ y.aborted = m.aborted
        /\ y.peer = m.peer /\ y.proto = m.proto
        /\ y.session = m.session \/ y.session = "DONE"
    BY <2>1, <2>2
  <2>4. Quiet(m) /\ Justified(m) /\ m.session # "HANDSHAKE"
    BY <1>5 DEF Own, Send, Sent, Broken
  <2>5. Typed(y)
    <3>1. Onward(m, m')
      BY <1>5, StepOn DEF Inv
    <3>2. QED
      BY <2>2, <3>1 DEF Onward, Sound
  <2>6. Quiet(y) /\ Justified(y)
    BY <2>3, <2>4 DEF Quiet, Justified
  <2>7. y.session = "ACTIVE" => Talking(y)
    BY <2>3, <2>5, <2>6 DEF Own, Talking, Matched
  <2>8. (AtFrame(m) => AtFrame(y)) /\ (Fits(m) => Fits(y))
    BY <2>3 DEF AtFrame, Fits
  <2>9. Own(y)
    BY <2>3, <2>4, <2>6, <2>7, <2>8 DEF Own
  <2>10. QED
    BY <2>2, <2>9
<1>6. QED
  BY <1>2, <1>3, <1>4, <1>5

\* Every step keeps it.
LEMMA NextOwn ==
  ASSUME Inv(m), Own(m), [Next]_m, MaxReads >= 1
  PROVE  Own(m')
<1>1. CASE Reconnect
  <2>1. Typed(m) /\ m.proto \in Sockets
    BY DEF Inv, Sound
  <2>2. PICK y : y = m'
    OBVIOUS
  <2>3. /\ y.session = "HANDSHAKE" /\ y.hs = "CLIENT_SEND" /\ ~y.aborted
        /\ y.frame.fin /\ y.close = "NO" /\ (Clean(y) => y.odd = {})
    BY <1>1, <2>1, <2>2, ReconnectFacts
  <2>4. Own(y)
    BY <2>3 DEF Own, Quiet, Justified
  <2>5. QED
    BY <2>2, <2>4
<1>2. CASE \/ HandshakeNext \/ StartSession \/ HdrRead \/ HdrExtRead \/ PayloadRead
           \/ Recv \/ Send \/ Sent \/ Broken \/ UNCHANGED m
  <2>1. m'.peer = m.peer /\ (Clean(m') => Clean(m))
    BY <1>2, StepOn DEF Inv, Onward, Clean
  <2>2. CASE m.peer = "foreign" \/ ~Clean(m)
    <3>1. m'.peer = "foreign" \/ ~Clean(m')
      BY <2>1, <2>2
    <3>2. QED
      BY <3>1 DEF Own
  <2>3. CASE m.peer # "foreign" /\ Clean(m)
    <3>1. CASE UNCHANGED m
      BY <3>1
    <3>2. CASE ~UNCHANGED m
      BY <1>2, <2>3, <3>2, HandshakeOwn, StartOwn, HdrReadOwn, SessionOwn
    <3>3. QED
      BY <3>1, <3>2
  <2>4. QED
    BY <2>2, <2>3
<1>3. QED
  BY <1>1, <1>2 DEF Next

\* It holds at the start.
LEMMA InitOwn == Init => Own(m)
<1>1. SUFFICES ASSUME Init PROVE Own(m)
  OBVIOUS
<1>2. /\ m.session = "HANDSHAKE" /\ m.odd = {} /\ m.hs \in {"CLIENT_SEND", "SERVER_RECV"}
      /\ ~m.aborted /\ m.frame = NoFrame /\ m.close = "NO"
  BY <1>1, InitFacts
<1>3. m.frame.fin
  BY <1>2 DEF NoFrame
<1>4. QED
  BY <1>2, <1>3 DEF Own, Quiet, Justified

\* A connection is failed only for a reason.
LEMMA OwnImplies ==
  ASSUME Inv(m), Own(m)
  PROVE  OwnPeers => OwnPeersSafe
<1>1. SUFFICES ASSUME m.peer # "foreign", Clean(m)
               PROVE  /\ ~m.aborted
                      /\ m.close = "TOOBIG" => Len(m.due) > Limit
                      /\ m.close = "INVALID_FRAME" => ~WellFormed(m.due)
                      /\ m.close \in {"PROTO", "NORMAL", "ECHO"} => "raw" \in m.odd
                      /\ m.session = "ACTIVE" /\ ~Compatible(m.proto, m.peer)
                            => "rejected" \in m.odd
  BY DEF OwnPeersSafe, OwnPeers, Clean
<1>2. Quiet(m) /\ Justified(m) /\ Kept(m) /\ (m.session = "ACTIVE" => Matched(m))
  BY <1>1 DEF Own, Inv, Talking
<1>3. Sober(m)
  BY <1>2 DEF Quiet, Sober
<1>4. m.close = "INVALID_FRAME" => ~WellFormed(m.due)
  BY <1>2, <1>3 DEF Kept, Refuted, Quiet
<1>5. QED
  BY <1>2, <1>4 DEF Quiet, Justified, Matched

\* Two sockets of the library never fail an assertion of each other's, and an end
\* fails the connection only for what a user sent (ws_handshake.c, sws.c), when the
\* reply of a handshake fits into its buffer.
THEOREM SpecOwnPeersSafe ==
  ASSUME MaxReads >= 1
  PROVE  Spec => [](OwnPeers => OwnPeersSafe)
<1>1. Init => Inv(m) /\ Own(m)
  BY InitInv, InitOwn
<1>2. (Inv(m) /\ Own(m)) /\ [Next]_m => (Inv(m) /\ Own(m))'
  BY NextInv, NextOwn
<1>3. Inv(m) /\ Own(m) => (OwnPeers => OwnPeersSafe)
  BY OwnImplies
<1>4. QED
  BY <1>1, <1>2, <1>3, PTL DEF Spec

-----------------------------------------------------------------------------
(* Strings and their beginnings.                                            *)

Str == Seq(Char)

\* A beginning of a string.
LEMMA UptoProps ==
  ASSUME NEW s \in Str, NEW n \in 0 .. Len(s)
  PROVE  /\ Upto(s, n) \in Str /\ Len(Upto(s, n)) = n
         /\ \A i \in 1 .. n : Upto(s, n)[i] = s[i]
BY DEF Upto, Str

\* Strings that agree everywhere are the same.
LEMMA SameStr ==
  ASSUME NEW s \in Str, NEW u \in Str, Len(s) = Len(u), \A i \in 1 .. Len(s) : s[i] = u[i]
  PROVE  s = u
BY SeqEqual DEF Str

\* The whole string, and none of it.
LEMMA UptoEnds ==
  ASSUME NEW s \in Str
  PROVE  Upto(s, Len(s)) = s /\ Upto(s, 0) = <<>> /\ (Len(s) = 0 <=> s = <<>>) /\ Len(s) \in Nat
<1>1. Len(s) \in 0 .. Len(s) /\ 0 \in 0 .. Len(s) /\ Len(s) \in Nat
  BY DEF Str
<1>2. Upto(s, Len(s)) = s
  BY <1>1, UptoProps, SameStr
<1>3. Upto(s, 0) = <<>> /\ (Len(s) = 0 <=> s = <<>>)
  BY <1>1 DEF Upto, Str
<1>4. QED
  BY <1>1, <1>2, <1>3

\* The beginning of a beginning.
LEMMA UptoUpto ==
  ASSUME NEW s \in Str, NEW n \in 0 .. Len(s), NEW k \in 0 .. n
  PROVE  Upto(Upto(s, n), k) = Upto(s, k)
<1>1. Upto(s, n) \in Str /\ Len(Upto(s, n)) = n /\ \A i \in 1 .. n : Upto(s, n)[i] = s[i]
  BY UptoProps
<1>2. k \in 0 .. Len(s) /\ Len(s) \in Nat
  BY DEF Str
<1>3. /\ Upto(s, k) \in Str /\ Len(Upto(s, k)) = k
      /\ \A i \in 1 .. k : Upto(s, k)[i] = s[i]
  BY <1>2, UptoProps
<1> DEFINE u == Upto(s, n)
<1>4. /\ Upto(u, k) \in Str /\ Len(Upto(u, k)) = k
      /\ \A i \in 1 .. k : Upto(u, k)[i] = u[i]
  BY <1>1, UptoProps
<1>5. \A i \in 1 .. k : Upto(u, k)[i] = Upto(s, k)[i]
  BY <1>1, <1>2, <1>3, <1>4
<1>6. QED
  BY <1>3, <1>4, <1>5, SameStr

\* One character more.
LEMMA AppendedOne ==
  ASSUME NEW a \in Str, NEW c \in Char
  PROVE  /\ Append(a, c) \in Str /\ Len(Append(a, c)) = Len(a) + 1
         /\ Append(a, c)[Len(a) + 1] = c
         /\ Upto(Append(a, c), Len(a)) = a
<1>1. /\ Append(a, c) \in Str /\ Len(Append(a, c)) = Len(a) + 1 /\ Len(a) \in Nat
      /\ \A i \in 1 .. Len(a) : Append(a, c)[i] = a[i]
      /\ Append(a, c)[Len(a) + 1] = c
  BY DEF Str
<1> DEFINE s == Append(a, c)
<1>2. Len(a) \in 0 .. Len(s)
  BY <1>1
<1>3. /\ Upto(s, Len(a)) \in Str /\ Len(Upto(s, Len(a))) = Len(a)
      /\ \A i \in 1 .. Len(a) : Upto(s, Len(a))[i] = s[i]
  BY <1>1, <1>2, UptoProps
<1>4. Upto(s, Len(a)) = a
  BY <1>1, <1>3, SameStr
<1>5. QED
  BY <1>1, <1>4

\* The next character of a string makes the next beginning.
LEMMA UptoNext ==
  ASSUME NEW s \in Str, NEW n \in 0 .. Len(s) - 1
  PROVE  Append(Upto(s, n), s[n + 1]) = Upto(s, n + 1) /\ s[n + 1] \in Char
<1>1. n \in 0 .. Len(s) /\ n + 1 \in 0 .. Len(s) /\ n \in Nat /\ s[n + 1] \in Char /\ Len(s) \in Nat
  BY DEF Str
<1>2. /\ Upto(s, n) \in Str /\ Len(Upto(s, n)) = n
      /\ \A i \in 1 .. n : Upto(s, n)[i] = s[i]
  BY <1>1, UptoProps
<1>3. /\ Upto(s, n + 1) \in Str /\ Len(Upto(s, n + 1)) = n + 1
      /\ \A i \in 1 .. n + 1 : Upto(s, n + 1)[i] = s[i]
  BY <1>1, UptoProps
<1> DEFINE u == Upto(s, n)
<1> HIDE DEF u
<1>4. u \in Str /\ Len(u) = n /\ \A i \in 1 .. n : u[i] = s[i]
  BY <1>2 DEF u
<1>5. /\ Append(u, s[n + 1]) \in Str /\ Len(Append(u, s[n + 1])) = n + 1
      /\ Append(u, s[n + 1])[n + 1] = s[n + 1]
      /\ \A i \in 1 .. n : Append(u, s[n + 1])[i] = s[i]
  BY <1>1, <1>4 DEF Str
<1>6. \A i \in 1 .. n + 1 : Append(u, s[n + 1])[i] = Upto(s, n + 1)[i]
  BY <1>1, <1>3, <1>5
<1>7. Append(u, s[n + 1]) = Upto(s, n + 1)
  BY <1>3, <1>5, <1>6, SameStr
<1>8. QED
  BY <1>1, <1>7 DEF u

\* Only one string and character make a string.
LEMMA AppendOne ==
  ASSUME NEW a \in Str, NEW b \in Str, NEW c \in Char, NEW d \in Char
  PROVE  Append(a, c) = Append(b, d) => a = b /\ c = d
<1> SUFFICES ASSUME Append(a, c) = Append(b, d) PROVE a = b /\ c = d
  OBVIOUS
<1>1. Len(a) \in Nat /\ Len(b) \in Nat
  BY DEF Str
<1>2. Len(a) + 1 = Len(b) + 1
  BY AppendedOne
<1>3. Len(a) = Len(b)
  BY <1>1, <1>2
<1>4. \A u : u = Append(a, c) => a = Upto(u, Len(a)) /\ c = u[Len(a) + 1]
  BY AppendedOne
<1>5. \A u : u = Append(b, d) => b = Upto(u, Len(b)) /\ d = u[Len(b) + 1]
  BY AppendedOne
<1>6. b = Upto(Append(a, c), Len(b)) /\ d = Append(a, c)[Len(b) + 1]
  BY <1>5
<1>7. a = Upto(Append(a, c), Len(a)) /\ c = Append(a, c)[Len(a) + 1]
  BY <1>4
<1>8. a = b
  BY <1>3, <1>6, <1>7
<1>9. c = d
  BY <1>3, <1>6, <1>7
<1>10. QED
  BY <1>8, <1>9

\* What IsPrefix says in terms of beginnings.
LEMMA PrefixProps ==
  ASSUME NEW a \in Str, NEW s \in Str
  PROVE  /\ IsPrefix(a, s) <=> Len(a) <= Len(s) /\ Upto(s, Len(a)) = a
         /\ IsStrictPrefix(a, s) <=> Len(a) < Len(s) /\ Upto(s, Len(a)) = a
<1>1. Len(a) \in Nat /\ Len(s) \in Nat
  BY DEF Str
<1>2. Upto(a, Len(a)) = a /\ Upto(s, Len(s)) = s
  BY UptoEnds
<1>3. IsPrefix(a, s) <=> Len(a) <= Len(s) /\ Upto(s, Len(a)) = a
  BY <1>2 DEF IsPrefix, Upto
<1>4. IsPrefix(a, s) /\ a # s => Len(a) # Len(s)
  BY <1>2, <1>3
<1>5. QED
  BY <1>1, <1>3, <1>4 DEF IsStrictPrefix

-----------------------------------------------------------------------------
(* The nodes of a trie form a tree.                                         *)

NodeType == [refcount : Nat, prefix_len : Nat, dense : BOOLEAN,
             children : SUBSET Char, nbr : Nat]

TrieType(t) ==
    /\ DOMAIN t \subseteq Str /\ t \in [DOMAIN t -> NodeType]
    /\ \E N \in Nat : \A a \in DOMAIN t : Len(a) <= N

\* Linked of all nodes, said of the trie as a whole: no two prefixes begin at the
\* same place, and each node but the root has the one it is a child of.
Hangs(t) ==
    /\ \A a \in DOMAIN t : t[a].prefix_len <= PrefixMax /\ t[a].prefix_len <= Len(a)
    /\ \A a, b \in DOMAIN t : Start(t, a) = Start(t, b) => a = b
    /\ \A a \in DOMAIN t : Top(t, a) > 0 =>
          Parent(t, a) \in DOMAIN t /\ Edge(t, a) \in t[Parent(t, a)].children

\* Where the prefix of a node begins.
LEMMA StartProps ==
  ASSUME NEW t, TrieType(t), NEW a \in DOMAIN t, t[a].prefix_len <= Len(a)
  PROVE  /\ a \in Str /\ Len(a) \in Nat /\ t[a] \in NodeType
         /\ Top(t, a) \in 0 .. Len(a) /\ t[a].prefix_len = Len(a) - Top(t, a)
         /\ Start(t, a) \in Str /\ Len(Start(t, a)) = Top(t, a)
         /\ Start(t, a) = <<>> <=> Top(t, a) = 0
         /\ Top(t, a) > 0 =>
               /\ Parent(t, a) \in Str /\ Len(Parent(t, a)) = Top(t, a) - 1
               /\ Edge(t, a) \in Char
               /\ Start(t, a) = Append(Parent(t, a), Edge(t, a))
<1>1. a \in Str /\ t[a] \in NodeType /\ Len(a) \in Nat
  BY DEF TrieType, Str
<1>2. t[a].prefix_len \in Nat
  BY <1>1 DEF NodeType
<1>3. Top(t, a) \in 0 .. Len(a) /\ t[a].prefix_len = Len(a) - Top(t, a)
  BY <1>1, <1>2 DEF Top
<1> DEFINE n == Top(t, a)
<1>4. Start(t, a) = Upto(a, n) /\ Parent(t, a) = Upto(a, n - 1) /\ Edge(t, a) = a[n]
  BY DEF Start, Parent, Edge
<1> HIDE DEF n
<1>5. n \in 0 .. Len(a) /\ n \in Nat
  BY <1>3 DEF n
<1>6. Upto(a, n) \in Str /\ Len(Upto(a, n)) = n
  BY <1>1, <1>5, UptoProps
<1>7. Upto(a, n) = <<>> <=> n = 0
  BY <1>6, UptoEnds
<1>8. ASSUME n > 0
      PROVE  /\ Upto(a, n - 1) \in Str /\ Len(Upto(a, n - 1)) = n - 1
             /\ a[n] \in Char /\ Upto(a, n) = Append(Upto(a, n - 1), a[n])
  <2>1. n - 1 \in 0 .. Len(a) /\ n - 1 \in 0 .. Len(a) - 1 /\ (n - 1) + 1 = n
    BY <1>1, <1>5, <1>8
  <2> DEFINE k == n - 1
  <2>2. k \in 0 .. Len(a) /\ k \in 0 .. Len(a) - 1 /\ k + 1 = n
    BY <2>1
  <2> HIDE DEF k
  <2>3. Append(Upto(a, k), a[k + 1]) = Upto(a, k + 1) /\ a[k + 1] \in Char
    BY <1>1, <2>2, UptoNext
  <2>4. Upto(a, k) \in Str /\ Len(Upto(a, k)) = k
    BY <1>1, <2>2, UptoProps
  <2>5. QED
    BY <2>2, <2>3, <2>4 DEF k
<1>9. QED
  BY <1>1, <1>3, <1>4, <1>6, <1>7, <1>8 DEF n

\* The same in a tree.
LEMMA TreeProps ==
  ASSUME NEW t, TrieType(t), Hangs(t), NEW a \in DOMAIN t
  PROVE  /\ a \in Str /\ Len(a) \in Nat /\ t[a] \in NodeType /\ t[a].prefix_len <= PrefixMax
         /\ Top(t, a) \in 0 .. Len(a) /\ t[a].prefix_len = Len(a) - Top(t, a)
         /\ Start(t, a) \in Str /\ Len(Start(t, a)) = Top(t, a)
         /\ Start(t, a) = <<>> <=> Top(t, a) = 0
         /\ Top(t, a) > 0 =>
               /\ Parent(t, a) \in Str /\ Len(Parent(t, a)) = Top(t, a) - 1
               /\ Edge(t, a) \in Char
               /\ Start(t, a) = Append(Parent(t, a), Edge(t, a))
               /\ Parent(t, a) \in DOMAIN t /\ Edge(t, a) \in t[Parent(t, a)].children
         /\ Node(t, Start(t, a)) = a
<1>1. /\ t[a].prefix_len <= PrefixMax /\ t[a].prefix_len <= Len(a)
      /\ Top(t, a) > 0 => Parent(t, a) \in DOMAIN t /\ Edge(t, a) \in t[Parent(t, a)].children
      /\ \A b \in DOMAIN t : Start(t, b) = Start(t, a) => b = a
  BY DEF Hangs
<1>2. Node(t, Start(t, a)) = a
  BY <1>1 DEF Node
<1>3. QED
  BY <1>1, <1>2, StartProps

\* A tree is what Linked describes.
LEMMA HangsLinked ==
  ASSUME NEW t, TrieType(t)
  PROVE  Hangs(t) <=> \A a \in DOMAIN t : Linked(t, a)
<1>1. ASSUME Hangs(t), NEW a \in DOMAIN t
      PROVE  Linked(t, a)
  <2>1. /\ t[a].prefix_len <= PrefixMax /\ t[a].prefix_len <= Len(a)
        /\ Node(t, Start(t, a)) = a
    BY <1>1, TreeProps DEF Hangs
  <2>2. Top(t, a) = 0 => Root(t) = a
    BY <1>1, <2>1, TreeProps DEF Root
  <2>3. ASSUME Top(t, a) # 0
        PROVE  /\ Parent(t, a) \in DOMAIN t
               /\ Edge(t, a) \in Kids(t, Parent(t, a))
               /\ Kid(t, Parent(t, a), Edge(t, a)) = a
    <3>1. Top(t, a) > 0
      BY <1>1, <2>3, TreeProps
    <3>2. /\ Start(t, a) = Append(Parent(t, a), Edge(t, a))
          /\ Parent(t, a) \in DOMAIN t /\ Edge(t, a) \in t[Parent(t, a)].children
      BY <1>1, <3>1, TreeProps
    <3>3. QED
      BY <2>1, <3>2 DEF Kids, Kid, IsNode
  <2>4. QED
    BY <2>1, <2>2, <2>3 DEF Linked
<1>2. ASSUME \A a \in DOMAIN t : Linked(t, a)
      PROVE  Hangs(t)
  <2>1. ASSUME NEW a \in DOMAIN t
        PROVE  /\ t[a].prefix_len <= PrefixMax /\ t[a].prefix_len <= Len(a)
               /\ Node(t, Start(t, a)) = a
               /\ Top(t, a) > 0 =>
                     Parent(t, a) \in DOMAIN t /\ Edge(t, a) \in t[Parent(t, a)].children
    <3>1. t[a].prefix_len <= PrefixMax /\ t[a].prefix_len <= Len(a) /\ Linked(t, a)
      BY <1>2 DEF Linked
    <3>2. /\ Start(t, a) = <<>> <=> Top(t, a) = 0
          /\ Top(t, a) > 0 => Start(t, a) = Append(Parent(t, a), Edge(t, a))
          /\ Top(t, a) # 0 => Top(t, a) > 0
      BY <3>1, StartProps
    <3>3. CASE Top(t, a) = 0
      BY <3>1, <3>2, <3>3 DEF Linked, Root
    <3>4. CASE Top(t, a) # 0
      BY <3>1, <3>2, <3>4 DEF Linked, Kids, Kid
    <3>5. QED
      BY <3>3, <3>4
  <2>2. ASSUME NEW a \in DOMAIN t, NEW b \in DOMAIN t, Start(t, a) = Start(t, b)
        PROVE  a = b
    BY <2>1, <2>2
  <2>3. QED
    BY <2>1, <2>2 DEF Hangs
<1>3. QED
  BY <1>1, <1>2

\* The strings of two nodes are apart: one that continues the other does so
\* before its own prefix begins.
LEMMA Inside ==
  ASSUME NEW t, TrieType(t), Hangs(t), NEW q0 \in DOMAIN t, NEW a0 \in DOMAIN t,
         Len(q0) < Len(a0), Upto(a0, Len(q0)) = q0
  PROVE  Len(q0) < Top(t, a0)
<1> DEFINE Bad(q, a) == Len(q) < Len(a) /\ Upto(a, Len(q)) = q /\ Top(t, a) <= Len(q)
           T == {n \in Nat : \E q, a \in DOMAIN t : n = Len(q) + Len(a) /\ Bad(q, a)}
<1>1. \A a \in DOMAIN t : Len(a) \in Nat /\ Top(t, a) \in Nat /\ Top(t, a) <= Len(a) /\ a \in Str
  BY TreeProps
<1>2. SUFFICES ASSUME Bad(q0, a0) PROVE FALSE
  BY <1>1
<1>3. T # {} /\ T \subseteq Nat
  <2>1. Len(q0) + Len(a0) \in Nat
    BY <1>1
  <2>2. Len(q0) + Len(a0) \in T
    BY <1>2, <2>1
  <2>3. QED
    BY <2>2
<1>4. PICK n \in T : \A k \in T : n <= k
  BY <1>3, Least
<1>5. PICK q \in DOMAIN t, a \in DOMAIN t : n = Len(q) + Len(a) /\ Bad(q, a)
  BY <1>4
<1>6. ASSUME NEW p \in DOMAIN t, NEW b \in DOMAIN t, Bad(p, b)
      PROVE  Len(q) + Len(a) <= Len(p) + Len(b)
  <2>1. Len(p) + Len(b) \in Nat
    BY <1>1
  <2>2. Len(p) + Len(b) \in T
    BY <1>6, <2>1
  <2>3. QED
    BY <1>4, <1>5, <2>2
<1>7. /\ Len(q) < Len(a) /\ Upto(a, Len(q)) = q /\ Top(t, a) <= Len(q)
      /\ Len(q) \in Nat /\ Len(a) \in Nat /\ a \in Str /\ q \in Str
      /\ Top(t, a) \in Nat /\ Top(t, q) \in Nat /\ Top(t, q) <= Len(q)
  BY <1>1, <1>5
<1>8. ASSUME NEW j \in 0 .. Len(q) PROVE Upto(q, j) = Upto(a, j)
  <2>1. Len(q) \in 0 .. Len(a)
    BY <1>7
  <2>2. QED
    BY <1>7, <2>1, UptoUpto
<1>9. /\ Top(t, a) > 0 => /\ Parent(t, a) \in DOMAIN t /\ Len(Parent(t, a)) = Top(t, a) - 1
                          /\ Parent(t, a) = Upto(a, Top(t, a) - 1)
      /\ Top(t, q) > 0 => /\ Parent(t, q) \in DOMAIN t /\ Len(Parent(t, q)) = Top(t, q) - 1
                          /\ Parent(t, q) = Upto(q, Top(t, q) - 1)
  BY TreeProps DEF Parent
<1>10. ~(Start(t, a) = Start(t, q))
  BY <1>7 DEF Hangs
<1>11. Start(t, a) = Upto(a, Top(t, a)) /\ Start(t, q) = Upto(q, Top(t, q))
  BY DEF Start
<1> HIDE DEF T
<1>12. Top(t, q) # Top(t, a)
  <2>1. Upto(q, Top(t, q)) = Upto(a, Top(t, q))
    BY <1>7, <1>8
  <2>2. QED
    BY <1>10, <1>11, <2>1
<1>13. CASE Top(t, q) < Top(t, a)
  <2> DEFINE p == Parent(t, a)
  <2>1. p \in DOMAIN t /\ Len(p) = Top(t, a) - 1 /\ p = Upto(a, Top(t, a) - 1)
    BY <1>7, <1>9, <1>13
  <2>2. Len(p) \in 0 .. Len(q) /\ Len(p) < Len(q) /\ Top(t, q) <= Len(p) /\ Len(p) \in Nat
    BY <1>7, <1>13, <2>1
  <2>3. Upto(q, Len(p)) = p
    BY <1>8, <2>1, <2>2
  <2>4. Bad(p, q)
    BY <2>2, <2>3
  <2>5. Len(q) + Len(a) <= Len(p) + Len(q)
    BY <1>6, <2>1, <2>4
  <2>6. QED
    BY <1>7, <2>2, <2>5
<1>14. CASE Top(t, a) < Top(t, q)
  <2> DEFINE r == Parent(t, q)
  <2>1. r \in DOMAIN t /\ Len(r) = Top(t, q) - 1 /\ r = Upto(q, Top(t, q) - 1)
    BY <1>7, <1>9, <1>14
  <2>2. Len(r) \in 0 .. Len(q) /\ Len(r) < Len(q) /\ Top(t, a) <= Len(r) /\ Len(r) \in Nat
    BY <1>7, <1>14, <2>1
  <2>3. Upto(a, Len(r)) = r
    BY <1>8, <2>1, <2>2
  <2>4. Bad(r, a)
    BY <1>7, <2>2, <2>3
  <2>5. Len(q) + Len(a) <= Len(r) + Len(a)
    BY <1>6, <2>1, <2>4
  <2>6. QED
    BY <1>7, <2>2, <2>5
<1>15. QED
  BY <1>7, <1>12, <1>13, <1>14

\* Between a node and one that continues its string there is a child on the way.
LEMMA Descends ==
  ASSUME NEW t, TrieType(t), Hangs(t), NEW q \in DOMAIN t, NEW a \in DOMAIN t,
         Len(q) < Len(a), Upto(a, Len(q)) = q
  PROVE  \E b \in DOMAIN t :
            /\ Len(b) <= Len(a) /\ Upto(a, Len(b)) = b /\ Top(t, b) = Len(q) + 1
            /\ Start(t, b) = Append(q, a[Len(q) + 1])
            /\ a[Len(q) + 1] \in t[q].children
<1> DEFINE On(b) == Len(q) < Len(b) /\ Len(b) <= Len(a) /\ Upto(a, Len(b)) = b
           T == {n \in Nat : \E b \in DOMAIN t : n = Len(b) /\ On(b)}
<1>1. \A b \in DOMAIN t : Len(b) \in Nat /\ Top(t, b) \in Nat /\ Top(t, b) <= Len(b) /\ b \in Str
  BY TreeProps
<1>2. On(a)
  BY <1>1, UptoEnds
<1>3. T # {} /\ T \subseteq Nat
  BY <1>1, <1>2
<1>4. PICK n \in T : \A k \in T : n <= k
  BY <1>3, Least
<1>5. PICK b \in DOMAIN t : n = Len(b) /\ On(b)
  BY <1>4
<1>6. ASSUME NEW p \in DOMAIN t, On(p) PROVE Len(b) <= Len(p)
  <2>1. Len(p) \in T
    BY <1>1, <1>6
  <2>2. QED
    BY <1>4, <1>5, <2>1
<1>7. /\ Len(q) \in Nat /\ Len(a) \in Nat /\ Len(b) \in Nat /\ b \in Str /\ a \in Str
      /\ Len(q) < Len(b) /\ Len(b) <= Len(a) /\ Upto(a, Len(b)) = b
      /\ Top(t, b) \in Nat /\ Top(t, b) <= Len(b)
  BY <1>1, <1>5
<1> HIDE DEF T
<1>8. ASSUME NEW j \in 0 .. Len(b) PROVE Upto(b, j) = Upto(a, j)
  <2>1. Len(b) \in 0 .. Len(a)
    BY <1>7
  <2>2. QED
    BY <1>7, <2>1, UptoUpto
<1>9. Upto(b, Len(q)) = q
  BY <1>7, <1>8
<1>10. Len(q) < Top(t, b)
  BY <1>7, <1>9, Inside
<1>11. /\ Parent(t, b) \in DOMAIN t /\ Len(Parent(t, b)) = Top(t, b) - 1
       /\ Parent(t, b) = Upto(b, Top(t, b) - 1) /\ Edge(t, b) = b[Top(t, b)]
       /\ Start(t, b) = Append(Parent(t, b), Edge(t, b))
       /\ Edge(t, b) \in t[Parent(t, b)].children
  BY <1>7, <1>10, TreeProps DEF Parent, Edge
<1>12. Top(t, b) - 1 = Len(q)
  <2>1. SUFFICES ASSUME Len(q) < Top(t, b) - 1 PROVE FALSE
    BY <1>7, <1>10
  <2> DEFINE p == Parent(t, b)
  <2>2. Len(p) \in 0 .. Len(b) /\ Len(q) < Len(p) /\ Len(p) <= Len(a)
    BY <1>7, <1>11, <2>1
  <2>3. Upto(a, Len(p)) = p
    BY <1>8, <1>11, <2>2
  <2>4. On(p)
    BY <2>2, <2>3
  <2>5. Len(b) <= Len(p)
    BY <1>6, <1>11, <2>4
  <2>6. QED
    BY <1>7, <1>11, <2>5
<1>13. Parent(t, b) = q
  BY <1>9, <1>11, <1>12
<1>14. b[Len(q) + 1] = a[Len(q) + 1]
  <2>1. Len(b) \in 0 .. Len(a) /\ Len(q) + 1 \in 1 .. Len(b)
    BY <1>7
  <2>2. QED
    BY <1>7, <2>1, UptoProps
<1>15. Top(t, b) = Len(q) + 1
  BY <1>7, <1>12
<1>16. QED
  BY <1>7, <1>11, <1>13, <1>14, <1>15

\* A trie with nodes has a root.
LEMMA RootProps ==
  ASSUME NEW t, TrieType(t), Hangs(t), DOMAIN t # {}
  PROVE  Root(t) \in DOMAIN t /\ Top(t, Root(t)) = 0
<1> DEFINE T == {Len(a) : a \in DOMAIN t}
<1>1. \A a \in DOMAIN t : Len(a) \in Nat /\ Top(t, a) \in Nat /\ Top(t, a) <= Len(a)
  BY TreeProps
<1>2. T # {} /\ T \subseteq Nat
  BY <1>1
<1>3. PICK n \in T : \A k \in T : n <= k
  BY <1>2, Least
<1>4. PICK a \in DOMAIN t : Len(a) = n
  BY <1>3
<1>5. ASSUME Top(t, a) > 0 PROVE FALSE
  <2>1. Parent(t, a) \in DOMAIN t /\ Len(Parent(t, a)) = Top(t, a) - 1
    BY <1>5, TreeProps
  <2>2. n <= Len(Parent(t, a))
    BY <1>3, <2>1
  <2>3. QED
    BY <1>1, <1>4, <2>1, <2>2
<1>6. Top(t, a) = 0
  BY <1>1, <1>5
<1>7. Root(t) = a
  BY <1>6, TreeProps DEF Root
<1>8. QED
  BY <1>6, <1>7

\* The children of a node.
LEMMA KidProps ==
  ASSUME NEW t, TrieType(t), Hangs(t), NEW a \in DOMAIN t, NEW c \in Kids(t, a)
  PROVE  /\ c \in t[a].children /\ c \in Char
         /\ Kid(t, a, c) \in DOMAIN t /\ Start(t, Kid(t, a, c)) = Append(a, c)
         /\ Top(t, Kid(t, a, c)) = Len(a) + 1 /\ Len(a) < Len(Kid(t, a, c))
         /\ Upto(Kid(t, a, c), Len(a)) = a /\ Kid(t, a, c)[Len(a) + 1] = c
<1>1. c \in t[a].children /\ IsNode(t, Append(a, c))
  BY DEF Kids
<1>2. a \in Str /\ Len(a) \in Nat /\ c \in Char
  BY <1>1, TreeProps DEF NodeType
<1>3. PICK b \in DOMAIN t : Start(t, b) = Append(a, c)
  BY <1>1 DEF IsNode
<1>4. Kid(t, a, c) = b
  BY <1>3, TreeProps DEF Kid
<1>5. /\ b \in Str /\ Len(b) \in Nat /\ Top(t, b) \in 0 .. Len(b) /\ Len(Start(t, b)) = Top(t, b)
  BY TreeProps
<1> DEFINE s == Append(a, c)
<1>6. /\ s \in Str /\ Len(s) = Len(a) + 1 /\ s[Len(a) + 1] = c /\ Upto(s, Len(a)) = a
  BY <1>2, AppendedOne
<1>7. Top(t, b) = Len(s) /\ Upto(b, Top(t, b)) = s
  BY <1>3, <1>5 DEF Start
<1> DEFINE n == Len(s)
<1> HIDE DEF s
<1>8. n = Len(a) + 1 /\ n = Top(t, b)
  BY <1>6, <1>7
<1> HIDE DEF n
<1>9. Upto(b, n) = s
  BY <1>7, <1>8
<1>10. Len(a) \in 0 .. n /\ n \in 0 .. Len(b) /\ Len(a) + 1 \in 1 .. n /\ Len(a) < Len(b)
  BY <1>2, <1>5, <1>8
<1>11. Upto(b, Len(a)) = a
  <2>1. Upto(Upto(b, n), Len(a)) = Upto(b, Len(a))
    BY <1>5, <1>10, UptoUpto
  <2>2. QED
    BY <1>6, <1>9, <2>1
<1>12. b[Len(a) + 1] = c
  <2>1. \A i \in 1 .. n : Upto(b, n)[i] = b[i]
    BY <1>5, <1>10, UptoProps
  <2>2. s[Len(a) + 1] = b[Len(a) + 1]
    BY <1>9, <1>10, <2>1
  <2>3. QED
    BY <1>6, <2>2
<1>13. QED
  BY <1>1, <1>2, <1>3, <1>4, <1>8, <1>10, <1>11, <1>12

\* A node with a longer string is below a child.
LEMMA KidOnTheWay ==
  ASSUME NEW t, TrieType(t), Hangs(t), NEW q \in DOMAIN t, NEW a \in DOMAIN t,
         Len(q) < Len(a), Upto(a, Len(q)) = q
  PROVE  /\ a[Len(q) + 1] \in Kids(t, q)
         /\ Len(Kid(t, q, a[Len(q) + 1])) <= Len(a)
         /\ Upto(a, Len(Kid(t, q, a[Len(q) + 1]))) = Kid(t, q, a[Len(q) + 1])
<1>1. PICK b \in DOMAIN t :
            /\ Len(b) <= Len(a) /\ Upto(a, Len(b)) = b
            /\ Start(t, b) = Append(q, a[Len(q) + 1])
            /\ a[Len(q) + 1] \in t[q].children
  BY Descends
<1>2. a[Len(q) + 1] \in Kids(t, q)
  BY <1>1 DEF Kids, IsNode
<1>3. Node(t, Start(t, b)) = b
  BY TreeProps
<1>4. Kid(t, q, a[Len(q) + 1]) = b
  BY <1>1, <1>3 DEF Kid
<1>5. QED
  BY <1>1, <1>2, <1>4

-----------------------------------------------------------------------------
(* The walk.                                                                *)

\* f is the function by which Walk is defined, for the first n steps.
Walks(f, t, s, n) ==
    f = [k \in 0 .. n |-> IF k = 0 THEN Root(t) ELSE Below(t, f[k - 1], s)]

\* There is such a function.
LEMMA WalksExists ==
  ASSUME NEW t, NEW s, NEW N \in Nat
  PROVE  \E f : Walks(f, t, s, N)
<1> DEFINE G(n) == \E f : Walks(f, t, s, n)
           T == {n \in Nat : ~G(n)}
<1> HIDE DEF G
<1>1. SUFFICES ASSUME T # {} PROVE FALSE
  BY DEF G
<1>2. T \subseteq Nat /\ \A n : n \in T <=> n \in Nat /\ ~G(n)
  OBVIOUS
<1> HIDE DEF T
<1>3. PICK n \in T : \A k \in T : n <= k
  BY <1>1, <1>2, Least
<1>4. n \in Nat /\ ~G(n)
  BY <1>2
<1>5. n # 0
  <2> DEFINE f == [k \in 0 .. 0 |-> Root(t)]
  <2>1. f = [k \in 0 .. 0 |-> IF k = 0 THEN Root(t) ELSE Below(t, f[k - 1], s)]
    OBVIOUS
  <2>2. Walks(f, t, s, 0)
    BY <2>1 DEF Walks
  <2>3. QED
    BY <1>4, <2>2 DEF G
<1>6. n - 1 \in Nat
  BY <1>4, <1>5
<1>7. G(n - 1)
  <2>1. ~(n <= n - 1)
    BY <1>4
  <2>2. QED
    BY <1>2, <1>3, <1>6, <2>1
<1>8. PICK f : Walks(f, t, s, n - 1)
  BY <1>7 DEF G
<1> DEFINE h(k) == IF k = 0 THEN Root(t) ELSE Below(t, f[k - 1], s)
           g == [k \in 0 .. n |-> h(k)]
<1>9. \A k \in 0 .. n - 1 : f[k] = h(k)
  BY <1>8 DEF Walks
<1> HIDE DEF h
<1>10. \A k \in 0 .. n : k # 0 => g[k - 1] = f[k - 1]
  BY <1>4, <1>5, <1>9
<1>11. \A k \in 0 .. n : g[k] = IF k = 0 THEN Root(t) ELSE Below(t, g[k - 1], s)
  BY <1>10 DEF h
<1>12. Walks(g, t, s, n)
  BY <1>11 DEF Walks
<1>13. QED
  BY <1>4, <1>12 DEF G

\* Walk is one.
LEMMA WalkByFunction ==
  ASSUME NEW t, NEW s \in Str
  PROVE  /\ Walk(t, s)[0] = Root(t)
         /\ \A k \in 1 .. Len(s) : Walk(t, s)[k] = Below(t, Walk(t, s)[k - 1], s)
<1> DEFINE N == Len(s)
           F == CHOOSE f : f = [k \in 0 .. Len(s) |->
                                  IF k = 0 THEN Root(t) ELSE Below(t, f[k - 1], s)]
<1>1. N \in Nat
  BY DEF Str
<1>2. PICK f : Walks(f, t, s, N)
  <2> HIDE DEF N
  <2>1. QED
    BY <1>1, WalksExists
<1>3. f = [k \in 0 .. Len(s) |-> IF k = 0 THEN Root(t) ELSE Below(t, f[k - 1], s)]
  BY <1>2 DEF Walks
<1>4. F = [k \in 0 .. Len(s) |-> IF k = 0 THEN Root(t) ELSE Below(t, F[k - 1], s)]
  BY <1>3
<1>5. Walk(t, s) = F
  BY DEF Walk
<1> HIDE DEF F
<1>6. F[0] = Root(t) /\ \A k \in 1 .. Len(s) : F[k] = Below(t, F[k - 1], s)
  BY <1>1, <1>4
<1>7. QED
  BY <1>5, <1>6

\* A step of the walk.
LEMMA BelowProps ==
  ASSUME NEW t, TrieType(t), Hangs(t), NEW s \in Str, NEW a \in DOMAIN t,
         Below(t, a, s) # a
  PROVE  /\ Len(a) < Len(s) /\ Upto(s, Len(a)) = a /\ s[Len(a) + 1] \in Kids(t, a)
         /\ Below(t, a, s) = Kid(t, a, s[Len(a) + 1])
<1>1. a \in Str
  BY TreeProps
<1>2. /\ IsStrictPrefix(a, s) /\ s[Len(a) + 1] \in t[a].children
      /\ IsNode(t, Append(a, s[Len(a) + 1]))
      /\ Below(t, a, s) = Kid(t, a, s[Len(a) + 1])
  BY DEF Below
<1>3. QED
  BY <1>1, <1>2, PrefixProps DEF Kids

\* The walk takes a step where it can.
LEMMA BelowKid ==
  ASSUME NEW t, TrieType(t), Hangs(t), NEW s \in Str, NEW a \in DOMAIN t,
         Len(a) < Len(s), Upto(s, Len(a)) = a, s[Len(a) + 1] \in Kids(t, a)
  PROVE  Below(t, a, s) = Kid(t, a, s[Len(a) + 1])
<1>1. a \in Str
  BY TreeProps
<1>2. IsStrictPrefix(a, s)
  BY <1>1, PrefixProps
<1>3. QED
  BY <1>2 DEF Below, Kids

\* Where the walk can be: what led there is a prefix of the string, and where it
\* has not ended it has got a character further with each step.
At(t, s, k) ==
    LET a == Walk(t, s)[k]
    IN /\ a \in DOMAIN t /\ Top(t, a) <= Len(s) /\ Start(t, a) = Upto(s, Top(t, a))
       /\ Below(t, a, s) = a \/ k <= Len(a)

\* It is there at any step.
LEMMA WalkAt ==
  ASSUME NEW t, TrieType(t), Hangs(t), DOMAIN t # {}, NEW s \in Str, NEW j \in 0 .. Len(s)
  PROVE  At(t, s, j)
<1> DEFINE W == Walk(t, s)
           T == {k \in 0 .. Len(s) : ~At(t, s, k)}
<1>1. Len(s) \in Nat /\ Upto(s, 0) = <<>>
  BY UptoEnds
<1>2. SUFFICES ASSUME T # {} PROVE FALSE
  OBVIOUS
<1>3. T \subseteq Nat
  OBVIOUS
<1>4. PICK k \in T : \A i \in T : k <= i
  BY <1>2, <1>3, Least
<1>5. k \in 0 .. Len(s) /\ ~At(t, s, k) /\ \A i \in 0 .. Len(s) : i < k => At(t, s, i)
  BY <1>1, <1>4
<1> HIDE DEF T
<1>6. W[0] = Root(t) /\ \A i \in 1 .. Len(s) : W[i] = Below(t, W[i - 1], s)
  BY WalkByFunction
<1> HIDE DEF W
<1>7. k # 0
  <2>1. /\ W[0] \in DOMAIN t /\ Top(t, W[0]) = 0 /\ Start(t, W[0]) = <<>>
        /\ Len(W[0]) \in Nat
    BY <1>6, RootProps, TreeProps
  <2>2. At(t, s, 0)
    BY <1>1, <2>1 DEF At, W
  <2>3. QED
    BY <1>5, <2>2
<1>8. k - 1 \in 0 .. Len(s) /\ k - 1 < k /\ k \in 1 .. Len(s) /\ k \in Nat
  BY <1>1, <1>5, <1>7
<1> DEFINE x == W[k - 1]
           y == W[k]
<1>9. At(t, s, k - 1)
  BY <1>5, <1>8
<1>10. /\ x \in DOMAIN t /\ Top(t, x) <= Len(s) /\ Start(t, x) = Upto(s, Top(t, x))
       /\ Below(t, x, s) = x \/ k - 1 <= Len(x)
  BY <1>9 DEF At, W
<1>11. y = Below(t, x, s)
  BY <1>6, <1>8
<1>12. ~(/\ y \in DOMAIN t /\ Top(t, y) <= Len(s) /\ Start(t, y) = Upto(s, Top(t, y))
         /\ Below(t, y, s) = y \/ k <= Len(y))
  BY <1>5 DEF At, W
<1> HIDE DEF x, y
<1>13. y # x
  BY <1>10, <1>11, <1>12
<1>14. /\ Len(x) < Len(s) /\ Upto(s, Len(x)) = x /\ s[Len(x) + 1] \in Kids(t, x)
       /\ y = Kid(t, x, s[Len(x) + 1])
  BY <1>10, <1>11, <1>13, BelowProps
<1>15. /\ y \in DOMAIN t /\ Start(t, y) = Append(x, s[Len(x) + 1])
       /\ Top(t, y) = Len(x) + 1 /\ Len(x) < Len(y)
  BY <1>10, <1>14, KidProps
<1>16. Len(x) \in Nat /\ Len(y) \in Nat
  BY <1>10, <1>15, TreeProps
<1>17. Len(x) \in 0 .. Len(s) - 1
  BY <1>1, <1>14, <1>16
<1>18. Append(Upto(s, Len(x)), s[Len(x) + 1]) = Upto(s, Len(x) + 1)
  BY <1>17, UptoNext
<1>19. Start(t, y) = Upto(s, Top(t, y)) /\ Top(t, y) <= Len(s)
  BY <1>1, <1>14, <1>15, <1>16, <1>18
<1>20. k <= Len(y)
  BY <1>8, <1>10, <1>11, <1>13, <1>15, <1>16
<1>21. QED
  BY <1>12, <1>15, <1>19, <1>20

\* When it has ended it stays.
LEMMA WalkStays ==
  ASSUME NEW t, NEW s \in Str, NEW j \in 0 .. Len(s),
         Below(t, Walk(t, s)[j], s) = Walk(t, s)[j]
  PROVE  End(t, s) = Walk(t, s)[j]
<1> DEFINE W == Walk(t, s)
           T == {k \in j .. Len(s) : W[k] # W[j]}
<1>1. Len(s) \in Nat /\ j \in Nat
  BY UptoEnds
<1>2. \A i \in 1 .. Len(s) : W[i] = Below(t, W[i - 1], s)
  BY WalkByFunction
<1>3. End(t, s) = W[Len(s)]
  BY DEF End
<1>4. Below(t, W[j], s) = W[j]
  OBVIOUS
<1>5. SUFFICES ASSUME T # {} PROVE FALSE
  BY <1>1, <1>3
<1> HIDE DEF W
<1>6. T \subseteq Nat
  BY <1>1
<1>7. PICK k \in T : \A i \in T : k <= i
  BY <1>5, <1>6, Least
<1>8. k \in j .. Len(s) /\ W[k] # W[j] /\ \A i \in j .. Len(s) : i < k => W[i] = W[j]
  BY <1>1, <1>7
<1> HIDE DEF T
<1>9. k # j /\ k \in 1 .. Len(s) /\ k - 1 \in j .. Len(s) /\ k - 1 < k
  BY <1>1, <1>8
<1>10. W[k - 1] = W[j] /\ W[k] = Below(t, W[k - 1], s)
  BY <1>2, <1>8, <1>9
<1>11. QED
  BY <1>4, <1>8, <1>10

\* It ends at a node that leads no further.
LEMMA EndProps ==
  ASSUME NEW t, TrieType(t), Hangs(t), DOMAIN t # {}, NEW s \in Str
  PROVE  /\ End(t, s) \in DOMAIN t
         /\ Top(t, End(t, s)) <= Len(s) /\ Start(t, End(t, s)) = Upto(s, Top(t, End(t, s)))
         /\ Below(t, End(t, s), s) = End(t, s)
<1> DEFINE e == End(t, s)
<1>1. Len(s) \in Nat /\ Len(s) \in 0 .. Len(s)
  BY UptoEnds
<1>2. At(t, s, Len(s))
  BY <1>1, WalkAt
<1>3. e = Walk(t, s)[Len(s)]
  BY DEF End
<1>4. /\ e \in DOMAIN t /\ Top(t, e) <= Len(s) /\ Start(t, e) = Upto(s, Top(t, e))
      /\ Below(t, e, s) = e \/ Len(s) <= Len(e)
  BY <1>2, <1>3 DEF At
<1> HIDE DEF e
<1>5. Len(e) \in Nat
  BY <1>4, TreeProps
<1>6. Below(t, e, s) = e
  BY <1>1, <1>4, <1>5, BelowProps
<1>7. QED
  BY <1>4, <1>6 DEF e

\* It visits all nodes that are prefixes of the string, and ends at that of the
\* string itself.
LEMMA Visits ==
  ASSUME NEW t, TrieType(t), Hangs(t), NEW s \in Str, NEW a0 \in DOMAIN t,
         Len(a0) <= Len(s), Upto(s, Len(a0)) = a0
  PROVE  a0 \in Visited(t, s)
<1> DEFINE W == Walk(t, s)
           Missed(a) == Len(a) <= Len(s) /\ Upto(s, Len(a)) = a /\ a \notin Visited(t, s)
           T == {n \in Nat : \E a \in DOMAIN t : n = Len(a) /\ Missed(a)}
<1>1. \A a \in DOMAIN t : Len(a) \in Nat /\ Top(t, a) \in Nat /\ Top(t, a) <= Len(a) /\ a \in Str
  BY TreeProps
<1>2. SUFFICES ASSUME Missed(a0) PROVE FALSE
  OBVIOUS
<1>3. T # {} /\ T \subseteq Nat
  <2>1. Len(a0) \in T
    BY <1>1, <1>2
  <2>2. QED
    BY <2>1
<1>4. PICK n \in T : \A k \in T : n <= k
  BY <1>3, Least
<1>5. PICK a \in DOMAIN t : n = Len(a) /\ Missed(a)
  BY <1>4
<1>6. ASSUME NEW p \in DOMAIN t, Missed(p) PROVE Len(a) <= Len(p)
  <2>1. Len(p) \in T
    BY <1>1, <1>6
  <2>2. QED
    BY <1>4, <1>5, <2>1
<1>7. /\ Len(a) <= Len(s) /\ Upto(s, Len(a)) = a /\ a \in Str
      /\ Len(a) \in Nat /\ Top(t, a) \in Nat /\ Top(t, a) <= Len(a) /\ Len(s) \in Nat
  BY <1>1, <1>5, UptoEnds
<1>8. a \notin Visited(t, s)
  BY <1>5
<1> HIDE DEF T
<1>9. \A k \in 0 .. Len(s) : W[k] \in Visited(t, s)
  BY DEF Visited
<1>10. W[0] = Root(t) /\ \A i \in 1 .. Len(s) : W[i] = Below(t, W[i - 1], s)
  BY WalkByFunction
<1>11. Top(t, a) # 0
  <2>1. SUFFICES ASSUME Top(t, a) = 0 PROVE FALSE
    OBVIOUS
  <2>2. Root(t) = a
    BY <2>1, TreeProps DEF Root
  <2>3. W[0] \in Visited(t, s)
    BY <1>7, <1>9
  <2>4. QED
    BY <1>8, <1>10, <2>2, <2>3
<1> DEFINE q == Parent(t, a)
<1>12. /\ q \in DOMAIN t /\ Len(q) = Top(t, a) - 1 /\ q = Upto(a, Top(t, a) - 1)
       /\ Start(t, a) = Append(q, Edge(t, a)) /\ Edge(t, a) \in t[q].children
       /\ Edge(t, a) = a[Top(t, a)] /\ Node(t, Start(t, a)) = a
  BY <1>7, <1>11, TreeProps DEF Parent, Edge
<1> HIDE DEF q
<1>13. /\ Len(q) \in 0 .. Len(a) /\ Len(a) \in 0 .. Len(s) /\ Len(q) < Len(s) /\ Len(q) < Len(a)
       /\ Len(q) + 1 = Top(t, a) /\ Len(q) + 1 \in 1 .. Len(a)
  BY <1>7, <1>11, <1>12
<1>14. Upto(s, Len(q)) = q
  <2>1. Upto(Upto(s, Len(a)), Len(q)) = Upto(s, Len(q))
    BY <1>13, UptoUpto
  <2>2. QED
    BY <1>7, <1>12, <2>1
<1>15. s[Len(q) + 1] = Edge(t, a)
  <2>1. \A i \in 1 .. Len(a) : Upto(s, Len(a))[i] = s[i]
    BY <1>13, UptoProps
  <2>2. QED
    BY <1>7, <1>12, <1>13, <2>1
<1>16. s[Len(q) + 1] \in Kids(t, q) /\ Kid(t, q, s[Len(q) + 1]) = a
  BY <1>12, <1>15 DEF Kids, Kid, IsNode
<1>17. Below(t, q, s) = a
  BY <1>12, <1>13, <1>14, <1>16, BelowKid
<1>18. a # q
  BY <1>13
<1>19. q \in Visited(t, s)
  <2>1. ~(Len(a) <= Len(q))
    BY <1>7, <1>13
  <2>2. ~Missed(q)
    BY <1>6, <1>12, <2>1
  <2>3. QED
    BY <1>13, <1>14, <2>2
<1>20. PICK k \in 0 .. Len(s) : W[k] = q
  BY <1>19 DEF Visited
<1>21. k # Len(s)
  <2>1. SUFFICES ASSUME k = Len(s) PROVE FALSE
    OBVIOUS
  <2>2. End(t, s) = q
    BY <1>20, <2>1 DEF End
  <2>3. Below(t, q, s) = q
    BY <2>2, EndProps
  <2>4. QED
    BY <1>17, <1>18, <2>3
<1>22. k + 1 \in 1 .. Len(s) /\ k + 1 \in 0 .. Len(s) /\ (k + 1) - 1 = k
  BY <1>7, <1>20, <1>21
<1>23. W[k + 1] = Below(t, W[(k + 1) - 1], s)
  BY <1>10, <1>22
<1>24. W[k + 1] = a
  BY <1>17, <1>20, <1>22, <1>23
<1>25. QED
  BY <1>8, <1>9, <1>22, <1>24

\* The subscriptions of the node for a string, if there is one.
Ref(t, s) == IF s \in DOMAIN t THEN t[s].refcount ELSE 0

\* They are what is found.
LEMMA EndOfNode ==
  ASSUME NEW t, TrieType(t), Hangs(t), NEW s \in DOMAIN t
  PROVE  End(t, s) = s
<1>1. s \in Str /\ Len(s) \in Nat /\ Upto(s, Len(s)) = s
  BY TreeProps, UptoEnds
<1>2. s \in Visited(t, s)
  BY <1>1, Visits
<1>3. PICK k \in 0 .. Len(s) : Walk(t, s)[k] = s
  BY <1>2 DEF Visited
<1>4. Below(t, s, s) = s
  BY DEF Below, IsStrictPrefix
<1>5. QED
  BY <1>1, <1>3, <1>4, WalkStays

\* The same for any string.
LEMMA HeldIsRef ==
  ASSUME NEW t, TrieType(t), Hangs(t), NEW s \in Str
  PROVE  Held(t, s) = Ref(t, s)
<1>1. CASE s \in DOMAIN t
  BY <1>1, EndOfNode DEF Held, Ref
<1>2. CASE s \notin DOMAIN t
  <2>1. DOMAIN t # {} => End(t, s) # s
    BY <1>2, EndProps
  <2>2. QED
    BY <1>2, <2>1 DEF Held, Ref
<1>3. QED
  BY <1>1, <1>2

-----------------------------------------------------------------------------
(* Arrays of children.                                                      *)

\* A set of characters is finite.
LEMMA CharSet ==
  ASSUME NEW S, S \subseteq Char
  PROVE  /\ IsFiniteSet(S) /\ Cardinality(S) \in Nat
         /\ (Cardinality(S) = 0 <=> S = {}) /\ (Cardinality(S) = 1 <=> \E x : S = {x})
         /\ \A x : Cardinality(S \cup {x}) = IF x \in S THEN Cardinality(S) ELSE Cardinality(S) + 1
<1>1. IsFiniteSet(0 .. 255)
  <2>1. 0 \in Int /\ 255 \in Int
    OBVIOUS
  <2>2. QED
    BY <2>1, FS_Interval
<1>2. IsFiniteSet(S)
  BY <1>1, FS_Subset DEF Char
<1>3. Cardinality(S) \in Nat
  BY <1>2, FS_CardinalityType
<1>4. QED
  BY <1>2, <1>3, FS_EmptySet, FS_Singleton, FS_AddElement

\* The first and the last character of a set, and those from the one to the other.
LEMMA HullProps ==
  ASSUME NEW S, S \subseteq Char, S # {}
  PROVE  /\ Min(S) \in S /\ Max(S) \in S /\ \A x \in S : Min(S) <= x /\ x <= Max(S)
         /\ S \subseteq Hull(S) /\ Hull(S) \subseteq Char
         /\ Min(Hull(S)) = Min(S) /\ Max(Hull(S)) = Max(S)
<1>1. PICK a \in S : \A x \in S : a <= x
  <2>1. S \subseteq Nat
    BY DEF Char
  <2>2. QED
    BY <2>1, Least
<1> DEFINE T == {255 - x : x \in S}
<1>2. T \subseteq Nat /\ T # {}
  BY DEF Char
<1>3. PICK k \in T : \A y \in T : k <= y
  BY <1>2, Least
<1>4. PICK b \in S : k = 255 - b
  OBVIOUS
<1>5. ASSUME NEW x \in S PROVE x <= b
  <2>1. k <= 255 - x
    BY <1>3
  <2>2. QED
    BY <1>4, <2>1 DEF Char
<1>6. Min(S) \in S /\ \A x \in S : Min(S) <= x
  BY <1>1 DEF Min
<1>7. Max(S) \in S /\ \A x \in S : Max(S) >= x
  <2>1. \E y \in S : \A x \in S : y >= x
    BY <1>5 DEF Char
  <2>2. QED
    BY <2>1 DEF Max
<1> DEFINE u == Min(S)
           v == Max(S)
<1>8. u \in Char /\ v \in Char /\ u <= v /\ \A x \in S : u <= x /\ x <= v
  BY <1>6, <1>7 DEF Char
<1>9. Hull(S) = u .. v
  BY DEF Hull
<1>10. u \in S /\ v \in S
  BY <1>6, <1>7
<1> HIDE DEF u, v
<1>11. S \subseteq u .. v /\ u .. v \subseteq Char
  BY <1>8 DEF Char
<1>12. Min(u .. v) = u
  <2>1. u \in u .. v /\ \A y \in u .. v : u <= y
    BY <1>8 DEF Char
  <2>2. \A z \in u .. v : (\A y \in u .. v : z <= y) => z = u
    BY <2>1, <1>8 DEF Char
  <2>3. QED
    BY <2>1, <2>2 DEF Min
<1>13. Max(u .. v) = v
  <2>1. v \in u .. v /\ \A y \in u .. v : v >= y
    BY <1>8 DEF Char
  <2>2. \A z \in u .. v : (\A y \in u .. v : z >= y) => z = v
    BY <2>1, <1>8 DEF Char
  <2>3. QED
    BY <2>1, <2>2 DEF Max
<1>14. Min(S) = u /\ Max(S) = v
  BY DEF u, v
<1>15. QED
  BY <1>8, <1>9, <1>10, <1>11, <1>12, <1>13, <1>14

\* Without a character between the first and the last they stay what they are.
LEMMA HullWithout ==
  ASSUME NEW S, S \subseteq Char, S # {}, NEW c \in Char,
         c \notin {Min(Hull(S \cup {c})), Max(Hull(S \cup {c}))}
  PROVE  Hull(S \cup {c}) = Hull(S)
<1> DEFINE A == S \cup {c}
<1>1. A \subseteq Char /\ A # {}
  OBVIOUS
<1>2. /\ Min(A) \in A /\ Max(A) \in A /\ \A x \in A : Min(A) <= x /\ x <= Max(A)
      /\ Min(Hull(A)) = Min(A) /\ Max(Hull(A)) = Max(A)
  BY <1>1, HullProps
<1>3. /\ Min(S) \in S /\ Max(S) \in S /\ \A x \in S : Min(S) <= x /\ x <= Max(S)
  BY HullProps
<1>4. Min(A) \in S /\ Max(A) \in S
  BY <1>2
<1>5. Min(A) = Min(S) /\ Max(A) = Max(S)
  <2> DEFINE a == Min(A)
             b == Max(A)
             u == Min(S)
             v == Max(S)
  <2>1. u \in A /\ v \in A /\ a \in S /\ b \in S /\ u \in S /\ v \in S
    BY <1>3, <1>4, Zenon
  <2>a. \A x \in S : x \in Nat
    BY DEF Char
  <2>2. a <= u /\ v <= b /\ u <= a /\ b <= v
    BY <1>2, <1>3, <2>1, Zenon
  <2>c. a \in Nat /\ b \in Nat /\ u \in Nat /\ v \in Nat
    BY <2>1, <2>a, Zenon
  <2> HIDE DEF a, b, u, v
  <2>3. a = u /\ b = v
    BY <2>c, <2>2
  <2>4. QED
    BY <2>3 DEF a, b, u, v
<1>6. QED
  BY <1>5 DEF Hull

-----------------------------------------------------------------------------
(* The nodes of a branch have PrefixMax + 1 characters each, up to the last. *)

\* The rest of a division.
LEMMA Rest ==
  ASSUME NEW M \in Nat \ {0}, NEW d \in Nat
  PROVE  /\ d % M \in 0 .. M - 1 /\ d % M <= d
         /\ (d < M => d % M = d)
         /\ (d >= M => (d - (d % M) - 1) % M = M - 1)
<1>1. d % M \in 0 .. M - 1 /\ d % M <= d
  BY SMTT(30)
<1>2. d < M => d % M = d
  BY SMTT(30)
<1>3. ASSUME d >= M PROVE (d - (d % M) - 1) % M = M - 1
  <2>1. \A q \in Nat : (q * M + (M - 1)) % M = M - 1
    BY SMTT(60)
  <2> DEFINE q == d \div M
  <2>2. q \in Nat /\ d = q * M + (d % M)
    BY SMTT(60)
  <2> HIDE DEF q
  <2>3. q # 0
    BY <1>1, <1>3, <2>2
  <2>4. q - 1 \in Nat /\ (q - 1) * M = q * M - M
    <3>1. q - 1 \in Nat
      BY <2>2, <2>3
    <3>2. \A p \in Nat : (p + 1) * M = p * M + M
      BY SMTT(30)
    <3>3. (q - 1 + 1) * M = (q - 1) * M + M /\ q - 1 + 1 = q
      BY <2>2, <3>1, <3>2
    <3>4. (q - 1) * M \in Int /\ q * M \in Int
      BY <2>2, <3>1
    <3>5. QED
      BY <3>1, <3>3, <3>4
  <2> DEFINE p == q - 1
  <2>5. p \in Nat /\ (p * M + (M - 1)) % M = M - 1
    BY <2>1, <2>4
  <2>6. p * M + (M - 1) = d - (d % M) - 1
    <3>1. p * M \in Int /\ q * M \in Int /\ d % M \in Int
      BY <1>1, <2>2, <2>5
    <3> DEFINE a == p * M
               b == q * M
               r == d % M
    <3>2. a = b - M /\ d = b + r /\ a \in Int /\ b \in Int /\ r \in Int
      BY <2>2, <2>4, <3>1
    <3> HIDE DEF a, b, r
    <3>3. a + (M - 1) = d - r - 1
      BY <3>2
    <3>4. QED
      BY <3>3 DEF a, b, r
  <2>7. QED
    BY <2>5, <2>6
<1>4. QED
  BY <1>1, <1>2, <1>3

\* After a full node they are counted from the start.
LEMMA RestOfNext ==
  ASSUME NEW M \in Nat \ {0}, NEW d \in Nat, (d % M) = M - 1, NEW r \in 0 .. M - 1
  PROVE  (d + 1 + r) % M = r
<1>1. \A q \in Nat : (q * M + r) % M = r
  BY SMTT(30)
<1>2. d = (d \div M) * M + (d % M) /\ d \div M \in Nat
  BY SMTT(30)
<1> DEFINE q == d \div M
<1>3. q \in Nat /\ d = q * M + (M - 1)
  BY <1>2
<1> HIDE DEF q
<1>4. d + 1 + r = q * M + M + r /\ q + 1 \in Nat
  BY <1>3
<1>5. q * M + M = (q + 1) * M
  BY <1>3, SMTT(30)
<1>6. ((q + 1) * M + r) % M = r
  BY <1>1, <1>4
<1>7. QED
  BY <1>4, <1>5, <1>6

-----------------------------------------------------------------------------
(* Tries as the operations leave them, all of whose nodes are Shaped.       *)

\* Shaped, of a node and the characters it has children for.
NodeOk(n, kids) ==
    /\ n.refcount > 0 \/ kids # {}
    /\ IF n.dense
       THEN n.nbr = Cardinality(kids) /\ n.nbr > SparseMax /\ n.children = Hull(kids)
       ELSE kids = n.children /\ Cardinality(kids) <= SparseMax

Good(t) ==
    /\ TrieType(t) /\ Hangs(t)
    /\ \A a \in DOMAIN t : NodeOk(t[a], Kids(t, a))

\* They are proper.
LEMMA GoodProper ==
  ASSUME NEW t, Good(t)
  PROVE  Proper(t)
<1>1. TrieType(t) /\ Hangs(t)
  BY DEF Good
<1>2. \A a \in DOMAIN t : Linked(t, a)
  BY <1>1, HangsLinked
<1>3. \A a \in DOMAIN t : Shaped(t, a)
  BY DEF Good, Shaped, NodeOk
<1>4. QED
  BY <1>2, <1>3 DEF Proper

\* Where prefixes begin is all there is to the question what children there are.
LEMMA KidsAre ==
  ASSUME NEW t, TrieType(t), Hangs(t), NEW a \in DOMAIN t
  PROVE  /\ Kids(t, a) = {c \in Char : IsNode(t, Append(a, c))}
         /\ Kids(t, a) \subseteq t[a].children /\ Kids(t, a) \subseteq Char
<1>1. a \in Str /\ t[a].children \subseteq Char
  BY TreeProps DEF NodeType
<1>2. ASSUME NEW c \in Char, IsNode(t, Append(a, c)) PROVE c \in t[a].children
  <2>1. PICK b \in DOMAIN t : Start(t, b) = Append(a, c)
    BY <1>2 DEF IsNode
  <2> DEFINE u == Append(a, c)
  <2>2. Len(u) = Len(a) + 1 /\ u \in Str /\ Len(a) \in Nat
    BY <1>1, AppendedOne, TreeProps
  <2>3. Len(Start(t, b)) = Top(t, b) /\ Top(t, b) \in Nat
    BY TreeProps
  <2>4. Start(t, b) = u
    BY <2>1
  <2> HIDE DEF u
  <2>5. Top(t, b) > 0
    BY <2>2, <2>3, <2>4
  <2>6. /\ Parent(t, b) \in Str /\ Edge(t, b) \in Char
        /\ Start(t, b) = Append(Parent(t, b), Edge(t, b))
        /\ Edge(t, b) \in t[Parent(t, b)].children
    BY <2>5, TreeProps
  <2> DEFINE p == Parent(t, b)
             d == Edge(t, b)
  <2>a. p \in Str /\ d \in Char /\ Append(p, d) = Append(a, c)
    BY <2>1, <2>6
  <2> HIDE DEF p, d
  <2>b. p = a /\ d = c
    BY <1>1, <2>a, AppendOne
  <2>7. Parent(t, b) = a /\ Edge(t, b) = c
    BY <2>b DEF p, d
  <2>8. QED
    BY <2>6, <2>7
<1>3. QED
  BY <1>1, <1>2 DEF Kids

\* What hangs from a node is one of its children.
LEMMA EdgeIsKid ==
  ASSUME NEW t, TrieType(t), Hangs(t), NEW b \in DOMAIN t, Top(t, b) > 0
  PROVE  /\ Parent(t, b) \in DOMAIN t /\ Edge(t, b) \in Kids(t, Parent(t, b))
         /\ Kid(t, Parent(t, b), Edge(t, b)) = b
<1>1. /\ Parent(t, b) \in DOMAIN t /\ Edge(t, b) \in t[Parent(t, b)].children
      /\ Start(t, b) = Append(Parent(t, b), Edge(t, b)) /\ Node(t, Start(t, b)) = b
  BY TreeProps
<1>2. QED
  BY <1>1 DEF Kids, IsNode, Kid

\* There is a node for something that is subscribed to.
LEMMA HasSubscription ==
  ASSUME NEW t, Good(t), NEW q \in DOMAIN t, NEW c \in Kids(t, q)
  PROVE  \E u \in DOMAIN t : /\ t[u].refcount > 0 /\ Len(q) < Len(u)
                             /\ Upto(u, Len(q)) = q /\ u[Len(q) + 1] = c
<1> DEFINE On(u) == u \in DOMAIN t /\ Len(q) < Len(u) /\ Upto(u, Len(q)) = q /\ u[Len(q) + 1] = c
<1>1. TrieType(t) /\ Hangs(t)
  BY DEF Good
<1>2. PICK N \in Nat : \A a \in DOMAIN t : Len(a) <= N
  BY <1>1 DEF TrieType
<1>3. \A a \in DOMAIN t : a \in Str /\ Len(a) \in Nat
  BY <1>1, TreeProps
<1> DEFINE T == {N - Len(u) : u \in {v \in DOMAIN t : On(v)}}
<1>4. On(Kid(t, q, c))
  BY <1>1, KidProps
<1>5. T \subseteq Nat /\ T # {}
  <2>1. \A u \in DOMAIN t : N - Len(u) \in Nat
    BY <1>2, <1>3
  <2>2. QED
    BY <1>4, <2>1
<1>6. PICK n \in T : \A k \in T : n <= k
  BY <1>5, Least
<1>7. PICK u \in DOMAIN t : On(u) /\ n = N - Len(u)
  BY <1>6
<1>8. t[u].refcount > 0
  <2>1. SUFFICES ASSUME ~(t[u].refcount > 0) PROVE FALSE
    OBVIOUS
  <2>2. Kids(t, u) # {}
    BY <2>1 DEF Good, NodeOk
  <2>3. PICK d : d \in Kids(t, u)
    BY <2>2
  <2> DEFINE v == Kid(t, u, d)
  <2>4. v \in DOMAIN t /\ Len(u) < Len(v) /\ Upto(v, Len(u)) = u
    BY <1>1, <2>3, KidProps
  <2> HIDE DEF v
  <2>5. v \in Str /\ Len(u) \in 0 .. Len(v) /\ Len(q) \in 0 .. Len(u) /\ Len(q) + 1 \in 1 .. Len(u)
    BY <1>3, <1>7, <2>4
  <2>6. Upto(v, Len(q)) = q
    BY <1>7, <2>4, <2>5, UptoUpto
  <2>7. v[Len(q) + 1] = c
    <3>1. \A i \in 1 .. Len(u) : Upto(v, Len(u))[i] = v[i]
      BY <2>5, UptoProps
    <3>2. QED
      BY <1>7, <2>4, <2>5, <3>1
  <2>8. On(v)
    BY <1>3, <1>7, <2>4, <2>6, <2>7
  <2>9. N - Len(v) \in T
    BY <2>4, <2>8
  <2>10. N - Len(u) <= N - Len(v)
    BY <1>6, <1>7, <2>9
  <2>11. QED
    BY <1>3, <2>4, <2>10
<1>9. QED
  BY <1>7, <1>8

\* The children of a node are what follows it in the subscriptions, if the trie
\* holds those that are longer.
LEMMA BranchesAreKids ==
  ASSUME NEW t, Good(t), NEW f, NEW q \in DOMAIN t,
         \A s \in Topic : s \in Str,
         \A u \in Str : Len(q) < Len(u) =>
            Ref(t, u) = IF u \in Topic THEN f[u] ELSE 0
  PROVE  Branches(f, q) = Kids(t, q)
<1>1. TrieType(t) /\ Hangs(t)
  BY DEF Good
<1>2. q \in Str /\ \A a \in DOMAIN t : a \in Str /\ Len(a) \in Nat
  BY <1>1, TreeProps
<1>3. ASSUME NEW c \in Kids(t, q) PROVE c \in Branches(f, q)
  <2>1. PICK u \in DOMAIN t : /\ t[u].refcount > 0 /\ Len(q) < Len(u)
                              /\ Upto(u, Len(q)) = q /\ u[Len(q) + 1] = c
    BY HasSubscription
  <2>2. u \in Str /\ Ref(t, u) = t[u].refcount
    BY <1>2 DEF Ref
  <2>3. u \in Topic /\ f[u] > 0
    BY <2>1, <2>2
  <2>4. IsStrictPrefix(q, u)
    BY <1>2, <2>1, <2>2, PrefixProps
  <2>5. QED
    BY <2>1, <2>3, <2>4 DEF Branches, Subscriptions
<1>4. ASSUME NEW c \in Branches(f, q) PROVE c \in Kids(t, q)
  <2>1. PICK u \in Topic : f[u] > 0 /\ IsStrictPrefix(q, u) /\ c = u[Len(q) + 1]
    BY DEF Branches, Subscriptions
  <2>2. u \in Str
    OBVIOUS
  <2>3. Len(q) < Len(u) /\ Upto(u, Len(q)) = q
    BY <1>2, <2>1, <2>2, PrefixProps
  <2>4. u \in DOMAIN t
    BY <2>1, <2>2, <2>3 DEF Ref
  <2>5. QED
    BY <1>1, <2>1, <2>3, <2>4, KidOnTheWay
<1>5. QED
  BY <1>3, <1>4

\* Whether its array is dense is a question of how many they are.
LEMMA DenseBranches ==
  ASSUME NEW t, Good(t), NEW q \in DOMAIN t
  PROVE  t[q].dense <=> ~(Cardinality(Kids(t, q)) <= SparseMax)
<1>1. TrieType(t) /\ Hangs(t) /\ NodeOk(t[q], Kids(t, q))
  BY DEF Good
<1>2. Cardinality(Kids(t, q)) \in Nat
  BY <1>1, KidsAre, CharSet
<1>3. t[q].dense \in BOOLEAN /\ SparseMax \in Nat
  BY <1>1, TreeProps, TrieAssumption DEF NodeType
<1>4. QED
  BY <1>1, <1>2, <1>3 DEF NodeOk

-----------------------------------------------------------------------------
(* What the operations do to a trie.                                        *)

\* Another node of the same string and prefix, and no fewer children.
LEMMA Renode ==
  ASSUME NEW t, TrieType(t), Hangs(t), NEW a \in DOMAIN t, NEW n \in NodeType,
         n.prefix_len = t[a].prefix_len, Kids(t, a) \subseteq n.children
  PROVE  LET t2 == [t EXCEPT ![a] = n]
         IN /\ TrieType(t2) /\ Hangs(t2) /\ DOMAIN t2 = DOMAIN t /\ t2[a] = n
            /\ \A u \in DOMAIN t : u # a => t2[u] = t[u]
            /\ \A u \in DOMAIN t : Kids(t2, u) = Kids(t, u)
            /\ \A s : IsNode(t2, s) = IsNode(t, s)
<1> DEFINE t2 == [t EXCEPT ![a] = n]
<1>1. /\ DOMAIN t2 = DOMAIN t /\ t2[a] = n /\ \A u \in DOMAIN t : u # a => t2[u] = t[u]
      /\ t2 = [u \in DOMAIN t |-> t2[u]]
  OBVIOUS
<1> HIDE DEF t2
<1>2. TrieType(t2)
  <2>1. \A u \in DOMAIN t : t2[u] \in NodeType
    BY <1>1 DEF TrieType
  <2>2. QED
    BY <1>1, <2>1 DEF TrieType
<1>3. \A u \in DOMAIN t : /\ t2[u].prefix_len = t[u].prefix_len /\ Top(t2, u) = Top(t, u)
                          /\ Start(t2, u) = Start(t, u)
                          /\ Parent(t2, u) = Parent(t, u) /\ Edge(t2, u) = Edge(t, u)
  <2>1. \A u \in DOMAIN t : t2[u].prefix_len = t[u].prefix_len
    BY <1>1
  <2>2. QED
    BY <2>1 DEF Top, Start, Parent, Edge
<1>4. ASSUME NEW u \in DOMAIN t, Top(t, u) > 0
      PROVE  Parent(t, u) \in DOMAIN t /\ Edge(t, u) \in t2[Parent(t, u)].children
  <2>1. Parent(t, u) \in DOMAIN t /\ Edge(t, u) \in Kids(t, Parent(t, u))
    BY <1>4, EdgeIsKid
  <2>2. Edge(t, u) \in t[Parent(t, u)].children
    BY <2>1, KidsAre
  <2>3. QED
    BY <1>1, <2>1, <2>2
<1>5. Hangs(t2)
  <2>1. \A u \in DOMAIN t2 : t2[u].prefix_len <= PrefixMax /\ t2[u].prefix_len <= Len(u)
    BY <1>1, <1>3 DEF Hangs
  <2>2. \A u, v \in DOMAIN t2 : Start(t2, u) = Start(t2, v) => u = v
    BY <1>1, <1>3 DEF Hangs
  <2>3. \A u \in DOMAIN t2 : Top(t2, u) > 0 =>
           Parent(t2, u) \in DOMAIN t2 /\ Edge(t2, u) \in t2[Parent(t2, u)].children
    BY <1>1, <1>3, <1>4
  <2>4. QED
    BY <2>1, <2>2, <2>3 DEF Hangs
<1>6. \A s : IsNode(t2, s) = IsNode(t, s)
  BY <1>1, <1>3 DEF IsNode
<1>7. \A u \in DOMAIN t : Kids(t2, u) = Kids(t, u)
  <2>1. ASSUME NEW u \in DOMAIN t PROVE Kids(t2, u) = Kids(t, u)
    <3>1. Kids(t, u) = {c \in Char : IsNode(t, Append(u, c))}
      BY KidsAre
    <3>2. Kids(t2, u) = {c \in Char : IsNode(t2, Append(u, c))}
      BY <1>1, <1>2, <1>5, KidsAre
    <3>3. QED
      BY <1>6, <3>1, <3>2
  <2>2. QED
    BY <2>1
<1>8. QED
  BY <1>1, <1>2, <1>5, <1>6, <1>7 DEF t2

\* The node that the compaction of a keeps: the string is that of the child, and
\* what leads to its prefix is what led to that of a.
LEMMA CompactGood ==
  ASSUME NEW t, Good(t), NEW a \in DOMAIN t
  PROVE  /\ Good(Compact(t, a)) /\ \A u : Ref(Compact(t, a), u) = Ref(t, u)
         /\ \A u \in DOMAIN t : u # a =>
               /\ u \in DOMAIN Compact(t, a) /\ Compact(t, a)[u].refcount = t[u].refcount
               /\ Compact(t, a)[u].dense = t[u].dense
               /\ Compact(t, a)[u].children = t[u].children
         /\ DOMAIN Compact(t, a) \subseteq DOMAIN t
         /\ a \in DOMAIN Compact(t, a) => Compact(t, a) = t
<1> DEFINE ch == Kid(t, a, CHOOSE c \in t[a].children : TRUE)
           sum == t[a].prefix_len + t[ch].prefix_len + 1
           cond == /\ t[a].refcount = 0 /\ ~t[a].dense /\ Cardinality(t[a].children) = 1
                   /\ sum <= PrefixMax
           t2 == Restrict([t EXCEPT ![ch].prefix_len = sum], DOMAIN t \ {a})
<1>1. ~cond => Compact(t, a) = t
  BY DEF Compact
<1>2. cond => Compact(t, a) = t2
  BY DEF Compact
<1>3. SUFFICES ASSUME cond
               PROVE  /\ Good(t2) /\ \A u : Ref(t2, u) = Ref(t, u)
                      /\ \A u \in DOMAIN t : u # a =>
                            /\ u \in DOMAIN t2 /\ t2[u].refcount = t[u].refcount
                            /\ t2[u].dense = t[u].dense
                            /\ t2[u].children = t[u].children
                      /\ DOMAIN t2 \subseteq DOMAIN t
                      /\ a \notin DOMAIN t2
  <2>1. CASE cond
    BY <1>2, <1>3, <2>1
  <2>2. CASE ~cond
    BY <1>1, <2>2
  <2>3. QED
    BY <2>1, <2>2
<1>4. /\ TrieType(t) /\ Hangs(t) /\ NodeOk(t[a], Kids(t, a))
      /\ \A u \in DOMAIN t : u \in Str /\ Len(u) \in Nat /\ t[u] \in NodeType
  BY TreeProps DEF Good
<1>5. Kids(t, a) = t[a].children
  BY <1>3, <1>4 DEF NodeOk
<1>6. PICK c : t[a].children = {c}
  <2>1. t[a].children \subseteq Char
    BY <1>4 DEF NodeType
  <2>2. QED
    BY <1>3, <2>1, CharSet
<1>7. /\ c \in Kids(t, a) /\ ch = Kid(t, a, c)
  <2>1. (CHOOSE x \in t[a].children : TRUE) = c
    BY <1>6
  <2>2. QED
    BY <1>5, <1>6, <2>1
<1>8. /\ ch \in DOMAIN t /\ Start(t, ch) = Append(a, c) /\ Top(t, ch) = Len(a) + 1
      /\ Len(a) < Len(ch) /\ Upto(ch, Len(a)) = a /\ c \in Char
  <2> DEFINE k == Kid(t, a, c)
  <2>1. /\ k \in DOMAIN t /\ Start(t, k) = Append(a, c) /\ Top(t, k) = Len(a) + 1
        /\ Len(a) < Len(k) /\ Upto(k, Len(a)) = a /\ c \in Char
    BY <1>4, <1>7, KidProps
  <2>2. ch = k
    BY <1>7
  <2> HIDE DEF ch, k
  <2>3. QED
    BY <2>1, <2>2
<1>9. /\ DOMAIN t2 = DOMAIN t \ {a} /\ ch # a /\ ch \in DOMAIN t2
      /\ \A u \in DOMAIN t2 : u # ch => t2[u] = t[u]
      /\ t2[ch] = [t[ch] EXCEPT !.prefix_len = sum]
      /\ t2 = [u \in DOMAIN t2 |-> t2[u]]
  <2>1. ch # a
    BY <1>4, <1>8
  <2> HIDE DEF ch, sum
  <2>2. QED
    BY <1>8, <2>1 DEF Restrict
<1>10. /\ sum \in Nat /\ t[ch].prefix_len = Len(ch) - (Len(a) + 1)
       /\ t[a].prefix_len = Len(a) - Top(t, a) /\ Top(t, a) \in 0 .. Len(a)
       /\ sum = Len(ch) - Top(t, a) /\ sum <= PrefixMax
  <2>1. /\ t[a].prefix_len = Len(a) - Top(t, a) /\ Top(t, a) \in 0 .. Len(a)
        /\ t[ch].prefix_len = Len(ch) - Top(t, ch)
    BY <1>4, <1>8, TreeProps
  <2>2. Len(a) \in Nat /\ Len(ch) \in Nat
    BY <1>4, <1>8
  <2>4. sum = t[a].prefix_len + t[ch].prefix_len + 1
    OBVIOUS
  <2>5. sum <= PrefixMax
    BY <1>3
  <2> HIDE DEF ch, sum
  <2>3. QED
    BY <1>8, <2>1, <2>2, <2>4, <2>5
<1> HIDE DEF t2
<1>11. /\ t2[ch].prefix_len = sum
       /\ \A u \in DOMAIN t2 : /\ t2[u] \in NodeType /\ t2[u].refcount = t[u].refcount
                               /\ t2[u].dense = t[u].dense /\ t2[u].children = t[u].children
                               /\ t2[u].nbr = t[u].nbr
  <2> HIDE DEF ch, sum
  <2>1. t[ch] \in NodeType
    BY <1>4, <1>8
  <2>2. /\ t2[ch] \in NodeType /\ t2[ch].prefix_len = sum /\ t2[ch].refcount = t[ch].refcount
        /\ t2[ch].dense = t[ch].dense /\ t2[ch].children = t[ch].children
        /\ t2[ch].nbr = t[ch].nbr
    BY <1>9, <1>10, <2>1 DEF NodeType
  <2>3. QED
    BY <1>4, <1>9, <2>2
<1>12. TrieType(t2)
  BY <1>4, <1>9, <1>11 DEF TrieType
<1> DEFINE top == Top(t, a)
<1>13. /\ Top(t2, ch) = top /\ Start(t2, ch) = Start(t, a)
  <2>1. Top(t2, ch) = Len(ch) - sum
    BY <1>11 DEF Top
  <2>2. Top(t2, ch) = top
    <3> HIDE DEF ch, sum, top
    <3>1. Len(ch) \in Nat
      BY <1>4, <1>8
    <3>2. sum = Len(ch) - top /\ top \in Nat
      BY <1>4, <1>10 DEF top
    <3>3. QED
      BY <2>1, <3>1, <3>2
  <2>3. Upto(Upto(ch, Len(a)), top) = Upto(ch, top)
    <3>1. ch \in Str /\ Len(a) \in 0 .. Len(ch) /\ top \in 0 .. Len(a)
      BY <1>4, <1>8, <1>10
    <3> HIDE DEF ch, top
    <3>2. QED
      BY <3>1, UptoUpto
  <2>4. QED
    BY <1>8, <2>2, <2>3 DEF Start
<1>14. \A u \in DOMAIN t2 : u # ch => /\ Top(t2, u) = Top(t, u) /\ Start(t2, u) = Start(t, u)
                                      /\ Parent(t2, u) = Parent(t, u) /\ Edge(t2, u) = Edge(t, u)
  BY <1>9 DEF Top, Start, Parent, Edge
<1>15. \A u, v \in DOMAIN t : Start(t, u) = Start(t, v) => u = v
  BY <1>4 DEF Hangs
<1>16. \A u, v \in DOMAIN t2 : Start(t2, u) = Start(t2, v) => u = v
  <2> HIDE DEF ch
  <2>1. QED
    BY <1>9, <1>13, <1>14, <1>15
<1>17. ASSUME NEW u \in DOMAIN t2, Top(t2, u) > 0
       PROVE  Parent(t2, u) \in DOMAIN t2 /\ Edge(t2, u) \in t2[Parent(t2, u)].children
  <2>1. CASE u # ch
    <3>1. /\ Parent(t, u) \in DOMAIN t /\ Edge(t, u) \in Kids(t, Parent(t, u))
          /\ Kid(t, Parent(t, u), Edge(t, u)) = u
      BY <1>4, <1>9, <1>14, <1>17, <2>1, EdgeIsKid
    <3>2. Parent(t, u) # a
      <4>1. SUFFICES ASSUME Parent(t, u) = a PROVE FALSE
        OBVIOUS
      <4>2. Edge(t, u) = c
        BY <1>5, <1>6, <3>1, <4>1
      <4>3. u = ch
        BY <1>7, <3>1, <4>1, <4>2
      <4>4. QED
        BY <2>1, <4>3
    <3>3. Edge(t, u) \in t[Parent(t, u)].children
      BY <1>4, <3>1, KidsAre
    <3>4. QED
      BY <1>9, <1>11, <1>14, <2>1, <3>1, <3>2, <3>3
  <2>2. CASE u = ch
    <3>1. top > 0
      BY <1>13, <1>17, <2>2
    <3>2. /\ Parent(t, a) \in DOMAIN t /\ Edge(t, a) \in t[Parent(t, a)].children
          /\ Len(Parent(t, a)) = top - 1
      BY <1>4, <3>1, TreeProps
    <3>3. top \in 1 .. Len(a) /\ Len(a) \in 0 .. Len(ch) /\ ch \in Str /\ top - 1 \in 0 .. Len(a)
      BY <1>4, <1>8, <1>10, <3>1
    <3>4. Parent(t, a) # a
      <4> HIDE DEF top, ch
      <4>1. QED
        BY <3>2, <3>3
    <3>5. Parent(t2, ch) = Parent(t, a)
      <4>1. Upto(Upto(ch, Len(a)), top - 1) = Upto(ch, top - 1)
        <5> HIDE DEF ch, top
        <5>1. QED
          BY <3>3, UptoUpto
      <4>2. QED
        BY <1>8, <1>13, <4>1 DEF Parent
    <3>6. Edge(t2, ch) = Edge(t, a)
      <4>1. \A i \in 1 .. Len(a) : Upto(ch, Len(a))[i] = ch[i]
        <5> HIDE DEF ch
        <5>1. QED
          BY <3>3, UptoProps
      <4>2. a[top] = ch[top]
        BY <1>8, <3>3, <4>1
      <4>3. QED
        BY <1>13, <4>2 DEF Edge
    <3>7. QED
      BY <1>9, <1>11, <2>2, <3>2, <3>4, <3>5, <3>6
  <2>3. QED
    BY <2>1, <2>2
<1>18. Hangs(t2)
  <2>1. \A u \in DOMAIN t2 : t2[u].prefix_len <= PrefixMax /\ t2[u].prefix_len <= Len(u)
    <3>1. \A u \in DOMAIN t : t[u].prefix_len <= PrefixMax /\ t[u].prefix_len <= Len(u)
      BY <1>4 DEF Hangs
    <3>2. t2[ch].prefix_len <= PrefixMax /\ t2[ch].prefix_len <= Len(ch)
      <4>1. t2[ch].prefix_len = Len(ch) - top /\ Len(ch) \in Nat /\ top \in Nat
        BY <1>4, <1>8, <1>10, <1>11
      <4>2. t2[ch].prefix_len <= PrefixMax
        BY <1>10, <1>11
      <4> HIDE DEF ch, top
      <4>3. QED
        BY <4>1, <4>2
    <3> HIDE DEF ch
    <3>3. QED
      BY <1>9, <3>1, <3>2
  <2>2. QED
    BY <1>16, <1>17, <2>1 DEF Hangs
<1>19. ASSUME NEW u \in DOMAIN t2
       PROVE  Kids(t2, u) = Kids(t, u)
  <2>1. \A s : IsNode(t2, s) => IsNode(t, s)
    <3> HIDE DEF ch
    <3>1. QED
      BY <1>9, <1>13, <1>14 DEF IsNode
  <2>2. ASSUME NEW d \in Char, IsNode(t, Append(u, d)) PROVE IsNode(t2, Append(u, d))
    <3>1. PICK b \in DOMAIN t : Start(t, b) = Append(u, d)
      BY <2>2 DEF IsNode
    <3>2. CASE b = a
      BY <1>9, <1>13, <3>1, <3>2 DEF IsNode
    <3>3. CASE b # a /\ b # ch
      BY <1>9, <1>14, <3>1, <3>3 DEF IsNode
    <3>4. CASE b = ch
      <4>1. Append(a, c) = Append(u, d) /\ u \in Str /\ a \in Str
        BY <1>4, <1>8, <1>9, <3>1, <3>4
      <4>2. u = a
        BY <1>8, <4>1, AppendOne
      <4>3. QED
        BY <1>9, <4>2
    <3>5. QED
      BY <3>2, <3>3, <3>4
  <2>3. u \in DOMAIN t
    BY <1>9
  <2>4. QED
    BY <1>4, <1>12, <1>18, <2>1, <2>2, <2>3, KidsAre
<1>20. Good(t2)
  <2>1. ASSUME NEW u \in DOMAIN t2 PROVE NodeOk(t2[u], Kids(t2, u))
    <3>1. u \in DOMAIN t /\ NodeOk(t[u], Kids(t, u))
      BY <1>9 DEF Good
    <3>2. QED
      BY <1>11, <1>19, <3>1 DEF NodeOk
  <2>2. QED
    BY <1>12, <1>18, <2>1 DEF Good
<1>21. \A u : Ref(t2, u) = Ref(t, u)
  <2> HIDE DEF ch, sum
  <2>1. QED
    BY <1>3, <1>9, <1>11 DEF Ref
<1>22. QED
  BY <1>9, <1>11, <1>20, <1>21

\* After a split there is a node for the first pos characters of a, with one child.
LEMMA SplitGood ==
  ASSUME NEW t, Good(t), NEW a \in DOMAIN t, NEW pos \in Nat,
         Top(t, a) <= pos, pos < Len(a)
  PROVE  /\ Good(Split(t, a, pos)) /\ \A u : Ref(Split(t, a, pos), u) = Ref(t, u)
         /\ Upto(a, pos) \in DOMAIN Split(t, a, pos)
         /\ Kids(Split(t, a, pos), Upto(a, pos)) = {a[pos + 1]}
         /\ \A u \in DOMAIN t : u \in DOMAIN Split(t, a, pos) =>
               Split(t, a, pos)[u].dense = t[u].dense
<1> DEFINE q == Upto(a, pos)
           x == a[pos + 1]
           top == Top(t, a)
           lower == [t EXCEPT ![a].prefix_len = Len(a) - pos - 1]
           upper == Sparse(0, pos - Top(t, a), {a[pos + 1]})
           t2 == Put(lower, Upto(a, pos), upper)
<1>1. Split(t, a, pos) = Compact(t2, a)
  BY DEF Split
<1>2. /\ TrieType(t) /\ Hangs(t)
      /\ \A u \in DOMAIN t : u \in Str /\ Len(u) \in Nat /\ t[u] \in NodeType
  BY TreeProps DEF Good
<1>3. /\ top \in 0 .. Len(a) /\ t[a].prefix_len = Len(a) - top /\ a \in Str /\ Len(a) \in Nat
      /\ t[a].prefix_len <= PrefixMax
  BY <1>2, TreeProps
<1>4. /\ q \in Str /\ Len(q) = pos /\ x \in Char /\ Append(q, x) = Upto(a, pos + 1)
      /\ \A i \in 1 .. pos : q[i] = a[i]
  <2>1. pos \in 0 .. Len(a) /\ pos \in 0 .. Len(a) - 1
    BY <1>3
  <2>2. QED
    BY <1>3, <2>1, UptoProps, UptoNext
<1>5. q \notin DOMAIN t
  <2>1. SUFFICES ASSUME q \in DOMAIN t PROVE FALSE
    OBVIOUS
  <2>2. Len(q) < Top(t, a)
    BY <1>2, <1>4, <2>1, Inside
  <2>3. QED
    BY <1>3, <1>4, <2>2
<1>6. /\ DOMAIN t2 = DOMAIN t \cup {q} /\ t2 = [u \in DOMAIN t2 |-> t2[u]]
      /\ t2[q] = Sparse(0, pos - top, {x})
      /\ t2[a] = [t[a] EXCEPT !.prefix_len = Len(a) - pos - 1]
      /\ \A u \in DOMAIN t : u # a => t2[u] = t[u]
  <2>1. DOMAIN lower = DOMAIN t
    OBVIOUS
  <2>2. a # q
    BY <1>5
  <2> HIDE DEF q
  <2>3. t2 = [u \in DOMAIN lower \cup {q} |-> IF u = q THEN upper ELSE lower[u]]
    BY DEF Put, q
  <2>4. lower[a] = [t[a] EXCEPT !.prefix_len = Len(a) - pos - 1]
    OBVIOUS
  <2>5. \A u \in DOMAIN t : u # a => lower[u] = t[u]
    OBVIOUS
  <2>6. upper = Sparse(0, pos - top, {x})
    OBVIOUS
  <2> HIDE DEF lower, upper, t2
  <2>7. q \notin DOMAIN t
    BY <1>5
  <2>8. QED
    BY <2>1, <2>2, <2>3, <2>4, <2>5, <2>6, <2>7
<1> HIDE DEF t2, lower, upper
<1>7. \A u \in DOMAIN t2 : u \in Str /\ Len(u) \in Nat
  <2> HIDE DEF q
  <2>1. QED
    BY <1>2, <1>4, <1>6
<1> DEFINE low == Len(a) - pos - 1
<1>8. /\ t2[a].prefix_len = low /\ low \in Nat /\ low <= PrefixMax /\ low <= Len(a)
      /\ t2[q].prefix_len = pos - top /\ pos - top \in Nat /\ pos - top <= PrefixMax
      /\ t2[q].children = {x} /\ t2[q].refcount = 0 /\ t2[q].dense = FALSE
  <2>1. t2[a].prefix_len = low
    <3>1. t[a] \in NodeType
      BY <1>2
    <3>2. QED
      BY <1>6, <3>1 DEF NodeType
  <2>2. /\ t2[q].prefix_len = pos - top /\ t2[q].children = {x} /\ t2[q].refcount = 0
        /\ t2[q].dense = FALSE
    BY <1>6 DEF Sparse
  <2> HIDE DEF q, top
  <2>3. low \in Nat /\ low <= PrefixMax /\ low <= Len(a)
    BY <1>3, TrieAssumption DEF top
  <2>4. pos - top \in Nat /\ pos - top <= PrefixMax
    BY <1>3, TrieAssumption DEF top
  <2>5. QED
    BY <2>1, <2>2, <2>3, <2>4
<1>9. /\ t2[a] \in NodeType /\ t2[a].refcount = t[a].refcount /\ t2[a].dense = t[a].dense
      /\ t2[a].children = t[a].children /\ t2[a].nbr = t[a].nbr
  <2>1. t[a] \in NodeType
    BY <1>2
  <2>2. low \in Nat /\ t2[a] = [t[a] EXCEPT !.prefix_len = low]
    BY <1>6, <1>8
  <2> HIDE DEF low
  <2>3. QED
    BY <2>1, <2>2 DEF NodeType
<1>10. TrieType(t2)
  <2>1. t2[q] \in NodeType
    <3>1. {x} \subseteq Char /\ pos - top \in Nat
      BY <1>4, <1>8
    <3> HIDE DEF q, x, top
    <3>2. QED
      BY <1>6, <3>1 DEF Sparse, NodeType
  <2>2. PICK N \in Nat : \A u \in DOMAIN t : Len(u) <= N
    BY <1>2 DEF TrieType
  <2>3. \A u \in DOMAIN t2 : t2[u] \in NodeType
    <3> HIDE DEF q
    <3>1. QED
      BY <1>2, <1>6, <1>9, <2>1
  <2>4. \A u \in DOMAIN t2 : Len(u) <= N
    <3> HIDE DEF q
    <3>1. Len(q) <= N
      BY <1>2, <1>3, <1>4, <2>2
    <3>2. QED
      BY <1>6, <2>2, <3>1
  <2>5. QED
    BY <1>6, <1>7, <2>3, <2>4 DEF TrieType
<1>11. /\ Top(t2, a) = pos + 1 /\ Start(t2, a) = Append(q, x)
       /\ Parent(t2, a) = q /\ Edge(t2, a) = x
  <2>1. Top(t2, a) = Len(a) - low
    BY <1>8 DEF Top
  <2>2. Top(t2, a) = pos + 1 /\ pos + 1 - 1 = pos
    BY <1>3, <2>1
  <2>3. QED
    BY <1>4, <2>2 DEF Start, Parent, Edge
<1>12. /\ Top(t2, q) = top /\ Start(t2, q) = Start(t, a)
       /\ top > 0 => Parent(t2, q) = Parent(t, a) /\ Edge(t2, q) = Edge(t, a)
  <2>1. Top(t2, q) = Len(q) - (pos - top)
    BY <1>8 DEF Top
  <2>2. Top(t2, q) = top
    <3> HIDE DEF q, top
    <3>1. top \in Nat
      BY <1>3 DEF top
    <3>2. QED
      BY <1>4, <2>1, <3>1
  <2>3. pos \in 0 .. Len(a) /\ top \in 0 .. pos
    BY <1>3
  <2>4. Upto(q, top) = Upto(a, top)
    <3> HIDE DEF top
    <3>1. QED
      BY <1>3, <2>3, UptoUpto
  <2>5. ASSUME top > 0 PROVE Upto(q, top - 1) = Upto(a, top - 1) /\ q[top] = a[top]
    <3> HIDE DEF top
    <3>1. top - 1 \in 0 .. pos /\ top \in 1 .. pos
      BY <2>3, <2>5
    <3>2. QED
      BY <1>3, <1>4, <2>3, <3>1, UptoUpto
  <2>6. QED
    BY <2>2, <2>4, <2>5 DEF Start, Parent, Edge
<1>13. \A u \in DOMAIN t : u # a => /\ Top(t2, u) = Top(t, u) /\ Start(t2, u) = Start(t, u)
                                    /\ Parent(t2, u) = Parent(t, u) /\ Edge(t2, u) = Edge(t, u)
  BY <1>6 DEF Top, Start, Parent, Edge
<1>14. ASSUME NEW b \in DOMAIN t, NEW d \in Char PROVE Start(t, b) # Append(q, d)
  <2>1. SUFFICES ASSUME Start(t, b) = Append(q, d) PROVE FALSE
    OBVIOUS
  <2> DEFINE p == Parent(t, b)
             e == Edge(t, b)
             s == Append(q, d)
  <2>2. Len(s) = pos + 1 /\ s \in Str
    BY <1>4, AppendedOne
  <2>3. Top(t, b) > 0
    <3>1. Len(Start(t, b)) = Top(t, b) /\ Top(t, b) \in Nat
      BY <1>2, TreeProps
    <3>2. Start(t, b) = s
      BY <2>1
    <3> HIDE DEF s
    <3>3. QED
      BY <2>2, <3>1, <3>2
  <2>4. p \in Str /\ e \in Char /\ Start(t, b) = Append(p, e) /\ p \in DOMAIN t
    BY <1>2, <2>3, TreeProps
  <2> HIDE DEF p, e
  <2>5. p = q
    <3>1. Append(p, e) = Append(q, d) /\ q \in Str
      BY <1>4, <2>1, <2>4
    <3> HIDE DEF q
    <3>2. QED
      BY <2>4, <3>1, AppendOne
  <2>6. QED
    BY <1>5, <2>4, <2>5
<1>15. Hangs(t2)
  <2>1. \A u \in DOMAIN t2 : t2[u].prefix_len <= PrefixMax /\ t2[u].prefix_len <= Len(u)
    <3>1. \A u \in DOMAIN t : t[u].prefix_len <= PrefixMax /\ t[u].prefix_len <= Len(u)
      BY <1>2 DEF Hangs
    <3>2. t2[q].prefix_len <= Len(q)
      <4>1. top \in Nat
        BY <1>3
      <4> HIDE DEF q, top
      <4>2. QED
        BY <1>4, <1>8, <4>1
    <3>3. ASSUME NEW u \in DOMAIN t2 PROVE t2[u].prefix_len <= PrefixMax /\ t2[u].prefix_len <= Len(u)
      <4>1. CASE u = a
        BY <1>8, <4>1
      <4>2. CASE u = q
        BY <1>8, <3>2, <4>2
      <4>3. CASE u # a /\ u # q
        <5> HIDE DEF q
        <5>1. u \in DOMAIN t
          BY <1>6, <4>3
        <5>2. QED
          BY <1>6, <3>1, <4>3, <5>1
      <4>4. QED
        BY <4>1, <4>2, <4>3
    <3>4. QED
      BY <3>3
  <2>2. ASSUME NEW u \in DOMAIN t2, NEW v \in DOMAIN t2, Start(t2, u) = Start(t2, v)
        PROVE  u = v
    <3>1. \A b, d \in DOMAIN t : Start(t, b) = Start(t, d) => b = d
      BY <1>2 DEF Hangs
    <3>2. \A b \in DOMAIN t2 : b = a \/ b = q \/ (b \in DOMAIN t /\ b # a)
      <4> HIDE DEF q
      <4>1. QED
        BY <1>6
    <3>3. \A b \in DOMAIN t : Start(t, b) # Append(q, x)
      BY <1>4, <1>14
    <3> HIDE DEF q, x
    <3>4. QED
      BY <2>2, <1>11, <1>12, <1>13, <3>1, <3>2, <3>3
  <2>3. ASSUME NEW u \in DOMAIN t2, Top(t2, u) > 0
        PROVE  Parent(t2, u) \in DOMAIN t2 /\ Edge(t2, u) \in t2[Parent(t2, u)].children
    <3>1. \A b \in DOMAIN t : Top(t, b) > 0 =>
            /\ Parent(t, b) \in DOMAIN t2
            /\ Edge(t, b) \in t2[Parent(t, b)].children
      <4>1. \A b \in DOMAIN t : Top(t, b) > 0 =>
              Parent(t, b) \in DOMAIN t /\ Edge(t, b) \in t[Parent(t, b)].children
        BY <1>2 DEF Hangs
      <4>2. \A b \in DOMAIN t : b \in DOMAIN t2 /\ t2[b].children = t[b].children
        BY <1>6, <1>9
      <4>3. QED
        BY <4>1, <4>2
    <3>2. CASE u = a
      BY <1>6, <1>8, <1>11, <3>2
    <3>3. CASE u = q
      <4>1. top > 0
        BY <1>12, <2>3, <3>3
      <4>2. Parent(t2, q) = Parent(t, a) /\ Edge(t2, q) = Edge(t, a)
        BY <1>12, <4>1
      <4>3. QED
        BY <3>1, <3>3, <4>1, <4>2
    <3>4. CASE u # a /\ u # q
      <4>1. u \in DOMAIN t
        <5> HIDE DEF q
        <5>1. QED
          BY <1>6, <3>4
      <4>2. QED
        BY <1>13, <2>3, <3>1, <3>4, <4>1
    <3>5. QED
      BY <3>2, <3>3, <3>4
  <2>4. QED
    BY <2>1, <2>2, <2>3 DEF Hangs
<1>16. Kids(t2, q) = {x}
  <2>1. Kids(t2, q) \subseteq {x}
    BY <1>6, <1>8, <1>10, <1>15, KidsAre
  <2>2. x \in Kids(t2, q)
    <3>1. Top(t2, a) > 0 /\ a \in DOMAIN t2
      BY <1>6, <1>11
    <3>2. QED
      BY <1>10, <1>11, <1>15, <3>1, EdgeIsKid
  <2>3. QED
    BY <2>1, <2>2
<1>17. ASSUME NEW u \in DOMAIN t PROVE Kids(t2, u) = Kids(t, u)
  <2>1. ASSUME NEW d \in Char PROVE IsNode(t2, Append(u, d)) <=> IsNode(t, Append(u, d))
    <3>1. ASSUME IsNode(t, Append(u, d)) PROVE IsNode(t2, Append(u, d))
      <4>1. PICK b \in DOMAIN t : Start(t, b) = Append(u, d)
        BY <3>1 DEF IsNode
      <4>2. CASE b = a
        BY <1>6, <1>12, <4>1, <4>2 DEF IsNode
      <4>3. CASE b # a
        BY <1>6, <1>13, <4>1, <4>3 DEF IsNode
      <4>4. QED
        BY <4>2, <4>3
    <3>2. ASSUME IsNode(t2, Append(u, d)) PROVE IsNode(t, Append(u, d))
      <4>1. PICK b \in DOMAIN t2 : Start(t2, b) = Append(u, d)
        BY <3>2 DEF IsNode
      <4>2. CASE b = a
        <5>1. Append(q, x) = Append(u, d) /\ u \in Str
          BY <1>2, <1>11, <4>1, <4>2
        <5> HIDE DEF q, x
        <5>2. q = u
          BY <1>4, <5>1, AppendOne
        <5>3. QED
          BY <1>5, <5>2
      <4>3. CASE b = q
        BY <1>12, <4>1, <4>3 DEF IsNode
      <4>4. CASE b # a /\ b # q
        <5> HIDE DEF q
        <5>1. b \in DOMAIN t
          BY <1>6, <4>4
        <5>2. QED
          BY <1>13, <4>1, <4>4, <5>1 DEF IsNode
      <4>5. QED
        BY <4>2, <4>3, <4>4
    <3>3. QED
      BY <3>1, <3>2
  <2>2. Kids(t2, u) = {c \in Char : IsNode(t2, Append(u, c))}
    BY <1>6, <1>10, <1>15, KidsAre
  <2>3. Kids(t, u) = {c \in Char : IsNode(t, Append(u, c))}
    BY <1>2, KidsAre
  <2>4. QED
    BY <2>1, <2>2, <2>3
<1>18. Good(t2)
  <2>1. NodeOk(t2[q], {x})
    <3>1. Cardinality({x}) = 1
      BY FS_Singleton
    <3>2. 1 <= SparseMax
      BY TrieAssumption
    <3> HIDE DEF q, x
    <3>3. QED
      BY <1>8, <3>1, <3>2 DEF NodeOk
  <2>2. ASSUME NEW u \in DOMAIN t PROVE NodeOk(t2[u], Kids(t2, u))
    <3>1. NodeOk(t[u], Kids(t, u))
      BY DEF Good
    <3>2. QED
      BY <1>6, <1>9, <1>17, <3>1 DEF NodeOk
  <2>3. \A u \in DOMAIN t2 : NodeOk(t2[u], Kids(t2, u))
    BY <1>6, <1>16, <2>1, <2>2
  <2>4. QED
    BY <1>10, <1>15, <2>3 DEF Good
<1>19. \A u : Ref(t2, u) = Ref(t, u)
  <2>1. t2[q].refcount = 0 /\ q \notin DOMAIN t
    BY <1>5, <1>8
  <2> HIDE DEF q
  <2>2. QED
    BY <1>6, <1>9, <2>1 DEF Ref
<1> DEFINE t3 == Compact(t2, a)
<1>20. /\ Good(t3) /\ \A u : Ref(t3, u) = Ref(t2, u)
       /\ q \in DOMAIN t3 /\ t3[q].dense = FALSE /\ t3[q].children = {x}
       /\ \A u \in DOMAIN t : u \in DOMAIN t3 => t3[u].dense = t[u].dense
  <2>1. a \in DOMAIN t2 /\ q \in DOMAIN t2 /\ q # a
    BY <1>5, <1>6
  <2>2. /\ Good(t3) /\ \A u : Ref(t3, u) = Ref(t2, u)
        /\ \A u \in DOMAIN t2 : u # a =>
              u \in DOMAIN t3 /\ t3[u].dense = t2[u].dense /\ t3[u].children = t2[u].children
        /\ a \in DOMAIN t3 => t3 = t2
    BY <1>18, <2>1, CompactGood
  <2> HIDE DEF t3
  <2>4. \A u \in DOMAIN t : u \in DOMAIN t3 => t3[u].dense = t[u].dense
    <3>1. \A u \in DOMAIN t : u \in DOMAIN t2 /\ t2[u].dense = t[u].dense
      BY <1>6, <1>9
    <3>2. QED
      BY <2>1, <2>2, <3>1
  <2>3. QED
    BY <1>8, <2>1, <2>2, <2>4
<1>21. Kids(t3, q) = {x}
  BY <1>20 DEF Good, NodeOk
<1>22. QED
  BY <1>1, <1>19, <1>20, <1>21

\* An array that gets a place for one more character stays or becomes what a node
\* with this child must have; where it becomes dense the node loses its refcount.
LEMMA AdoptOk ==
  ASSUME NEW t, Good(t), NEW q \in DOMAIN t, NEW c \in Char, c \notin Kids(t, q)
  PROVE  LET t1 == Adopt(t, q, c)
         IN /\ TrieType(t1) /\ Hangs(t1) /\ DOMAIN t1 = DOMAIN t
            /\ \A u \in DOMAIN t : u # q => t1[u] = t[u]
            /\ \A u \in DOMAIN t : Kids(t1, u) = Kids(t, u)
            /\ \A s : IsNode(t1, s) = IsNode(t, s)
            /\ c \in t1[q].children /\ NodeOk(t1[q], Kids(t, q) \cup {c})
            /\ \/ t1[q].refcount = t[q].refcount
               \/ t1[q].refcount = 0 /\ t1[q].dense # t[q].dense
<1> DEFINE n == t[q]
           all == n.children \cup {c}
           kids == Kids(t, q) \cup {c}
           few == ~n.dense /\ Cardinality(n.children) < SparseMax
           n1 == [n EXCEPT !.children = all]
           n2 == [n EXCEPT !.children = Hull(all), !.nbr = @ + 1]
           n3 == [refcount |-> 0, prefix_len |-> n.prefix_len, dense |-> TRUE,
                  children |-> Hull(all), nbr |-> SparseMax + 1]
           j == CASE few -> n1 [] n.dense -> n2 [] OTHER -> n3
<1>1. Adopt(t, q, c) = [t EXCEPT ![q] = j]
  BY DEF Adopt
<1>2. /\ TrieType(t) /\ Hangs(t) /\ NodeOk(n, Kids(t, q))
      /\ n \in NodeType /\ Kids(t, q) \subseteq n.children /\ Kids(t, q) \subseteq Char
  BY TreeProps, KidsAre DEF Good
<1>3. /\ Cardinality(Kids(t, q)) \in Nat /\ Cardinality(kids) = Cardinality(Kids(t, q)) + 1
  BY <1>2, CharSet
<1>4. /\ all \subseteq Char /\ all # {} /\ kids \subseteq Char /\ kids # {}
  BY <1>2 DEF NodeType
<1>5. kids \subseteq all
  BY <1>2
<1>6. Hull(all) \subseteq Char /\ all \subseteq Hull(all)
  BY <1>4, HullProps
<1>7. n.dense => Hull(all) = Hull(kids)
  <2>1. SUFFICES ASSUME n.dense PROVE Hull(all) = Hull(kids)
    OBVIOUS
  <2>2. n.children = Hull(Kids(t, q)) /\ Kids(t, q) # {}
    <3>1. n.nbr = Cardinality(Kids(t, q)) /\ n.nbr > SparseMax /\ n.children = Hull(Kids(t, q))
      BY <1>2, <2>1 DEF NodeOk
    <3>2. Cardinality(Kids(t, q)) # 0
      BY <1>3, <3>1, TrieAssumption
    <3>3. QED
      BY <1>2, <3>1, <3>2, CharSet
  <2> DEFINE S == Kids(t, q)
  <2>3. /\ S \subseteq Char /\ S # {} /\ n.children = Hull(S)
    BY <1>2, <2>2
  <2> HIDE DEF S
  <2>4. /\ Min(S) \in S /\ Max(S) \in S /\ Hull(S) \subseteq Char /\ Hull(S) # {}
        /\ \A x \in S : Min(S) <= x /\ x <= Max(S)
        /\ S \subseteq Hull(S) /\ Hull(S) = Min(S) .. Max(S)
    BY <2>3, HullProps DEF Hull
  <2>5. Min(all) = Min(kids) /\ Max(all) = Max(kids)
    <3>1. /\ Min(all) \in all /\ Max(all) \in all /\ \A y \in all : Min(all) <= y /\ y <= Max(all)
          /\ Min(kids) \in kids /\ Max(kids) \in kids
          /\ \A y \in kids : Min(kids) <= y /\ y <= Max(kids)
      BY <1>4, HullProps
    <3> DEFINE a == Min(all)
               b == Max(all)
               u == Min(kids)
               v == Max(kids)
               x == Min(S)
               y == Max(S)
    <3>2. /\ a \in Nat /\ b \in Nat /\ u \in Nat /\ v \in Nat /\ x \in Nat /\ y \in Nat
          /\ c \in Nat
      <4>1. \A z \in Char : z \in Nat
        BY DEF Char
      <4>2. a \in Char /\ b \in Char /\ u \in Char /\ v \in Char /\ x \in Char /\ y \in Char
        BY <1>4, <2>3, <2>4, <3>1, Zenon
      <4>3. QED
        BY <4>1, <4>2
    <3>3. kids = S \cup {c} /\ all = (x .. y) \cup {c}
      BY <2>3, <2>4 DEF S
    <3>4. /\ a = c \/ (x <= a /\ a <= y)
          /\ b = c \/ (x <= b /\ b <= y)
      <4>1. a \in all /\ b \in all
        BY <3>1
      <4> HIDE DEF a, b, all, x, y
      <4>2. QED
        BY <3>2, <3>3, <4>1
    <3>5. a <= u /\ v <= b
      <4>1. u \in all /\ v \in all
        BY <1>5, <3>1
      <4>2. QED
        BY <3>1, <4>1
    <3>6. u <= x /\ u <= c /\ y <= v /\ c <= v
      <4>1. x \in kids /\ y \in kids /\ c \in kids
        BY <2>4, <3>3
      <4>2. QED
        BY <3>1, <4>1
    <3> HIDE DEF a, b, u, v, x, y
    <3>7. a = u /\ b = v
      BY <3>2, <3>4, <3>5, <3>6
    <3>8. QED
      BY <3>7 DEF a, b, u, v
  <2>6. QED
    BY <2>5 DEF Hull
<1> HIDE DEF n, all, kids
<1>8. /\ j \in NodeType /\ j.prefix_len = n.prefix_len /\ Kids(t, q) \subseteq j.children
      /\ c \in j.children /\ NodeOk(j, kids)
      /\ j.refcount = n.refcount \/ (j.refcount = 0 /\ j.dense # n.dense)
  <2>1. c \in all /\ Kids(t, q) \subseteq all /\ kids # {}
    BY <1>2, <1>4 DEF all, kids
  <2>2. n.refcount \in Nat /\ n.prefix_len \in Nat /\ n.dense \in BOOLEAN /\ n.nbr \in Nat
    BY <1>2 DEF NodeType
  <2>3. CASE few
    <3>1. j = n1
      BY <2>3
    <3>2. /\ n1 \in NodeType /\ n1.prefix_len = n.prefix_len /\ n1.children = all
          /\ n1.refcount = n.refcount /\ n1.dense = n.dense /\ n1.nbr = n.nbr
      BY <1>2, <1>4 DEF NodeType
    <3>3. Kids(t, q) = n.children /\ Cardinality(Kids(t, q)) < SparseMax
      BY <1>2, <2>3 DEF NodeOk
    <3>4. all = kids
      BY <3>3 DEF all, kids
    <3>5. Cardinality(kids) <= SparseMax
      BY <1>3, <3>3, TrieAssumption
    <3> HIDE DEF n1, j
    <3>6. NodeOk(n1, kids)
      BY <2>1, <2>3, <3>2, <3>4, <3>5 DEF NodeOk
    <3>7. QED
      BY <2>1, <3>1, <3>2, <3>6
  <2>4. CASE n.dense
    <3>1. j = n2
      BY <2>4
    <3>2. /\ n2 \in NodeType /\ n2.prefix_len = n.prefix_len /\ n2.children = Hull(all)
          /\ n2.refcount = n.refcount /\ n2.dense = n.dense /\ n2.nbr = n.nbr + 1
      <4> DEFINE h == Hull(all)
                 k == n.nbr + 1
      <4>1. h \subseteq Char /\ k \in Nat /\ n2 = [n EXCEPT !.children = h, !.nbr = k]
        BY <1>6, <2>2
      <4> HIDE DEF h, k, n2
      <4>2. /\ n2 \in NodeType /\ n2.prefix_len = n.prefix_len /\ n2.children = h
            /\ n2.refcount = n.refcount /\ n2.dense = n.dense /\ n2.nbr = k
        BY <1>2, <4>1 DEF NodeType
      <4>3. QED
        BY <4>2 DEF h, k
    <3>3. n.nbr = Cardinality(Kids(t, q)) /\ n.nbr > SparseMax
      BY <1>2, <2>4 DEF NodeOk
    <3>5. n2.nbr = Cardinality(kids) /\ n2.nbr > SparseMax
      BY <1>3, <2>2, <3>2, <3>3, TrieAssumption
    <3> HIDE DEF n2, j
    <3>6. NodeOk(n2, kids)
      BY <1>7, <2>1, <2>4, <3>2, <3>5 DEF NodeOk
    <3>7. QED
      BY <1>6, <2>1, <3>1, <3>2, <3>6
  <2>5. CASE ~few /\ ~n.dense
    <3>1. j = n3
      BY <2>5
    <3>2. /\ n3 \in NodeType /\ n3.prefix_len = n.prefix_len /\ n3.children = Hull(all)
          /\ n3.refcount = 0 /\ n3.dense = TRUE /\ n3.nbr = SparseMax + 1
      BY <1>6, <2>2, TrieAssumption DEF NodeType
    <3>3. /\ Kids(t, q) = n.children /\ Cardinality(Kids(t, q)) <= SparseMax
          /\ ~(Cardinality(Kids(t, q)) < SparseMax)
      BY <1>2, <2>5 DEF NodeOk
    <3>4. all = kids
      BY <3>3 DEF all, kids
    <3>5. n3.nbr = Cardinality(kids) /\ n3.nbr > SparseMax
      BY <1>3, <3>2, <3>3, TrieAssumption
    <3> HIDE DEF n3, j
    <3>6. NodeOk(n3, kids)
      BY <2>1, <3>2, <3>4, <3>5 DEF NodeOk
    <3>7. QED
      BY <1>6, <2>1, <2>2, <2>5, <3>1, <3>2, <3>6
  <2>6. QED
    BY <2>3, <2>4, <2>5
<1> HIDE DEF j
<1> DEFINE t1 == [t EXCEPT ![q] = j]
<1>9. /\ TrieType(t1) /\ Hangs(t1) /\ DOMAIN t1 = DOMAIN t /\ t1[q] = j
      /\ \A u \in DOMAIN t : u # q => t1[u] = t[u]
      /\ \A u \in DOMAIN t : Kids(t1, u) = Kids(t, u)
      /\ \A s : IsNode(t1, s) = IsNode(t, s)
  <2>1. j.prefix_len = t[q].prefix_len
    BY <1>8 DEF n
  <2>2. QED
    BY <1>2, <1>8, <2>1, Renode
<1>10. /\ c \in t1[q].children /\ NodeOk(t1[q], Kids(t, q) \cup {c})
       /\ \/ t1[q].refcount = t[q].refcount
          \/ t1[q].refcount = 0 /\ t1[q].dense # t[q].dense
  <2>1. t1[q] = j
    BY <1>9
  <2> HIDE DEF t1
  <2>2. QED
    BY <1>8, <2>1 DEF n, kids
<1> HIDE DEF t1
<1>11. Adopt(t, q, c) = t1
  BY <1>1 DEF t1
<1>12. QED
  BY <1>9, <1>10, <1>11

\* The nodes of a new branch for the characters of a string from i on: where their
\* strings end, and where the prefix of the one that ends at e begins.
Pre(i, e) == (e - i) % (PrefixMax + 1)
Ends(i, last) == {e \in i .. last : e = last \/ Pre(i, e) = PrefixMax}
Begin(i, e) == e - Pre(i, e)

\* Each begins where the one before it has its child, the first one at i.
LEMMA EndsProps ==
  ASSUME NEW i \in Nat, NEW last \in Nat, i <= last
  PROVE  /\ last \in Ends(i, last)
         /\ \A e \in Ends(i, last) :
               /\ e \in i .. last /\ Pre(i, e) \in 0 .. PrefixMax /\ Begin(i, e) \in i .. e
               /\ Begin(i, e) > i =>
                     Begin(i, e) - 1 \in Ends(i, last) /\ Begin(i, e) - 1 # last
               /\ e # last => \E f \in Ends(i, last) : Begin(i, f) = e + 1
         /\ \A e, f \in Ends(i, last) : Begin(i, e) = Begin(i, f) => e = f
         /\ \E f \in Ends(i, last) : Begin(i, f) = i
<1> DEFINE M == PrefixMax + 1
           L == Ends(i, last)
<1>1. M \in Nat \ {0} /\ PrefixMax = M - 1 /\ PrefixMax \in Nat
  BY TrieAssumption
<1> HIDE DEF M
<1>2. \A e : e \in L <=> e \in i .. last /\ (e = last \/ Pre(i, e) = PrefixMax)
  BY DEF Ends
<1>3. \A e : Pre(i, e) = ((e - i) % M) /\ Begin(i, e) = e - Pre(i, e)
  BY DEF Pre, M, Begin
<1> HIDE DEF L
<1>4. last \in L
  BY <1>2
<1>5. ASSUME NEW e \in L
      PROVE  /\ e \in i .. last /\ Pre(i, e) \in 0 .. PrefixMax /\ Begin(i, e) \in i .. e
             /\ Begin(i, e) > i => Begin(i, e) - 1 \in L /\ Begin(i, e) - 1 # last
             /\ e # last => \E f \in L : Begin(i, f) = e + 1
  <2> DEFINE d == e - i
             r == d % M
  <2>1. e \in i .. last /\ d \in Nat /\ e = i + d
    BY <1>2
  <2>2. Pre(i, e) = r /\ Begin(i, e) = e - r
    BY <1>3
  <2>3. r \in 0 .. M - 1 /\ r <= d /\ (d < M => r = d) /\ (d >= M => (d - r - 1) % M = M - 1)
    BY <1>1, <2>1, Rest
  <2> HIDE DEF d, r
  <2>4. Begin(i, e) \in i .. e
    BY <2>1, <2>2, <2>3
  <2>5. ASSUME Begin(i, e) > i PROVE Begin(i, e) - 1 \in L /\ Begin(i, e) - 1 # last
    <3> DEFINE f == e - r - 1
    <3>1. d >= M
      BY <1>1, <2>1, <2>2, <2>3, <2>5
    <3>2. f \in i .. last /\ f # last /\ f - i = d - r - 1
      BY <2>1, <2>2, <2>3, <2>5
    <3>3. Pre(i, f) = PrefixMax
      BY <1>1, <1>3, <2>3, <3>1, <3>2
    <3>4. f = Begin(i, e) - 1
      BY <2>2
    <3>5. QED
      BY <1>2, <3>2, <3>3, <3>4
  <2>6. ASSUME e # last PROVE \E f \in L : Begin(i, f) = e + 1
    <3>1. (d % M) = M - 1
      BY <1>1, <1>2, <1>3, <2>6 DEF d
    <3>2. \A k \in 0 .. M - 1 : (d + 1 + k) % M = k
      BY <1>1, <2>1, <3>1, RestOfNext
    <3>3. \A k \in 0 .. M - 1 : Pre(i, e + 1 + k) = k /\ Begin(i, e + 1 + k) = e + 1
      <4>1. ASSUME NEW k \in 0 .. M - 1 PROVE Pre(i, e + 1 + k) = k /\ Begin(i, e + 1 + k) = e + 1
        <5> DEFINE x == e + 1 + k
        <5>1. x - i = d + 1 + k /\ x - k = e + 1
          BY <1>1, <2>1
        <5>2. Pre(i, x) = ((x - i) % M) /\ Begin(i, x) = x - Pre(i, x)
          BY <1>3
        <5>3. (d + 1 + k) % M = k
          BY <3>2
        <5> HIDE DEF x
        <5>4. Pre(i, x) = k /\ Begin(i, x) = e + 1
          BY <5>1, <5>2, <5>3
        <5>5. QED
          BY <5>4 DEF x
      <4>2. QED
        BY <4>1
    <3>4. CASE e + 1 + PrefixMax <= last
      <4>1. PrefixMax \in 0 .. M - 1
        BY <1>1
      <4>2. Pre(i, e + 1 + PrefixMax) = PrefixMax /\ Begin(i, e + 1 + PrefixMax) = e + 1
        BY <3>3, <4>1
      <4>3. e + 1 + PrefixMax \in i .. last
        BY <1>1, <2>1, <3>4
      <4>4. QED
        BY <1>2, <4>2, <4>3
    <3>5. CASE ~(e + 1 + PrefixMax <= last)
      <4> DEFINE k == last - e - 1
      <4>1. k \in 0 .. M - 1 /\ e + 1 + k = last
        BY <1>1, <2>1, <2>6, <3>5
      <4>2. Begin(i, last) = e + 1
        BY <3>3, <4>1
      <4>3. QED
        BY <1>4, <4>2
    <3>6. QED
      BY <3>4, <3>5
  <2>7. QED
    BY <1>1, <2>1, <2>2, <2>3, <2>4, <2>5, <2>6
<1>6. ASSUME NEW e \in L, NEW f \in L, e < f PROVE Begin(i, e) # Begin(i, f)
  <2>1. e # last
    BY <1>2, <1>6
  <2>2. Pre(i, e) = PrefixMax
    BY <1>2, <2>1
  <2>3. Pre(i, f) \in 0 .. PrefixMax /\ e \in Nat /\ f \in Nat
    BY <1>2, <1>5
  <2>4. Begin(i, e) = e - Pre(i, e) /\ Begin(i, f) = f - Pre(i, f)
    BY <1>3
  <2>5. QED
    BY <1>1, <1>6, <2>2, <2>3, <2>4
<1>7. \A e, f \in L : Begin(i, e) = Begin(i, f) => e = f
  <2>1. ASSUME NEW e \in L, NEW f \in L, e # f PROVE e < f \/ f < e
    BY <1>2, <2>1
  <2>2. QED
    BY <1>6, <2>1
<1>8. \E f \in L : Begin(i, f) = i
  <2>1. \A k \in Nat : k < M => Pre(i, i + k) = k /\ Begin(i, i + k) = i
    <3>1. ASSUME NEW k \in Nat, k < M PROVE Pre(i, i + k) = k /\ Begin(i, i + k) = i
      <4>1. i + k - i = k /\ (k % M) = k
        BY <1>1, <3>1, Rest
      <4>2. Pre(i, i + k) = k
        BY <1>3, <4>1
      <4>3. Begin(i, i + k) = i + k - k
        BY <1>3, <4>2
      <4>4. QED
        BY <4>2, <4>3
    <3>2. QED
      BY <3>1
  <2>2. CASE i + PrefixMax <= last
    <3>1. PrefixMax < M
      BY <1>1
    <3>2. Pre(i, i + PrefixMax) = PrefixMax /\ Begin(i, i + PrefixMax) = i
      BY <1>1, <2>1, <3>1
    <3>3. i + PrefixMax \in i .. last
      BY <1>1, <2>2
    <3>4. QED
      BY <1>2, <3>2, <3>3
  <2>3. CASE ~(i + PrefixMax <= last)
    <3> DEFINE k == last - i
    <3>1. k \in Nat /\ k < M /\ i + k = last
      BY <1>1, <2>3
    <3>2. Begin(i, last) = i
      BY <2>1, <3>1
    <3>3. QED
      BY <1>4, <3>2
  <2>4. QED
    BY <2>2, <2>3
<1>9. QED
  BY <1>4, <1>5, <1>7, <1>8 DEF L

\* The trie t2 is t with a new branch.
Branched(t, t2, s, i) ==
    /\ t2 = [u \in DOMAIN t2 |-> t2[u]]
    /\ DOMAIN t2 = DOMAIN t \cup {Upto(s, e) : e \in Ends(i, Len(s))}
    /\ \A u \in DOMAIN t : t2[u] = t[u]
    /\ \A e \in Ends(i, Len(s)) : Upto(s, e) \notin DOMAIN t =>
          t2[Upto(s, e)] = Sparse(IF e = Len(s) THEN 1 ELSE 0, Pre(i, e),
                                  IF e = Len(s) THEN {} ELSE {s[e + 1]})

\* That is what Branch gives.
LEMMA BranchIs ==
  ASSUME NEW t, NEW s \in Str, NEW i \in 0 .. Len(s)
  PROVE  Branched(t, Branch(t, s, i), s, i)
<1> DEFINE last == Len(s)
           L == Ends(i, last)
           D == DOMAIN t \cup {Upto(s, e) : e \in L}
           node(e) == Sparse(IF e = last THEN 1 ELSE 0, Pre(i, e), IF e = last THEN {} ELSE {s[e + 1]})
           t2 == [x \in D |-> IF x \in DOMAIN t THEN t[x] ELSE node(Len(x))]
<1>1. Branch(t, s, i) = t2
  BY DEF Branch, Pre, Ends
<1>2. DOMAIN t2 = D /\ t2 = [u \in DOMAIN t2 |-> t2[u]]
  OBVIOUS
<1>3. \A u \in DOMAIN t : t2[u] = t[u]
  OBVIOUS
<1>4. ASSUME NEW e \in L, Upto(s, e) \notin DOMAIN t PROVE t2[Upto(s, e)] = node(e)
  <2>1. e \in 0 .. Len(s)
    BY UptoEnds DEF Ends
  <2>2. Len(Upto(s, e)) = e
    BY <2>1, UptoProps
  <2>3. t2[Upto(s, e)] = node(Len(Upto(s, e)))
    BY <1>4
  <2>4. QED
    BY <2>2, <2>3
<1> HIDE DEF t2
<1>5. Branched(t, t2, s, i)
  BY <1>2, <1>3, <1>4 DEF Branched
<1>6. QED
  BY <1>1, <1>5

\* A new branch for the characters of s from i on, as the first node of all or from
\* a node that has a place for it.
LEMMA BranchOk ==
  ASSUME NEW t, TrieType(t), Hangs(t), NEW s \in Str, NEW i \in 0 .. Len(s),
         \/ DOMAIN t = {} /\ i = 0
         \/ /\ i > 0 /\ Upto(s, i - 1) \in DOMAIN t /\ ~IsNode(t, Upto(s, i))
            /\ s[i] \in t[Upto(s, i - 1)].children
  PROVE  LET t2 == Branch(t, s, i)
         IN /\ TrieType(t2) /\ Hangs(t2)
            /\ DOMAIN t \subseteq DOMAIN t2 /\ \A u \in DOMAIN t : t2[u] = t[u]
            /\ s \in DOMAIN t2 \ DOMAIN t /\ t2[s].refcount = 1
            /\ \A u \in DOMAIN t2 \ DOMAIN t : /\ NodeOk(t2[u], Kids(t2, u))
                                               /\ u # s => t2[u].refcount = 0
            /\ \A u \in DOMAIN t : Kids(t2, u) =
                  IF i > 0 /\ u = Upto(s, i - 1) THEN Kids(t, u) \cup {s[i]} ELSE Kids(t, u)
<1> DEFINE t2 == Branch(t, s, i)
           last == Len(s)
           L == Ends(i, last)
           New(e) == Upto(s, e)
<1>1. last \in Nat /\ i \in Nat /\ i <= last /\ Upto(s, last) = s
  BY UptoEnds
<1>2. /\ last \in L
      /\ \A e \in L :
            /\ e \in i .. last /\ Pre(i, e) \in 0 .. PrefixMax /\ Begin(i, e) \in i .. e
            /\ Begin(i, e) > i => Begin(i, e) - 1 \in L /\ Begin(i, e) - 1 # last
            /\ e # last => \E f \in L : Begin(i, f) = e + 1
      /\ \A e, f \in L : Begin(i, e) = Begin(i, f) => e = f
      /\ \E f \in L : Begin(i, f) = i
  BY <1>1, EndsProps
<1>3. \A e \in L : e \in 0 .. last /\ e \in Nat /\ Begin(i, e) \in 0 .. e /\ Begin(i, e) \in Nat
  BY <1>1, <1>2
<1>4. \A n \in 0 .. last : /\ New(n) \in Str /\ Len(New(n)) = n
                           /\ \A j \in 1 .. n : New(n)[j] = s[j]
  BY UptoProps
<1>5. /\ t2 = [u \in DOMAIN t2 |-> t2[u]]
      /\ DOMAIN t2 = DOMAIN t \cup {New(e) : e \in L}
      /\ \A u \in DOMAIN t : t2[u] = t[u]
      /\ \A e \in L : New(e) \notin DOMAIN t =>
            t2[New(e)] = Sparse(IF e = last THEN 1 ELSE 0, Pre(i, e),
                                IF e = last THEN {} ELSE {s[e + 1]})
  <2>1. Branched(t, t2, s, i)
    BY BranchIs
  <2> HIDE DEF t2
  <2>2. QED
    BY <2>1 DEF Branched
<1> HIDE DEF t2, L, last
<1>6. \A j \in 1 .. last : New(j) = Append(New(j - 1), s[j]) /\ s[j] \in Char
  <2>1. ASSUME NEW j \in 1 .. last PROVE New(j) = Append(New(j - 1), s[j]) /\ s[j] \in Char
    <3> DEFINE n == j - 1
    <3>1. n \in 0 .. last - 1 /\ n + 1 = j
      BY <1>1
    <3> HIDE DEF n
    <3>2. Append(Upto(s, n), s[n + 1]) = Upto(s, n + 1) /\ s[n + 1] \in Char
      BY <3>1, UptoNext DEF last
    <3>3. QED
      BY <3>1, <3>2 DEF n
  <2>2. QED
    BY <2>1
<1>7. ASSUME NEW e \in L PROVE New(e) \notin DOMAIN t
  <2>1. SUFFICES ASSUME New(e) \in DOMAIN t PROVE FALSE
    OBVIOUS
  <2>2. i > 0 /\ New(i - 1) \in DOMAIN t /\ ~IsNode(t, New(i))
    BY <2>1
  <2> DEFINE q == New(i - 1)
             a == New(e)
  <2>3. i - 1 \in 0 .. e /\ i \in 1 .. e /\ e \in 0 .. last /\ i - 1 \in 0 .. last /\ i \in 1 .. last
    BY <1>1, <1>2, <2>2
  <2>4. Len(q) = i - 1 /\ Len(a) = e /\ a[i] = s[i] /\ Upto(a, i - 1) = q
    <3>1. Upto(Upto(s, e), i - 1) = Upto(s, i - 1)
      BY <2>3, UptoUpto DEF last
    <3>2. QED
      BY <1>4, <2>3, <3>1
  <2>5. New(i) = Append(q, s[i])
    BY <1>6, <2>3
  <2>6. q \in DOMAIN t /\ a \in DOMAIN t
    BY <2>1, <2>2
  <2> HIDE DEF q, a
  <2>7. Len(q) < Len(a) /\ Len(q) + 1 = i /\ Upto(a, Len(q)) = q
    BY <1>1, <2>3, <2>4
  <2>8. a[Len(q) + 1] \in Kids(t, q)
    BY <2>6, <2>7, KidOnTheWay
  <2>9. s[i] \in Kids(t, q)
    BY <2>4, <2>7, <2>8
  <2>10. QED
    BY <2>2, <2>5, <2>9 DEF Kids
<1>8. ASSUME NEW e \in L
      PROVE  /\ t2[New(e)] \in NodeType /\ t2[New(e)].prefix_len = Pre(i, e)
             /\ t2[New(e)].refcount = IF e = last THEN 1 ELSE 0
             /\ t2[New(e)].children = IF e = last THEN {} ELSE {s[e + 1]}
             /\ t2[New(e)].dense = FALSE
  <2> DEFINE n == t2[New(e)]
             rc == IF e = last THEN 1 ELSE 0
             kids == IF e = last THEN {} ELSE {s[e + 1]}
             pl == Pre(i, e)
  <2>1. n = Sparse(rc, pl, kids)
    BY <1>5, <1>7
  <2>2. rc \in Nat /\ pl \in Nat
    BY <1>2
  <2>3. kids \subseteq Char
    <3>1. CASE e = last
      BY <3>1
    <3>2. CASE e # last
      <4>1. e + 1 \in 1 .. last
        BY <1>3, <1>1, <3>2
      <4>2. QED
        BY <1>6, <4>1
    <3>3. QED
      BY <3>1, <3>2
  <2> HIDE DEF n, rc, kids, pl
  <2>4. n \in NodeType /\ n.prefix_len = pl /\ n.refcount = rc /\ n.children = kids /\ n.dense = FALSE
    BY <2>1, <2>2, <2>3 DEF Sparse, NodeType
  <2>5. QED
    BY <2>4 DEF n, rc, kids, pl
<1>9. ASSUME NEW u \in DOMAIN t2, u \notin DOMAIN t PROVE \E e \in L : u = New(e)
  BY <1>5, <1>9
<1>10. \A u \in DOMAIN t : u \in Str /\ Len(u) \in Nat /\ t[u] \in NodeType /\ u \in DOMAIN t2
  BY <1>5, TreeProps
<1>11. TrieType(t2)
  <2>1. \A u \in DOMAIN t2 : u \in Str /\ t2[u] \in NodeType
    BY <1>3, <1>4, <1>5, <1>8, <1>9, <1>10
  <2>2. PICK N \in Nat : \A u \in DOMAIN t : Len(u) <= N
    BY DEF TrieType
  <2>3. ASSUME NEW u \in DOMAIN t2 PROVE Len(u) <= N + last
    <3>1. CASE u \in DOMAIN t
      BY <1>1, <1>10, <2>2, <3>1
    <3>2. CASE u \notin DOMAIN t
      <4>1. PICK e \in L : u = New(e)
        BY <1>9, <3>2
      <4>2. Len(u) = e /\ e \in 0 .. last
        BY <1>3, <1>4, <4>1
      <4>3. QED
        BY <1>1, <2>2, <4>2
    <3>3. QED
      BY <3>1, <3>2
  <2>4. N + last \in Nat
    BY <1>1
  <2>5. DOMAIN t2 \subseteq Str
    BY <2>1
  <2>6. t2 \in [DOMAIN t2 -> NodeType]
    BY <1>5, <2>1
  <2>7. QED
    BY <2>3, <2>4, <2>5, <2>6 DEF TrieType
<1>12. ASSUME NEW e \in L
       PROVE  /\ Top(t2, New(e)) = Begin(i, e) /\ Start(t2, New(e)) = New(Begin(i, e))
              /\ Begin(i, e) > 0 => /\ Parent(t2, New(e)) = New(Begin(i, e) - 1)
                                    /\ Edge(t2, New(e)) = s[Begin(i, e)]
  <2> DEFINE b == Begin(i, e)
             a == New(e)
  <2>1. e \in 0 .. last /\ b \in 0 .. e /\ Len(a) = e
    BY <1>3, <1>4
  <2>2. t2[a].prefix_len = Pre(i, e)
    BY <1>8
  <2>3. Top(t2, a) = b
    BY <2>1, <2>2 DEF Top, Begin
  <2>4. Upto(a, b) = New(b)
    <3>1. Upto(Upto(s, e), b) = Upto(s, b)
      <4> HIDE DEF b
      <4>1. QED
        BY <2>1, UptoUpto DEF last
    <3>2. QED
      BY <3>1
  <2>5. ASSUME b > 0 PROVE Upto(a, b - 1) = New(b - 1) /\ a[b] = s[b]
    <3>1. b - 1 \in 0 .. e /\ b \in 1 .. e
      <4> HIDE DEF b
      <4>1. QED
        BY <2>1, <2>5
    <3>2. Upto(Upto(s, e), b - 1) = Upto(s, b - 1)
      <4> HIDE DEF b
      <4>1. QED
        BY <2>1, <3>1, UptoUpto DEF last
    <3>3. a[b] = s[b]
      BY <1>4, <2>1, <3>1
    <3>4. QED
      BY <3>2, <3>3
  <2>6. QED
    BY <2>3, <2>4, <2>5 DEF Start, Parent, Edge
<1>13. \A u \in DOMAIN t : /\ Top(t2, u) = Top(t, u) /\ Start(t2, u) = Start(t, u)
                           /\ Parent(t2, u) = Parent(t, u) /\ Edge(t2, u) = Edge(t, u)
  BY <1>5 DEF Top, Start, Parent, Edge
<1> HIDE DEF New
<1>14. ASSUME NEW e \in L, NEW u \in DOMAIN t PROVE Start(t, u) # New(Begin(i, e))
  <2> DEFINE b == Begin(i, e)
  <2>1. SUFFICES ASSUME Start(t, u) = New(b) PROVE FALSE
    OBVIOUS
  <2>2. i > 0 /\ ~IsNode(t, New(i))
    BY DEF New
  <2>3. b # i
    BY <2>1, <2>2 DEF IsNode
  <2>4. b \in i .. e /\ b > i /\ b - 1 \in L /\ b \in 0 .. last /\ b \in 1 .. last
    <3>1. b \in i .. e /\ b \in 0 .. e /\ e \in 0 .. last
      BY <1>2, <1>3
    <3>2. b > i
      <4> HIDE DEF b
      <4>1. QED
        BY <1>1, <2>3, <3>1
    <3>3. b - 1 \in L
      BY <1>2, <3>2
    <3> HIDE DEF b
    <3>4. QED
      BY <1>1, <3>1, <3>2, <3>3
  <2>5. Len(New(b)) = b
    BY <1>4, <2>4
  <2>6. Len(Start(t, u)) = Top(t, u)
    BY TreeProps
  <2> DEFINE p == Parent(t, u)
             d == Edge(t, u)
             k == b - 1
  <2>7. p \in Str /\ d \in Char /\ Start(t, u) = Append(p, d) /\ p \in DOMAIN t
    <3>1. Top(t, u) > 0
      BY <2>1, <2>4, <2>5, <2>6, <2>2, <1>1
    <3>2. QED
      BY <3>1, TreeProps
  <2>8. New(b) = Append(New(k), s[b]) /\ s[b] \in Char
    BY <1>6, <2>4
  <2>9. New(k) \in Str /\ New(k) \notin DOMAIN t
    BY <1>3, <1>4, <1>7, <2>4
  <2> HIDE DEF p, d, b, k
  <2>10. p = New(k)
    BY <2>1, <2>7, <2>8, <2>9, AppendOne
  <2>11. QED
    BY <2>7, <2>9, <2>10
<1>15. ASSUME NEW u \in DOMAIN t2, Top(t2, u) > 0
       PROVE  Parent(t2, u) \in DOMAIN t2 /\ Edge(t2, u) \in t2[Parent(t2, u)].children
  <2>1. CASE u \in DOMAIN t
    <3>1. Parent(t, u) \in DOMAIN t /\ Edge(t, u) \in t[Parent(t, u)].children
      BY <1>13, <1>15, <2>1, TreeProps
    <3>2. QED
      BY <1>5, <1>10, <1>13, <2>1, <3>1
  <2>2. CASE u \notin DOMAIN t
    <3>1. PICK e \in L : u = New(e)
      BY <1>9, <2>2
    <3> DEFINE b == Begin(i, e)
               k == b - 1
    <3>2. b > 0 /\ Parent(t2, u) = New(k) /\ Edge(t2, u) = s[b]
      BY <1>12, <1>15, <3>1
    <3>3. b \in i .. e /\ k + 1 = b /\ (b > i => k \in L /\ k # last)
      BY <1>2, <1>3
    <3>4. CASE b > i
      <4>1. k \in L /\ k # last
        BY <3>3, <3>4
      <4>2. New(k) \in DOMAIN t2
        BY <1>5, <4>1
      <4>3. t2[New(k)].children = {s[k + 1]}
        BY <1>8, <4>1
      <4>4. QED
        BY <3>2, <3>3, <4>2, <4>3
    <3>5. CASE ~(b > i)
      <4>1. b = i
        <5> HIDE DEF b
        <5>1. QED
          BY <1>1, <3>3, <3>5
      <4>2. i > 0
        BY <3>2, <4>1
      <4>3. New(i - 1) \in DOMAIN t /\ s[i] \in t[New(i - 1)].children
        BY <4>2 DEF New
      <4>4. New(i - 1) \in DOMAIN t2 /\ s[i] \in t2[New(i - 1)].children
        BY <1>5, <1>10, <4>3
      <4>5. QED
        BY <3>2, <4>1, <4>4
    <3>6. QED
      BY <3>4, <3>5
  <2>3. QED
    BY <2>1, <2>2
<1>16. Hangs(t2)
  <2>1. ASSUME NEW u \in DOMAIN t2 PROVE t2[u].prefix_len <= PrefixMax /\ t2[u].prefix_len <= Len(u)
    <3>1. CASE u \in DOMAIN t
      BY <1>5, <3>1 DEF Hangs
    <3>2. CASE u \notin DOMAIN t
      <4>1. PICK e \in L : u = New(e)
        BY <1>9, <3>2
      <4>2. t2[u].prefix_len = Pre(i, e) /\ Len(u) = e
        BY <1>3, <1>4, <1>8, <4>1
      <4>3. Pre(i, e) \in 0 .. PrefixMax /\ e - Pre(i, e) \in i .. e /\ e \in i .. last
        BY <1>2 DEF Begin
      <4>4. QED
        BY <1>1, <4>2, <4>3, TrieAssumption
    <3>3. QED
      BY <3>1, <3>2
  <2>2. ASSUME NEW u \in DOMAIN t2, NEW v \in DOMAIN t2, Start(t2, u) = Start(t2, v) PROVE u = v
    <3>1. ASSUME NEW e \in L, NEW f \in L, New(Begin(i, e)) = New(Begin(i, f)) PROVE e = f
      <4>1. \A g \in L : Len(New(Begin(i, g))) = Begin(i, g)
        <5>1. \A g \in L : Begin(i, g) \in 0 .. last
          BY <1>1, <1>3
        <5>2. QED
          BY <1>4, <5>1
      <4>2. Begin(i, e) = Begin(i, f)
        BY <3>1, <4>1
      <4>3. QED
        BY <1>2, <4>2
    <3>2. CASE u \in DOMAIN t /\ v \in DOMAIN t
      BY <1>13, <2>2, <3>2 DEF Hangs
    <3>3. CASE u \notin DOMAIN t /\ v \notin DOMAIN t
      BY <1>9, <1>12, <2>2, <3>1, <3>3
    <3>4. CASE u \in DOMAIN t /\ v \notin DOMAIN t
      BY <1>9, <1>12, <1>13, <1>14, <2>2, <3>4
    <3>5. CASE u \notin DOMAIN t /\ v \in DOMAIN t
      BY <1>9, <1>12, <1>13, <1>14, <2>2, <3>5
    <3>6. QED
      BY <3>2, <3>3, <3>4, <3>5
  <2>3. QED
    BY <1>15, <2>1, <2>2 DEF Hangs
<1>17. ASSUME NEW u \in DOMAIN t
       PROVE  Kids(t2, u) = IF i > 0 /\ u = New(i - 1) THEN Kids(t, u) \cup {s[i]} ELSE Kids(t, u)
  <2>1. Kids(t2, u) = {c \in Char : IsNode(t2, Append(u, c))}
    BY <1>10, <1>11, <1>16, KidsAre
  <2>2. Kids(t, u) = {c \in Char : IsNode(t, Append(u, c))}
    BY KidsAre
  <2>3. \A p : IsNode(t, p) => IsNode(t2, p)
    BY <1>10, <1>13 DEF IsNode
  <2>4. ASSUME NEW c \in Char, IsNode(t2, Append(u, c)), ~IsNode(t, Append(u, c))
        PROVE  i > 0 /\ u = New(i - 1) /\ c = s[i]
    <3>1. PICK b \in DOMAIN t2 : Start(t2, b) = Append(u, c)
      BY <2>4 DEF IsNode
    <3>2. b \notin DOMAIN t
      BY <1>13, <2>4, <3>1 DEF IsNode
    <3>3. PICK e \in L : b = New(e)
      BY <1>9, <3>2
    <3> DEFINE p == Parent(t2, b)
               d == Edge(t2, b)
               g == Begin(i, e)
               k == g - 1
    <3>4. Top(t2, b) = g /\ (g > 0 => p = New(k) /\ d = s[g])
      BY <1>12, <3>3
    <3>5. g > 0
      <4> DEFINE x == Append(u, c)
      <4>1. Len(x) = Len(u) + 1
        BY <1>10, AppendedOne
      <4>2. Len(Start(t2, b)) = Top(t2, b) /\ Start(t2, b) = x
        BY <1>11, <1>16, <3>1, TreeProps
      <4> HIDE DEF x
      <4>3. QED
        BY <1>10, <3>4, <4>1, <4>2
    <3>6. p \in Str /\ d \in Char /\ Append(p, d) = Append(u, c)
      BY <1>11, <1>16, <3>1, <3>4, <3>5, TreeProps
    <3>7. p = New(k) /\ d = s[g] /\ g \in i .. e /\ (g > i => k \in L)
      BY <1>2, <3>4, <3>5
    <3> HIDE DEF p, d
    <3>8. p = u /\ d = c
      BY <1>10, <3>6, AppendOne
    <3>9. ~(g > i)
      BY <1>7, <3>7, <3>8
    <3>10. g = i
      <4> HIDE DEF g
      <4>1. QED
        BY <1>1, <3>7, <3>9
    <3>11. QED
      BY <3>5, <3>7, <3>8, <3>10
  <2>5. ASSUME i > 0, u = New(i - 1) PROVE s[i] \in Char /\ IsNode(t2, Append(u, s[i]))
    <3>1. i \in 1 .. last
      BY <1>1, <2>5
    <3>2. New(i) = Append(u, s[i]) /\ s[i] \in Char
      BY <1>6, <2>5, <3>1
    <3>3. PICK f \in L : Begin(i, f) = i
      BY <1>2
    <3>4. Start(t2, New(f)) = New(i) /\ New(f) \in DOMAIN t2
      BY <1>5, <1>12, <3>3
    <3>5. QED
      BY <3>2, <3>4 DEF IsNode
  <2>6. CASE i > 0 /\ u = New(i - 1)
    <3>1. \A c \in Char : IsNode(t2, Append(u, c)) <=> IsNode(t, Append(u, c)) \/ c = s[i]
      BY <2>3, <2>4, <2>5, <2>6
    <3>2. s[i] \in Char
      BY <2>5, <2>6
    <3>3. QED
      BY <2>1, <2>2, <2>6, <3>1, <3>2
  <2>7. CASE ~(i > 0 /\ u = New(i - 1))
    <3>1. \A c \in Char : IsNode(t2, Append(u, c)) <=> IsNode(t, Append(u, c))
      BY <2>3, <2>4, <2>7
    <3>2. QED
      BY <2>1, <2>2, <2>7, <3>1
  <2>8. QED
    BY <2>6, <2>7
<1>18. ASSUME NEW u \in DOMAIN t2, u \notin DOMAIN t
       PROVE  NodeOk(t2[u], Kids(t2, u)) /\ (u # s => t2[u].refcount = 0)
  <2>1. PICK e \in L : u = New(e)
    BY <1>9, <1>18
  <2>2. Kids(t2, u) \subseteq t2[u].children
    BY <1>11, <1>16, KidsAre
  <2>3. SparseMax \in Nat /\ 0 <= SparseMax /\ 1 <= SparseMax
    BY TrieAssumption
  <2>4. CASE e = last
    <3>1. t2[u].children = {} /\ t2[u].refcount = 1 /\ t2[u].dense = FALSE
      BY <1>8, <2>1, <2>4
    <3>2. Kids(t2, u) = {} /\ Cardinality({}) = 0
      BY <2>2, <3>1, FS_EmptySet
    <3>3. u = s
      BY <1>1, <2>1, <2>4 DEF New
    <3>4. QED
      BY <2>3, <3>1, <3>2, <3>3 DEF NodeOk
  <2>5. CASE e # last
    <3>1. t2[u].children = {s[e + 1]} /\ t2[u].refcount = 0 /\ t2[u].dense = FALSE
      BY <1>8, <2>1, <2>5
    <3>2. PICK f \in L : Begin(i, f) = e + 1
      BY <1>2, <2>5
    <3>3. e \in Nat /\ e + 1 > 0 /\ e + 1 - 1 = e
      BY <1>3
    <3>4. /\ New(f) \in DOMAIN t2 /\ Top(t2, New(f)) = e + 1
          /\ Parent(t2, New(f)) = New(e) /\ Edge(t2, New(f)) = s[e + 1]
      BY <1>5, <1>12, <3>2, <3>3
    <3>5. s[e + 1] \in Kids(t2, u)
      BY <1>11, <1>16, <2>1, <3>3, <3>4, EdgeIsKid
    <3>6. Kids(t2, u) = {s[e + 1]}
      BY <2>2, <3>1, <3>5
    <3>7. Cardinality(Kids(t2, u)) = 1
      BY <3>6, FS_Singleton
    <3>8. QED
      BY <2>3, <3>1, <3>6, <3>7 DEF NodeOk
  <2>6. QED
    BY <2>4, <2>5
<1>19. s \in DOMAIN t2 /\ s \notin DOMAIN t /\ t2[s].refcount = 1
  <2>1. New(last) = s
    BY <1>1 DEF New
  <2>2. QED
    BY <1>2, <1>5, <1>7, <1>8, <2>1
<1>20. QED
  BY <1>5, <1>10, <1>11, <1>16, <1>17, <1>18, <1>19 DEF New, t2

\* What an operation on s leaves: a trie whose nodes hang and are shaped, with n
\* subscriptions to s and as many as before to any other string; but those to one
\* string may be forgotten, where the array of a node becomes dense or sparse.
Leaves(t, t2, s, n) ==
    /\ Good(t2) /\ Ref(t2, s) = n
    /\ \E x : \A u \in Str \ {s} :
          \/ Ref(t2, u) = Ref(t, u)
          \/ /\ u = x /\ u \in DOMAIN t /\ u \in DOMAIN t2
             /\ t2[u].dense # t[u].dense /\ Ref(t2, u) = 0

\* Another count of subscriptions to s.
Recounted(t, t2, s, k) ==
    /\ TrieType(t2) /\ Hangs(t2) /\ DOMAIN t2 = DOMAIN t
    /\ \A u \in DOMAIN t : u # s => t2[u] = t[u]
    /\ t2[s].refcount = k /\ t2[s].children = t[s].children
    /\ t2[s].dense = t[s].dense /\ t2[s].prefix_len = t[s].prefix_len
    /\ \A u \in DOMAIN t : Kids(t2, u) = Kids(t, u)
    /\ \A u \in DOMAIN t : /\ NodeOk(t[u], Kids(t, u))
                           /\ u = s => k > 0 \/ Kids(t, s) # {}
                           => NodeOk(t2[u], Kids(t2, u))
    /\ \A u : Ref(t2, u) = IF u = s THEN k ELSE Ref(t, u)

\* That is what setting the count of its node gives.
LEMMA Recount ==
  ASSUME NEW t, TrieType(t), Hangs(t), NEW s \in DOMAIN t, NEW k \in Nat
  PROVE  Recounted(t, [t EXCEPT ![s].refcount = k], s, k)
<1> DEFINE n == [t[s] EXCEPT !.refcount = k]
           t2 == [t EXCEPT ![s] = n]
<1>1. [t EXCEPT ![s].refcount = k] = t2
  OBVIOUS
<1>2. t[s] \in NodeType /\ Kids(t, s) \subseteq t[s].children
  BY TreeProps, KidsAre
<1>3. /\ n \in NodeType /\ n.refcount = k /\ n.children = t[s].children
      /\ n.dense = t[s].dense /\ n.prefix_len = t[s].prefix_len /\ n.nbr = t[s].nbr
  BY <1>2 DEF NodeType
<1> HIDE DEF n
<1>4. /\ TrieType(t2) /\ Hangs(t2) /\ DOMAIN t2 = DOMAIN t /\ t2[s] = n
      /\ \A u \in DOMAIN t : u # s => t2[u] = t[u]
      /\ \A u \in DOMAIN t : Kids(t2, u) = Kids(t, u)
  BY <1>2, <1>3, Renode
<1> HIDE DEF t2
<1>5. ASSUME NEW u \in DOMAIN t, NodeOk(t[u], Kids(t, u)),
             u = s => k > 0 \/ Kids(t, s) # {}
      PROVE  NodeOk(t2[u], Kids(t2, u))
  <2>1. CASE u = s
    BY <1>3, <1>4, <1>5, <2>1 DEF NodeOk
  <2>2. CASE u # s
    BY <1>4, <1>5, <2>2
  <2>3. QED
    BY <2>1, <2>2
<1>6. \A u : Ref(t2, u) = IF u = s THEN k ELSE Ref(t, u)
  BY <1>3, <1>4 DEF Ref
<1>7. Recounted(t, t2, s, k)
  BY <1>3, <1>4, <1>5, <1>6 DEF Recounted
<1>8. QED
  BY <1>1, <1>7

\* How far two strings agree.
LEMMA AgreeProps ==
  ASSUME NEW a \in Str, NEW s \in Str
  PROVE  /\ Agree(a, s) \in 0 .. Len(a) /\ Agree(a, s) \in 0 .. Len(s)
         /\ Upto(a, Agree(a, s)) = Upto(s, Agree(a, s))
         /\ Agree(a, s) < Len(a) /\ Agree(a, s) < Len(s) =>
               a[Agree(a, s) + 1] # s[Agree(a, s) + 1]
<1> DEFINE Common(n) == n \in 0 .. Len(a) /\ n <= Len(s) /\ Upto(a, n) = Upto(s, n)
           T == {Len(a) - n : n \in {j \in 0 .. Len(a) : Common(j)}}
<1>1. Len(a) \in Nat /\ Len(s) \in Nat
  BY UptoEnds
<1>2. Common(0)
  BY <1>1, UptoEnds
<1>3. T \subseteq Nat /\ T # {}
  BY <1>1, <1>2
<1>4. PICK j \in T : \A k \in T : j <= k
  BY <1>3, Least
<1>5. PICK n \in 0 .. Len(a) : Common(n) /\ j = Len(a) - n
  BY <1>4
<1>6. ASSUME n < Len(a), n < Len(s), a[n + 1] = s[n + 1] PROVE FALSE
  <2>1. n \in 0 .. Len(a) - 1 /\ n \in 0 .. Len(s) - 1 /\ n + 1 \in 0 .. Len(a) /\ n + 1 <= Len(s)
    BY <1>1, <1>5, <1>6
  <2>2. Append(Upto(a, n), a[n + 1]) = Upto(a, n + 1)
    BY <2>1, UptoNext
  <2>3. Append(Upto(s, n), s[n + 1]) = Upto(s, n + 1)
    BY <2>1, UptoNext
  <2>4. Common(n + 1)
    BY <1>5, <1>6, <2>1, <2>2, <2>3
  <2>5. Len(a) - (n + 1) \in T
    BY <2>1, <2>4
  <2>6. Len(a) - n <= Len(a) - (n + 1)
    BY <1>4, <1>5, <2>5
  <2>7. QED
    BY <1>1, <2>1, <2>6
<1> DEFINE P(k) == /\ k <= Len(s) /\ Upto(a, k) = Upto(s, k)
                   /\ k < Len(a) /\ k < Len(s) => a[k + 1] # s[k + 1]
<1>7. P(n)
  BY <1>5, <1>6
<1>8. Agree(a, s) = CHOOSE k \in 0 .. Len(a) : P(k)
  BY DEF Agree
<1> HIDE DEF P
<1>9. Agree(a, s) \in 0 .. Len(a) /\ P(Agree(a, s))
  BY <1>7, <1>8
<1>10. QED
  BY <1>1, <1>9 DEF P

\* New nodes below an old one.
LEMMA GraftGood ==
  ASSUME NEW t, Good(t), NEW s \in Str, NEW pos \in 0 .. Len(s) - 1,
         Upto(s, pos) \in DOMAIN t, s[pos + 1] \notin Kids(t, Upto(s, pos))
  PROVE  /\ Leaves(t, Branch(Adopt(t, Upto(s, pos), s[pos + 1]), s, pos + 1), s, 1)
         /\ Ref(t, s) = 0
<1> DEFINE q == Upto(s, pos)
           c == s[pos + 1]
           i == pos + 1
           t1 == Adopt(t, q, c)
           t2 == Branch(t1, s, i)
<1>1. /\ i \in 0 .. Len(s) /\ i > 0 /\ i - 1 = pos /\ Len(s) \in Nat /\ pos \in 0 .. Len(s)
      /\ pos < Len(s)
  BY UptoEnds
<1>2. Append(q, c) = Upto(s, i) /\ c \in Char /\ Len(q) = pos
  BY <1>1, UptoNext, UptoProps
<1>3. TrieType(t) /\ Hangs(t) /\ q \in DOMAIN t /\ c \notin Kids(t, q)
  BY DEF Good
<1> HIDE DEF q, c
<1>4. /\ TrieType(t1) /\ Hangs(t1) /\ DOMAIN t1 = DOMAIN t
      /\ \A u \in DOMAIN t : u # q => t1[u] = t[u]
      /\ \A u \in DOMAIN t : Kids(t1, u) = Kids(t, u)
      /\ \A p : IsNode(t1, p) = IsNode(t, p)
      /\ c \in t1[q].children /\ NodeOk(t1[q], Kids(t, q) \cup {c})
      /\ \/ t1[q].refcount = t[q].refcount
         \/ t1[q].refcount = 0 /\ t1[q].dense # t[q].dense
  BY <1>2, <1>3, AdoptOk
<1> HIDE DEF t1
<1>5. ~IsNode(t1, Upto(s, i))
  <2>1. \A d \in Char : IsNode(t, Append(q, d)) => d \in Kids(t, q)
    BY <1>3, KidsAre
  <2>2. QED
    BY <1>2, <1>3, <1>4, <2>1
<1>6. Upto(s, i - 1) = q /\ s[i] = c
  BY <1>1 DEF q, c
<1>7. Upto(s, i - 1) \in DOMAIN t1 /\ s[i] \in t1[Upto(s, i - 1)].children
  BY <1>3, <1>4, <1>6
<1>8. /\ TrieType(t2) /\ Hangs(t2)
      /\ DOMAIN t1 \subseteq DOMAIN t2 /\ \A u \in DOMAIN t1 : t2[u] = t1[u]
      /\ s \in DOMAIN t2 \ DOMAIN t1 /\ t2[s].refcount = 1
      /\ \A u \in DOMAIN t2 \ DOMAIN t1 : /\ NodeOk(t2[u], Kids(t2, u))
                                          /\ u # s => t2[u].refcount = 0
      /\ \A u \in DOMAIN t1 : Kids(t2, u) =
            IF i > 0 /\ u = Upto(s, i - 1) THEN Kids(t1, u) \cup {s[i]} ELSE Kids(t1, u)
  <2> HIDE DEF i
  <2>1. QED
    BY <1>1, <1>4, <1>5, <1>7, BranchOk
<1>9. \A u \in DOMAIN t : Kids(t2, u) = IF u = q THEN Kids(t, u) \cup {c} ELSE Kids(t, u)
  BY <1>1, <1>4, <1>6, <1>8
<1> HIDE DEF t2
<1>10. Good(t2)
  <2>1. ASSUME NEW u \in DOMAIN t2 PROVE NodeOk(t2[u], Kids(t2, u))
    <3>1. CASE u = q
      BY <1>3, <1>4, <1>8, <1>9, <3>1
    <3>2. CASE u \in DOMAIN t /\ u # q
      <4>1. NodeOk(t[u], Kids(t, u))
        BY <3>2 DEF Good
      <4>2. QED
        BY <1>4, <1>8, <1>9, <3>2, <4>1
    <3>3. CASE u \notin DOMAIN t
      BY <1>4, <1>8, <3>3
    <3>4. QED
      BY <3>1, <3>2, <3>3
  <2>2. QED
    BY <1>8, <2>1 DEF Good
<1>11. Ref(t2, s) = 1 /\ Ref(t, s) = 0
  BY <1>4, <1>8 DEF Ref
<1>12. ASSUME NEW u \in Str \ {s}
       PROVE  \/ Ref(t2, u) = Ref(t, u)
              \/ /\ u = q /\ u \in DOMAIN t /\ u \in DOMAIN t2
                 /\ t2[u].dense # t[u].dense /\ Ref(t2, u) = 0
  <2>1. CASE u = q
    BY <1>3, <1>4, <1>8, <2>1 DEF Ref
  <2>2. CASE u # q
    BY <1>4, <1>8, <2>2 DEF Ref
  <2>3. QED
    BY <2>1, <2>2
<1>13. Leaves(t, t2, s, 1)
  BY <1>10, <1>11, <1>12 DEF Leaves
<1>14. QED
  BY <1>11, <1>13 DEF t2, t1, q, c

\* Subscribing (nn_trie_subscribe).
LEMMA SubscribedGood ==
  ASSUME NEW t, Good(t), NEW s \in Str
  PROVE  Leaves(t, Subscribed(t, s), s, Ref(t, s) + 1)
<1> DEFINE a == End(t, s)
           pos == Agree(a, s)
           node == Upto(s, pos)
           base == IF pos < Len(a) THEN Split(t, a, pos) ELSE t
           incr == [base EXCEPT ![node].refcount = @ + 1]
           graft == Branch(Adopt(base, node, s[pos + 1]), s, pos + 1)
<1>1. TrieType(t) /\ Hangs(t)
  BY DEF Good
<1>2. CASE DOMAIN t = {}
  <2> DEFINE t2 == Branch(t, s, 0)
  <2>1. Subscribed(t, s) = t2
    BY <1>2 DEF Subscribed
  <2>2. 0 \in 0 .. Len(s)
    BY UptoEnds
  <2>3. /\ TrieType(t2) /\ Hangs(t2)
        /\ DOMAIN t \subseteq DOMAIN t2
        /\ s \in DOMAIN t2 \ DOMAIN t /\ t2[s].refcount = 1
        /\ \A u \in DOMAIN t2 \ DOMAIN t : /\ NodeOk(t2[u], Kids(t2, u))
                                           /\ u # s => t2[u].refcount = 0
    BY <1>1, <1>2, <2>2, BranchOk
  <2> HIDE DEF t2
  <2>4. Good(t2)
    BY <1>2, <2>3 DEF Good
  <2>5. /\ Ref(t2, s) = 1 /\ Ref(t, s) = 0
        /\ \A u \in Str \ {s} : Ref(t2, u) = Ref(t, u)
    BY <1>2, <2>3 DEF Ref
  <2>6. QED
    BY <2>1, <2>4, <2>5 DEF Leaves
<1>3. CASE DOMAIN t # {}
  <2>1. /\ a \in DOMAIN t /\ a \in Str /\ Len(a) \in Nat /\ Len(s) \in Nat
        /\ Top(t, a) <= Len(s) /\ Start(t, a) = Upto(s, Top(t, a))
        /\ Below(t, a, s) = a /\ Top(t, a) \in 0 .. Len(a)
    BY <1>1, <1>3, EndProps, TreeProps, UptoEnds
  <2>2. /\ pos \in 0 .. Len(a) /\ pos \in 0 .. Len(s) /\ Upto(a, pos) = node
        /\ pos < Len(a) /\ pos < Len(s) => a[pos + 1] # s[pos + 1]
    BY <2>1, AgreeProps
  <2> DEFINE res == Subscribed(t, s)
  <2>a. /\ pos = Len(s) => res = incr
        /\ pos # Len(s) => res = graft
    BY <1>3 DEF Subscribed
  <2> HIDE DEF a, pos, res
  <2>3. Top(t, a) <= pos
    <3>1. SUFFICES ASSUME pos < Top(t, a) PROVE FALSE
      BY <2>1, <2>2
    <3> DEFINE top == Top(t, a)
    <3>2. top \in 0 .. Len(a) /\ top \in 0 .. Len(s) /\ pos + 1 \in 1 .. top
      BY <2>1, <2>2, <3>1
    <3>3. Upto(a, top) = Upto(s, top)
      BY <2>1 DEF Start
    <3>4. a[pos + 1] = Upto(a, top)[pos + 1] /\ s[pos + 1] = Upto(s, top)[pos + 1]
      <4> HIDE DEF top
      <4>1. QED
        BY <2>1, <3>2, UptoProps
    <3>5. pos < Len(a) /\ pos < Len(s)
      BY <2>1, <2>2, <3>1, <3>2
    <3>6. QED
      BY <2>2, <3>3, <3>4, <3>5
  <2>4. /\ Good(base) /\ node \in DOMAIN base
        /\ \A u : Ref(base, u) = Ref(t, u)
        /\ \A u \in DOMAIN t : u \in DOMAIN base => base[u].dense = t[u].dense
        /\ pos < Len(s) => s[pos + 1] \notin Kids(base, node)
    <3>1. CASE pos < Len(a)
      <4> DEFINE split == Split(t, a, pos)
      <4>1. base = split
        BY <3>1
      <4>2. pos \in Nat
        BY <2>2
      <4>3. /\ Good(split) /\ \A u : Ref(split, u) = Ref(t, u)
            /\ Upto(a, pos) \in DOMAIN split
            /\ Kids(split, Upto(a, pos)) = {a[pos + 1]}
            /\ \A u \in DOMAIN t : u \in DOMAIN split => split[u].dense = t[u].dense
        BY <2>1, <2>3, <3>1, <4>2, SplitGood
      <4> HIDE DEF base, split, node
      <4>4. QED
        BY <2>2, <3>1, <4>1, <4>3
    <3>2. CASE ~(pos < Len(a))
      <4>1. base = t /\ pos = Len(a)
        BY <2>1, <2>2, <3>2
      <4>2. node = a
        BY <2>1, <2>2, <4>1, UptoEnds
      <4>3. ASSUME pos < Len(s), s[pos + 1] \in Kids(t, a) PROVE FALSE
        <5>1. Upto(s, Len(a)) = a /\ Len(a) < Len(s) /\ s[Len(a) + 1] \in Kids(t, a)
          BY <4>1, <4>2, <4>3
        <5>2. Below(t, a, s) = Kid(t, a, s[Len(a) + 1])
          BY <1>1, <2>1, <5>1, BelowKid
        <5>3. Len(a) < Len(Kid(t, a, s[Len(a) + 1]))
          BY <1>1, <2>1, <5>1, KidProps
        <5>4. QED
          BY <2>1, <5>2, <5>3
      <4>4. QED
        BY <2>1, <4>1, <4>2, <4>3
    <3>3. QED
      BY <3>1, <3>2
  <2>5. CASE pos = Len(s)
    <3>1. node = s
      BY <2>5, UptoEnds
    <3>2. Subscribed(t, s) = incr
      BY <2>5, <2>a DEF res
    <3> HIDE DEF base
    <3> DEFINE k == base[s].refcount + 1
               t2 == [base EXCEPT ![s].refcount = k]
    <3>3. TrieType(base) /\ Hangs(base) /\ s \in DOMAIN base
      BY <2>4, <3>1 DEF Good
    <3>4. k \in Nat /\ k > 0 /\ k = Ref(t, s) + 1
      <4>1. base[s].refcount \in Nat
        BY <3>3, TreeProps DEF NodeType
      <4>2. base[s].refcount = Ref(t, s)
        BY <2>4, <3>3 DEF Ref
      <4>3. QED
        BY <4>1, <4>2
    <3>5. incr = t2
      BY <3>1
    <3> HIDE DEF k
    <3>6. /\ TrieType(t2) /\ Hangs(t2) /\ DOMAIN t2 = DOMAIN base
          /\ \A u \in DOMAIN base : /\ NodeOk(base[u], Kids(base, u))
                                    /\ u = s => k > 0 \/ Kids(base, s) # {}
                                    => NodeOk(t2[u], Kids(t2, u))
          /\ \A u : Ref(t2, u) = IF u = s THEN k ELSE Ref(base, u)
      <4>1. Recounted(base, t2, s, k)
        BY <3>3, <3>4, Recount
      <4> HIDE DEF t2
      <4>2. QED
        BY <4>1 DEF Recounted
    <3> HIDE DEF t2
    <3>7. Good(t2)
      BY <2>4, <3>4, <3>6 DEF Good
    <3>8. Leaves(t, t2, s, k)
      BY <2>4, <3>6, <3>7 DEF Leaves
    <3>9. QED
      BY <3>2, <3>4, <3>5, <3>8
  <2>6. CASE pos # Len(s)
    <3>1. Subscribed(t, s) = graft
      BY <2>6, <2>a DEF res
    <3>2. pos \in 0 .. Len(s) - 1 /\ pos < Len(s)
      BY <2>1, <2>2, <2>6
    <3> HIDE DEF base
    <3>3. Leaves(base, graft, s, 1) /\ Ref(base, s) = 0
      BY <2>4, <3>2, GraftGood
    <3> HIDE DEF graft
    <3>4. Ref(t, s) + 1 = 1
      BY <2>4, <3>3
    <3>5. Leaves(t, graft, s, 1)
      <4>1. /\ Good(graft) /\ Ref(graft, s) = 1
        BY <3>3 DEF Leaves
      <4>2. PICK x : \A u \in Str \ {s} :
                \/ Ref(graft, u) = Ref(base, u)
                \/ /\ u = x /\ u \in DOMAIN base /\ u \in DOMAIN graft
                   /\ graft[u].dense # base[u].dense /\ Ref(graft, u) = 0
        BY <3>3 DEF Leaves
      <4>3. ASSUME NEW u \in Str \ {s}
            PROVE  \/ Ref(graft, u) = Ref(t, u)
                   \/ /\ u = x /\ u \in DOMAIN t /\ u \in DOMAIN graft
                      /\ graft[u].dense # t[u].dense /\ Ref(graft, u) = 0
        <5>1. Ref(base, u) = Ref(t, u)
          BY <2>4
        <5>2. CASE u \in DOMAIN t
          BY <2>4, <4>2, <5>1, <5>2
        <5>3. CASE u \notin DOMAIN t
          BY <4>2, <5>1, <5>3 DEF Ref
        <5>4. QED
          BY <5>2, <5>3
      <4>4. QED
        BY <4>1, <4>3 DEF Leaves
    <3>6. QED
      BY <3>1, <3>4, <3>5
  <2>7. QED
    BY <2>5, <2>6
<1>4. QED
  BY <1>2, <1>3

\* A node that loses a child: what is left is what a node with the other children
\* must have; where the array becomes sparse the node loses its refcount.
LEMMA PruneGood ==
  ASSUME NEW t, TrieType(t), Hangs(t), NEW p \in DOMAIN t, NEW c \in Char,
         c \notin Kids(t, p), NodeOk(t[p], Kids(t, p) \cup {c}), ~Bare(t[p]),
         \A u \in DOMAIN t : u # p => NodeOk(t[u], Kids(t, u))
  PROVE  LET r == Prune(t, p, c)
         IN /\ r.fails = FALSE /\ Good(r.trie)
            /\ \A u : \/ Ref(r.trie, u) = Ref(t, u)
                      \/ /\ u = p /\ u \in DOMAIN t /\ u \in DOMAIN r.trie
                         /\ r.trie[u].dense # t[u].dense /\ Ref(r.trie, u) = 0
<1> DEFINE n == t[p]
           S == Kids(t, p)
           left == Kids(t, p) \ {c}
           kept == IF c \in {Min(n.children), Max(n.children)} THEN Hull(left) ELSE n.children
           n1 == [n EXCEPT !.children = @ \ {c}]
           n2 == [n EXCEPT !.children = kept, !.nbr = @ - 1]
           n3 == Sparse(0, n.prefix_len, left)
           big == n.dense /\ n.nbr > SparseMax + 1
           r == Prune(t, p, c)
           Fine(n0, t2) ==
              /\ Good(t2)
              /\ \A u : \/ Ref(t2, u) = Ref(t, u)
                        \/ /\ u = p /\ u \in DOMAIN t /\ u \in DOMAIN t2
                           /\ t2[u].dense # t[u].dense /\ Ref(t2, u) = 0
<1>1. /\ ~n.dense => r = Result(Compact([t EXCEPT ![p] = n1], p), FALSE)
      /\ big => r = Result([t EXCEPT ![p] = n2], FALSE)
      /\ n.dense /\ ~big => r = Result([t EXCEPT ![p] = n3], Cardinality(left) # SparseMax)
  <2>1. [t EXCEPT ![p].children = @ \ {c}] = [t EXCEPT ![p] = n1]
    OBVIOUS
  <2>2. ~n.dense => r = Result(Compact([t EXCEPT ![p].children = @ \ {c}], p), FALSE)
    BY DEF Prune
  <2>3. big => r = Result([t EXCEPT ![p] = n2], FALSE)
    BY DEF Prune
  <2>4. n.dense /\ ~big => r = Result([t EXCEPT ![p] = n3], Cardinality(left) # SparseMax)
    BY DEF Prune
  <2>5. QED
    BY <2>1, <2>2, <2>3, <2>4
<1>2. /\ n \in NodeType /\ S \subseteq Char /\ left = S /\ Cardinality(S) \in Nat
      /\ Cardinality(S \cup {c}) = Cardinality(S) + 1 /\ (Cardinality(S) = 0 <=> S = {})
      /\ S \cup {c} \subseteq Char /\ S \cup {c} # {} /\ NodeOk(n, S \cup {c})
  BY TreeProps, KidsAre, CharSet
<1>3. SparseMax \in Nat /\ SparseMax > 0 /\ 0 < SparseMax
  BY TrieAssumption
<1>4. ASSUME NEW n0 \in NodeType, n0.prefix_len = n.prefix_len, NodeOk(n0, S),
             \/ n0.refcount = n.refcount
             \/ n0.refcount = 0 /\ n0.dense # n.dense
      PROVE  Fine(n0, [t EXCEPT ![p] = n0])
  <2> DEFINE t2 == [t EXCEPT ![p] = n0]
  <2>1. S \subseteq n0.children
    <3>1. CASE ~n0.dense
      BY <1>4, <3>1 DEF NodeOk
    <3>2. CASE n0.dense
      <4>1. n0.nbr = Cardinality(S) /\ n0.nbr > SparseMax /\ n0.children = Hull(S)
        BY <1>4, <3>2 DEF NodeOk
      <4> HIDE DEF S, n, t2
      <4>2. S # {}
        BY <1>2, <1>3, <4>1
      <4>3. S \subseteq Hull(S)
        BY <1>2, <4>2, HullProps
      <4>4. QED
        BY <4>1, <4>3
    <3>3. QED
      BY <3>1, <3>2
  <2>2. /\ TrieType(t2) /\ Hangs(t2) /\ DOMAIN t2 = DOMAIN t /\ t2[p] = n0
        /\ \A u \in DOMAIN t : u # p => t2[u] = t[u]
        /\ \A u \in DOMAIN t : Kids(t2, u) = Kids(t, u)
    BY <1>4, <2>1, Renode
  <2> HIDE DEF t2
  <2>3. Good(t2)
    BY <1>4, <2>2 DEF Good
  <2>4. \A u : \/ Ref(t2, u) = Ref(t, u)
               \/ /\ u = p /\ u \in DOMAIN t /\ u \in DOMAIN t2
                  /\ t2[u].dense # t[u].dense /\ Ref(t2, u) = 0
    BY <1>4, <2>2 DEF Ref
  <2>5. QED
    BY <2>3, <2>4 DEF t2
<1>5. CASE ~n.dense
  <2> DEFINE t2 == [t EXCEPT ![p] = n1]
             t3 == Compact(t2, p)
  <2>1. S \cup {c} = n.children /\ Cardinality(S \cup {c}) <= SparseMax
    BY <1>2, <1>5 DEF NodeOk
  <2>2. n.children \ {c} = S
    BY <2>1
  <2>3. /\ n1 \in NodeType /\ n1.prefix_len = n.prefix_len /\ n1.refcount = n.refcount
        /\ n1.dense = n.dense /\ n1.children = S /\ n1.nbr = n.nbr
    <3>1. n1 = [n EXCEPT !.children = S]
      BY <2>2
    <3> HIDE DEF n, S, n1
    <3>2. QED
      BY <1>2, <3>1 DEF NodeType
  <2>4. n.refcount > 0 \/ S # {}
    <3>1. n.refcount # 0 \/ Cardinality(n.children) # 1
      BY <1>5 DEF Bare
    <3>2. n.refcount \in Nat
      BY <1>2 DEF NodeType
    <3> HIDE DEF n, S
    <3>3. QED
      BY <1>2, <2>1, <3>1, <3>2
  <2>5. NodeOk(n1, S)
    <3> HIDE DEF n, S, n1
    <3>1. Cardinality(S) <= SparseMax
      BY <1>2, <1>3, <2>1
    <3>2. QED
      BY <1>5, <2>3, <2>4, <3>1 DEF NodeOk
  <2>6. Fine(n1, t2)
    <3> HIDE DEF n1, Fine
    <3>1. QED
      BY <1>4, <2>3, <2>5
  <2>7. Good(t2) /\ p \in DOMAIN t2
    BY <2>6
  <2>8. /\ Good(t3) /\ \A u : Ref(t3, u) = Ref(t2, u)
        /\ \A u \in DOMAIN t2 : u # p => u \in DOMAIN t3 /\ t3[u].dense = t2[u].dense
    <3> HIDE DEF t2
    <3>1. QED
      BY <2>7, CompactGood
  <2>9. \A u : Ref(t2, u) = Ref(t, u)
    <3>1. t2[p] = n1 /\ DOMAIN t2 = DOMAIN t /\ \A u \in DOMAIN t : u # p => t2[u] = t[u]
      OBVIOUS
    <3>2. n1.refcount = t[p].refcount
      BY <2>3
    <3> HIDE DEF t2, n1
    <3>3. QED
      BY <3>1, <3>2 DEF Ref
  <2>10. r = Result(t3, FALSE)
    BY <1>1, <1>5
  <2> HIDE DEF t3, t2, r
  <2>11. r.fails = FALSE /\ r.trie = t3
    BY <2>10 DEF Result
  <2>12. QED
    BY <2>8, <2>9, <2>11 DEF r
<1>6. CASE big
  <2> DEFINE t2 == [t EXCEPT ![p] = n2]
  <2>1. n.dense /\ n.nbr = Cardinality(S \cup {c}) /\ n.nbr > SparseMax + 1 /\ n.children = Hull(S \cup {c})
    BY <1>2, <1>6 DEF NodeOk
  <2>2. Cardinality(S) > SparseMax /\ S # {} /\ n.nbr - 1 = Cardinality(S)
    <3> HIDE DEF n, S
    <3>1. QED
      BY <1>2, <1>3, <2>1
  <2>3. kept = Hull(S)
    <3>1. CASE c \in {Min(n.children), Max(n.children)}
      BY <1>2, <3>1
    <3>2. CASE c \notin {Min(n.children), Max(n.children)}
      <4>1. c \notin {Min(Hull(S \cup {c})), Max(Hull(S \cup {c}))}
        BY <2>1, <3>2
      <4>2. Hull(S \cup {c}) = Hull(S)
        <5> HIDE DEF S
        <5>1. QED
          BY <1>2, <2>2, <4>1, HullWithout
      <4>3. kept = n.children
        BY <3>2
      <4>4. QED
        BY <2>1, <4>2, <4>3
    <3>3. QED
      BY <3>1, <3>2
  <2>4. Hull(S) \subseteq Char
    <3> HIDE DEF S
    <3>1. QED
      BY <1>2, <2>2, HullProps
  <2>5. /\ n2 \in NodeType /\ n2.prefix_len = n.prefix_len /\ n2.refcount = n.refcount
        /\ n2.dense = n.dense /\ n2.children = Hull(S) /\ n2.nbr = Cardinality(S)
    <3> DEFINE h == Hull(S)
               k == Cardinality(S)
    <3>1. n2 = [n EXCEPT !.children = h, !.nbr = k]
      BY <2>2, <2>3
    <3>2. h \subseteq Char /\ k \in Nat
      BY <1>2, <2>4
    <3> HIDE DEF n, n2, h, k
    <3>3. /\ n2 \in NodeType /\ n2.prefix_len = n.prefix_len /\ n2.refcount = n.refcount
          /\ n2.dense = n.dense /\ n2.children = h /\ n2.nbr = k
      BY <1>2, <3>1, <3>2 DEF NodeType
    <3>4. QED
      BY <3>3 DEF h, k
  <2>6. NodeOk(n2, S)
    <3> HIDE DEF n, S, n2
    <3>1. QED
      BY <2>1, <2>2, <2>5 DEF NodeOk
  <2>7. Fine(n2, t2)
    <3> HIDE DEF n2, Fine
    <3>1. QED
      BY <1>4, <2>5, <2>6
  <2>8. r = Result(t2, FALSE)
    BY <1>1, <1>6
  <2>9. r.fails = FALSE /\ r.trie = t2
    <3> HIDE DEF r, t2
    <3>1. QED
      BY <2>8 DEF Result
  <2> HIDE DEF t2, n2
  <2>10. Fine(n2, r.trie)
    BY <2>7, <2>9
  <2>11. QED
    BY <2>9, <2>10 DEF Fine, r
<1>7. CASE n.dense /\ ~big
  <2> DEFINE t2 == [t EXCEPT ![p] = n3]
  <2>1. n.nbr = Cardinality(S \cup {c}) /\ n.nbr > SparseMax /\ ~(n.nbr > SparseMax + 1)
    BY <1>2, <1>7 DEF NodeOk
  <2>2. Cardinality(S) = SparseMax /\ S # {}
    <3> HIDE DEF n, S
    <3>1. QED
      BY <1>2, <1>3, <2>1
  <2>3. n3 = Sparse(0, n.prefix_len, S) /\ Cardinality(left) = SparseMax
    BY <1>2, <2>2
  <2>4. /\ n3 \in NodeType /\ n3.prefix_len = n.prefix_len /\ n3.refcount = 0
        /\ n3.dense = FALSE /\ n3.children = S
    <3>1. n.prefix_len \in Nat
      BY <1>2 DEF NodeType
    <3> HIDE DEF n, S, n3
    <3>2. QED
      BY <1>2, <2>3, <3>1 DEF Sparse, NodeType
  <2>5. NodeOk(n3, S) /\ n3.dense # n.dense
    <3>1. n.dense = TRUE
      BY <1>2, <1>7 DEF NodeType
    <3> HIDE DEF n, S, n3
    <3>2. Cardinality(S) <= SparseMax
      BY <1>3, <2>2
    <3>3. QED
      BY <2>2, <2>4, <3>1, <3>2 DEF NodeOk
  <2>7. Fine(n3, t2)
    <3> HIDE DEF n3, Fine
    <3>1. QED
      BY <1>4, <2>4, <2>5
  <2>8. r = Result(t2, FALSE)
    <3>1. r = Result(t2, Cardinality(left) # SparseMax)
      BY <1>1, <1>7
    <3>2. (Cardinality(left) # SparseMax) = FALSE
      BY <2>3
    <3> HIDE DEF r, t2, left
    <3>3. QED
      BY <3>1, <3>2
  <2>9. r.fails = FALSE /\ r.trie = t2
    <3> HIDE DEF r, t2
    <3>1. QED
      BY <2>8 DEF Result
  <2> HIDE DEF t2, n3
  <2>10. Fine(n3, r.trie)
    BY <2>7, <2>9
  <2>11. QED
    BY <2>9, <2>10 DEF Fine, r
<1>8. QED
  BY <1>5, <1>6, <1>7

\* f is the function by which Unwound is defined, for the first n steps.
Unwinds(f, t, a, n) ==
    f = [k \in 0 .. n |-> IF k = 0 THEN a ELSE Above(t, f[k - 1])]

\* There is such a function.
LEMMA UnwindsExists ==
  ASSUME NEW t, NEW a, NEW N \in Nat
  PROVE  \E f : Unwinds(f, t, a, N)
<1> DEFINE G(n) == \E f : Unwinds(f, t, a, n)
           T == {n \in Nat : ~G(n)}
<1> HIDE DEF G
<1>1. SUFFICES ASSUME T # {} PROVE FALSE
  BY DEF G
<1>2. T \subseteq Nat /\ \A n : n \in T <=> n \in Nat /\ ~G(n)
  OBVIOUS
<1> HIDE DEF T
<1>3. PICK n \in T : \A k \in T : n <= k
  BY <1>1, <1>2, Least
<1>4. n \in Nat /\ ~G(n)
  BY <1>2
<1>5. n # 0
  <2> DEFINE f == [k \in 0 .. 0 |-> a]
  <2>1. f = [k \in 0 .. 0 |-> IF k = 0 THEN a ELSE Above(t, f[k - 1])]
    OBVIOUS
  <2>2. Unwinds(f, t, a, 0)
    BY <2>1 DEF Unwinds
  <2>3. QED
    BY <1>4, <2>2 DEF G
<1>6. n - 1 \in Nat
  BY <1>4, <1>5
<1>7. G(n - 1)
  <2>1. ~(n <= n - 1)
    BY <1>4
  <2>2. QED
    BY <1>2, <1>3, <1>6, <2>1
<1>8. PICK f : Unwinds(f, t, a, n - 1)
  BY <1>7 DEF G
<1> DEFINE h(k) == IF k = 0 THEN a ELSE Above(t, f[k - 1])
           g == [k \in 0 .. n |-> h(k)]
<1>9. \A k \in 0 .. n - 1 : f[k] = h(k)
  BY <1>8 DEF Unwinds
<1> HIDE DEF h
<1>10. \A k \in 0 .. n : k # 0 => g[k - 1] = f[k - 1]
  BY <1>4, <1>5, <1>9
<1>11. \A k \in 0 .. n : g[k] = IF k = 0 THEN a ELSE Above(t, g[k - 1])
  BY <1>10 DEF h
<1>12. Unwinds(g, t, a, n)
  BY <1>11 DEF Unwinds
<1>13. QED
  BY <1>4, <1>12 DEF G

\* Unwound is one.
LEMMA UnwoundByFunction ==
  ASSUME NEW t, NEW a \in Str
  PROVE  /\ Unwound(t, a)[0] = a
         /\ \A k \in 1 .. Len(a) : Unwound(t, a)[k] = Above(t, Unwound(t, a)[k - 1])
<1> DEFINE N == Len(a)
           F == CHOOSE f : f = [k \in 0 .. Len(a) |->
                                  IF k = 0 THEN a ELSE Above(t, f[k - 1])]
<1>1. N \in Nat
  BY DEF Str
<1>2. PICK f : Unwinds(f, t, a, N)
  <2> HIDE DEF N
  <2>1. QED
    BY <1>1, UnwindsExists
<1>3. f = [k \in 0 .. Len(a) |-> IF k = 0 THEN a ELSE Above(t, f[k - 1])]
  BY <1>2 DEF Unwinds
<1>4. F = [k \in 0 .. Len(a) |-> IF k = 0 THEN a ELSE Above(t, F[k - 1])]
  BY <1>3
<1>5. Unwound(t, a) = F
  BY DEF Unwound
<1> HIDE DEF F
<1>6. F[0] = a /\ \A k \in 1 .. Len(a) : F[k] = Above(t, F[k - 1])
  BY <1>1, <1>4
<1>7. QED
  BY <1>5, <1>6

\* A step back.
LEMMA AboveProps ==
  ASSUME NEW t, TrieType(t), Hangs(t), NEW b \in DOMAIN t, Above(t, b) # b
  PROVE  /\ Top(t, b) > 0 /\ Above(t, b) = Parent(t, b) /\ Parent(t, b) \in DOMAIN t
         /\ t[Parent(t, b)].children = {Edge(t, b)} /\ t[Parent(t, b)].refcount = 0
         /\ Len(Parent(t, b)) < Len(b) /\ Bare(t[Parent(t, b)])
<1> DEFINE p == Parent(t, b)
<1>1. Top(t, b) > 0 /\ Above(t, b) = p /\ Bare(t[p])
  BY DEF Above
<1>2. /\ p \in DOMAIN t /\ Edge(t, b) \in t[p].children /\ Len(p) = Top(t, b) - 1
      /\ Top(t, b) \in 0 .. Len(b) /\ Len(b) \in Nat
  BY <1>1, TreeProps
<1> HIDE DEF p
<1>3. t[p].children = {Edge(t, b)} /\ t[p].refcount = 0
  <2>1. t[p].children \subseteq Char
    BY <1>2, TreeProps DEF NodeType
  <2>2. Cardinality(t[p].children) = 1 /\ t[p].refcount = 0
    BY <1>1 DEF Bare
  <2>3. PICK c : t[p].children = {c}
    BY <2>1, <2>2, CharSet
  <2>4. QED
    BY <1>2, <2>2, <2>3
<1>4. Len(p) < Len(b)
  BY <1>1, <1>2
<1>5. QED
  BY <1>1, <1>2, <1>3, <1>4 DEF p

\* Where it can be after k steps.
LEMMA UnwoundAt ==
  ASSUME NEW t, TrieType(t), Hangs(t), NEW a \in DOMAIN t, NEW j \in 0 .. Len(a)
  PROVE  /\ Unwound(t, a)[j] \in DOMAIN t
         /\ \/ Above(t, Unwound(t, a)[j]) = Unwound(t, a)[j]
            \/ Len(Unwound(t, a)[j]) + j <= Len(a)
<1> DEFINE W == Unwound(t, a)
           Ok(k) == /\ W[k] \in DOMAIN t
                    /\ Above(t, W[k]) = W[k] \/ Len(W[k]) + k <= Len(a)
           T == {k \in 0 .. Len(a) : ~Ok(k)}
<1>1. Len(a) \in Nat /\ a \in Str
  BY TreeProps
<1>2. W[0] = a /\ \A k \in 1 .. Len(a) : W[k] = Above(t, W[k - 1])
  BY <1>1, UnwoundByFunction
<1> HIDE DEF W
<1>3. SUFFICES ASSUME T # {} PROVE FALSE
  BY DEF W
<1>4. PICK n \in T : \A k \in T : n <= k
  <2>1. T \subseteq Nat
    BY <1>1
  <2>2. QED
    BY <1>3, <2>1, Least
<1>5. n \in 0 .. Len(a) /\ ~Ok(n)
  OBVIOUS
<1>6. n # 0
  BY <1>1, <1>2, <1>5
<1>7. n - 1 \in 0 .. Len(a) /\ n \in 1 .. Len(a)
  BY <1>1, <1>5, <1>6
<1>8. Ok(n - 1)
  BY <1>4, <1>7
<1> DEFINE b == W[n - 1]
<1>9. b \in DOMAIN t /\ W[n] = Above(t, b)
  BY <1>2, <1>7, <1>8
<1>10. CASE Above(t, b) = b
  BY <1>5, <1>9, <1>10
<1>11. CASE Above(t, b) # b
  <2>1. /\ Above(t, b) = Parent(t, b) /\ Parent(t, b) \in DOMAIN t
        /\ Len(Parent(t, b)) < Len(b)
    BY <1>9, <1>11, AboveProps
  <2>2. Len(b) + (n - 1) <= Len(a)
    BY <1>8, <1>11
  <2>3. Len(b) \in Nat /\ Len(Parent(t, b)) \in Nat
    BY <1>9, <2>1, TreeProps
  <2>4. Len(Parent(t, b)) + n <= Len(a)
    BY <1>1, <1>7, <2>1, <2>2, <2>3
  <2>5. QED
    BY <1>5, <1>9, <2>1, <2>4
<1>12. QED
  BY <1>10, <1>11

\* The nodes that are deleted: a, and then one after the other those that were
\* there for the last one only; no more of them above the top one.
LEMMA UnwoundProps ==
  ASSUME NEW t, TrieType(t), Hangs(t), NEW a \in DOMAIN t
  PROVE  LET X   == {Unwound(t, a)[k] : k \in 0 .. Len(a)}
             top == Unwound(t, a)[Len(a)]
         IN /\ a \in X /\ X \subseteq DOMAIN t /\ top \in X /\ Above(t, top) = top
            /\ \A b \in X : b = a \/ \E d \in X :
                  /\ Top(t, d) > 0 /\ b = Parent(t, d)
                  /\ t[b].children = {Edge(t, d)} /\ t[b].refcount = 0 /\ Bare(t[b])
            /\ \A b \in X : b = top \/ (Top(t, b) > 0 /\ Parent(t, b) \in X)
<1> DEFINE W == Unwound(t, a)
           X == {W[k] : k \in 0 .. Len(a)}
           top == W[Len(a)]
<1>1. Len(a) \in Nat /\ a \in Str
  BY TreeProps
<1>2. W[0] = a /\ \A k \in 1 .. Len(a) : W[k] = Above(t, W[k - 1])
  BY <1>1, UnwoundByFunction
<1>3. \A k \in 0 .. Len(a) : /\ W[k] \in DOMAIN t
                             /\ Above(t, W[k]) = W[k] \/ Len(W[k]) + k <= Len(a)
  BY UnwoundAt
<1> HIDE DEF W
<1>4. 0 \in 0 .. Len(a) /\ Len(a) \in 0 .. Len(a)
  BY <1>1
<1>5. a \in X /\ X \subseteq DOMAIN t /\ top \in X
  BY <1>2, <1>3, <1>4
<1>6. Above(t, top) = top
  <2>1. SUFFICES ASSUME Above(t, top) # top PROVE FALSE
    OBVIOUS
  <2>2. Len(top) + Len(a) <= Len(a)
    BY <1>3, <1>4, <2>1
  <2>3. Len(top) \in Nat /\ Top(t, top) \in 0 .. Len(top)
    BY <1>5, TreeProps
  <2>4. Top(t, top) > 0
    BY <1>5, <2>1, AboveProps
  <2> HIDE DEF top
  <2>5. QED
    BY <1>1, <2>2, <2>3, <2>4
<1>7. ASSUME NEW b \in X, b # a
      PROVE  \E d \in X : /\ Top(t, d) > 0 /\ b = Parent(t, d)
                          /\ t[b].children = {Edge(t, d)} /\ t[b].refcount = 0 /\ Bare(t[b])
  <2> DEFINE T == {k \in 0 .. Len(a) : W[k] = b}
  <2>1. T \subseteq Nat /\ T # {}
    BY <1>1
  <2>2. PICK n \in T : \A k \in T : n <= k
    BY <2>1, Least
  <2>3. n \in 0 .. Len(a) /\ W[n] = b /\ n # 0
    BY <1>2, <1>7
  <2>4. n - 1 \in 0 .. Len(a) /\ n \in 1 .. Len(a) /\ ~(n <= n - 1)
    BY <1>1, <2>3
  <2> DEFINE d == W[n - 1]
  <2>5. d \in X /\ d # b /\ b = Above(t, d)
    BY <1>2, <2>2, <2>3, <2>4
  <2>6. QED
    BY <1>5, <2>5, AboveProps
<1>8. ASSUME NEW b \in X, b # top
      PROVE  Top(t, b) > 0 /\ Parent(t, b) \in X
  <2>1. PICK j \in 0 .. Len(a) : W[j] = b
    OBVIOUS
  <2> DEFINE T == {k \in j .. Len(a) : W[k] # b}
  <2>2. T \subseteq Nat /\ T # {}
    BY <1>1, <1>8, <2>1
  <2>3. PICK n \in T : \A k \in T : n <= k
    BY <2>2, Least
  <2>4. n \in j .. Len(a) /\ W[n] # b /\ n # j
    BY <2>1
  <2>5. n - 1 \in j .. Len(a) /\ n \in 1 .. Len(a) /\ n \in 0 .. Len(a) /\ ~(n <= n - 1)
    BY <1>1, <2>1, <2>4
  <2>6. W[n - 1] = b
    BY <2>3, <2>5
  <2>7. W[n] = Above(t, b) /\ W[n] \in X
    BY <1>2, <2>5, <2>6
  <2>8. Above(t, b) # b
    BY <2>4, <2>7
  <2>9. Top(t, b) > 0 /\ Above(t, b) = Parent(t, b)
    BY <1>5, <2>8, AboveProps
  <2>10. QED
    BY <2>7, <2>9
<1>9. QED
  BY <1>5, <1>6, <1>7, <1>8 DEF W

\* What is a child hangs from the node it is a child of.
LEMMA KidHangs ==
  ASSUME NEW t, TrieType(t), Hangs(t), NEW a \in DOMAIN t, NEW c \in Kids(t, a)
  PROVE  /\ Kid(t, a, c) \in DOMAIN t /\ Start(t, Kid(t, a, c)) = Append(a, c)
         /\ Top(t, Kid(t, a, c)) > 0
         /\ Parent(t, Kid(t, a, c)) = a /\ Edge(t, Kid(t, a, c)) = c
<1> DEFINE b == Kid(t, a, c)
           p == Parent(t, b)
           d == Edge(t, b)
<1>1. a \in Str /\ Len(a) \in Nat
  BY TreeProps
<1>2. /\ b \in DOMAIN t /\ Start(t, b) = Append(a, c) /\ Top(t, b) = Len(a) + 1 /\ c \in Char
  BY KidProps
<1>3. Top(t, b) > 0
  BY <1>1, <1>2
<1>4. p \in Str /\ d \in Char /\ Append(p, d) = Append(a, c)
  BY <1>2, <1>3, TreeProps
<1> HIDE DEF b, p, d
<1>5. p = a /\ d = c
  BY <1>1, <1>2, <1>4, AppendOne
<1>6. QED
  BY <1>2, <1>3, <1>5 DEF b, p, d

\* Without the nodes that are deleted.
LEMMA DeleteGood ==
  ASSUME NEW t, TrieType(t), Hangs(t), NEW a \in DOMAIN t,
         t[a].refcount = 0, t[a].children = {},
         \A u \in DOMAIN t : u # a => NodeOk(t[u], Kids(t, u))
  PROVE  LET r == Delete(t, a)
         IN /\ r.fails = FALSE /\ Good(r.trie)
            /\ \E x : \A u : \/ Ref(r.trie, u) = Ref(t, u)
                             \/ /\ u = x /\ u \in DOMAIN t /\ u \in DOMAIN r.trie
                                /\ r.trie[u].dense # t[u].dense /\ Ref(r.trie, u) = 0
<1> DEFINE X == {Unwound(t, a)[k] : k \in 0 .. Len(a)}
           top == Unwound(t, a)[Len(a)]
           rest == Restrict(t, DOMAIN t \ X)
           p == Parent(t, top)
           c == Edge(t, top)
           r == Delete(t, a)
<1>1. /\ a \in X /\ X \subseteq DOMAIN t /\ top \in X /\ Above(t, top) = top
      /\ \A b \in X : b = a \/ \E d \in X :
            /\ Top(t, d) > 0 /\ b = Parent(t, d)
            /\ t[b].children = {Edge(t, d)} /\ t[b].refcount = 0 /\ Bare(t[b])
      /\ \A b \in X : b = top \/ (Top(t, b) > 0 /\ Parent(t, b) \in X)
  BY UnwoundProps
<1>2. /\ Top(t, top) = 0 => r = Result(rest, FALSE)
      /\ Top(t, top) # 0 => r = Prune(rest, p, c)
  BY DEF Delete
<1>3. /\ DOMAIN rest = DOMAIN t \ X /\ \A u \in DOMAIN rest : rest[u] = t[u]
      /\ rest = [u \in DOMAIN rest |-> rest[u]]
  BY DEF Restrict
<1> HIDE DEF X, top, rest, r
<1>4. \A u \in DOMAIN t : u \in Str /\ Len(u) \in Nat /\ t[u] \in NodeType
  BY TreeProps
<1>5. TrieType(rest)
  <2>1. \A u \in DOMAIN rest : rest[u] \in NodeType /\ u \in Str
    BY <1>3, <1>4
  <2>2. PICK N \in Nat : \A u \in DOMAIN t : Len(u) <= N
    BY DEF TrieType
  <2>3. \A u \in DOMAIN rest : Len(u) <= N
    BY <1>3, <2>2
  <2>4. rest \in [DOMAIN rest -> NodeType] /\ DOMAIN rest \subseteq Str
    BY <1>3, <2>1
  <2>5. QED
    BY <2>3, <2>4 DEF TrieType
<1>6. \A u \in DOMAIN rest : /\ Top(rest, u) = Top(t, u) /\ Start(rest, u) = Start(t, u)
                             /\ Parent(rest, u) = Parent(t, u) /\ Edge(rest, u) = Edge(t, u)
  BY <1>3 DEF Top, Start, Parent, Edge
<1>7. ASSUME NEW b \in DOMAIN t, Top(t, b) > 0, Parent(t, b) \in X PROVE b \in X
  <2>1. /\ Edge(t, b) \in t[Parent(t, b)].children /\ Edge(t, b) \in Kids(t, Parent(t, b))
        /\ Kid(t, Parent(t, b), Edge(t, b)) = b
    BY <1>7, EdgeIsKid, TreeProps
  <2>2. Parent(t, b) # a
    BY <2>1
  <2>3. PICK d \in X : /\ Top(t, d) > 0 /\ Parent(t, b) = Parent(t, d)
                       /\ t[Parent(t, b)].children = {Edge(t, d)}
    BY <1>1, <1>7, <2>2
  <2>4. Edge(t, b) = Edge(t, d)
    BY <2>1, <2>3
  <2>5. Kid(t, Parent(t, d), Edge(t, d)) = d
    BY <1>1, <2>3, EdgeIsKid
  <2>6. QED
    BY <2>1, <2>3, <2>4, <2>5
<1>8. Hangs(rest)
  <2>1. \A u \in DOMAIN rest : rest[u].prefix_len <= PrefixMax /\ rest[u].prefix_len <= Len(u)
    BY <1>3 DEF Hangs
  <2>2. \A u, v \in DOMAIN rest : Start(rest, u) = Start(rest, v) => u = v
    BY <1>3, <1>6 DEF Hangs
  <2>3. ASSUME NEW u \in DOMAIN rest, Top(rest, u) > 0
        PROVE  Parent(rest, u) \in DOMAIN rest /\ Edge(rest, u) \in rest[Parent(rest, u)].children
    <3>1. u \in DOMAIN t /\ u \notin X /\ Top(t, u) > 0
      BY <1>3, <1>6, <2>3
    <3>2. Parent(t, u) \in DOMAIN t /\ Edge(t, u) \in t[Parent(t, u)].children
      BY <3>1, TreeProps
    <3>3. Parent(t, u) \notin X
      BY <1>7, <3>1
    <3>4. QED
      BY <1>3, <1>6, <3>2, <3>3
  <2>4. QED
    BY <2>1, <2>2, <2>3 DEF Hangs
<1>9. ASSUME NEW u \in DOMAIN rest
      PROVE  /\ Kids(rest, u) \subseteq Kids(t, u)
             /\ \A d \in Kids(t, u) : d \in Kids(rest, u)
                                      \/ (Top(t, top) > 0 /\ u = p /\ d = c)
  <2>1. u \in DOMAIN t /\ u \notin X
    BY <1>3
  <2>2. Kids(t, u) = {d \in Char : IsNode(t, Append(u, d))}
    BY <2>1, KidsAre
  <2>3. Kids(rest, u) = {d \in Char : IsNode(rest, Append(u, d))}
    BY <1>5, <1>8, KidsAre
  <2>4. \A s : IsNode(rest, s) => IsNode(t, s)
    BY <1>3, <1>6 DEF IsNode
  <2>5. ASSUME NEW d \in Kids(t, u), d \notin Kids(rest, u)
        PROVE  Top(t, top) > 0 /\ u = p /\ d = c
    <3> DEFINE b == Kid(t, u, d)
    <3>1. /\ b \in DOMAIN t /\ Start(t, b) = Append(u, d) /\ Top(t, b) > 0
          /\ Parent(t, b) = u /\ Edge(t, b) = d
      BY <2>1, KidHangs
    <3> HIDE DEF b
    <3>2. b \in X
      <4>1. SUFFICES ASSUME b \notin X PROVE FALSE
        OBVIOUS
      <4>2. b \in DOMAIN rest /\ Start(rest, b) = Append(u, d)
        BY <1>3, <1>6, <3>1, <4>1
      <4>3. d \in Char /\ IsNode(rest, Append(u, d))
        BY <2>2, <4>2 DEF IsNode
      <4>4. QED
        BY <2>3, <2>5, <4>3
    <3>3. b = top
      BY <1>1, <2>1, <3>1, <3>2
    <3>4. QED
      BY <3>1, <3>3
  <2>6. QED
    BY <2>2, <2>3, <2>4, <2>5
<1>10. \A u : Ref(rest, u) = Ref(t, u)
  <2>1. \A b \in X : t[b].refcount = 0
    BY <1>1
  <2>2. QED
    BY <1>1, <1>3, <2>1 DEF Ref
<1>11. \A u \in DOMAIN rest : NodeOk(t[u], Kids(t, u)) /\ u # a
  BY <1>1, <1>3
<1>12. top \in DOMAIN t /\ Top(t, top) \in Nat
  BY <1>1, TreeProps
<1>13. CASE Top(t, top) = 0
  <2>1. r.fails = FALSE /\ r.trie = rest
    BY <1>2, <1>13 DEF Result
  <2>2. \A u \in DOMAIN rest : Kids(rest, u) = Kids(t, u)
    <3>1. ~(Top(t, top) > 0)
      BY <1>13
    <3>2. ASSUME NEW u \in DOMAIN rest PROVE Kids(rest, u) = Kids(t, u)
      <4>1. Kids(rest, u) \subseteq Kids(t, u) /\ \A d \in Kids(t, u) : d \in Kids(rest, u)
        BY <1>9, <3>1
      <4>2. QED
        BY <4>1
    <3>3. QED
      BY <3>2
  <2>3. Good(rest)
    BY <1>3, <1>5, <1>8, <1>11, <2>2 DEF Good
  <2>4. QED
    BY <1>10, <2>1, <2>3 DEF r
<1>14. CASE Top(t, top) # 0
  <2>1. Top(t, top) > 0
    BY <1>12, <1>14
  <2>2. /\ p \in DOMAIN t /\ c \in Char /\ c \in Kids(t, p) /\ Kid(t, p, c) = top
        /\ Len(p) = Top(t, top) - 1 /\ Top(t, top) \in 0 .. Len(top) /\ Len(top) \in Nat
    BY <1>12, <2>1, EdgeIsKid, TreeProps
  <2>3. p # top
    <3>1. Len(p) # Len(top)
      <4> HIDE DEF p
      <4>1. QED
        BY <2>2
    <3>2. QED
      BY <3>1
  <2>4. ~Bare(t[p])
    BY <1>1, <2>1, <2>3 DEF Above
  <2>5. p \notin X
    <3>1. SUFFICES ASSUME p \in X PROVE FALSE
      OBVIOUS
    <3>2. p # a
      <4>1. Kids(t, a) = {}
        BY DEF Kids
      <4>2. QED
        BY <2>2, <4>1
    <3>3. QED
      BY <1>1, <2>4, <3>1, <3>2
  <2>6. p \in DOMAIN rest /\ rest[p] = t[p]
    BY <1>3, <2>2, <2>5
  <2>7. c \notin Kids(rest, p)
    <3>1. SUFFICES ASSUME c \in Kids(rest, p) PROVE FALSE
      OBVIOUS
    <3>2. IsNode(rest, Append(p, c))
      BY <3>1 DEF Kids
    <3>3. PICK b \in DOMAIN rest : Start(rest, b) = Append(p, c)
      BY <3>2 DEF IsNode
    <3>4. Start(t, b) = Append(p, c) /\ b \in DOMAIN t /\ b \notin X
      BY <1>3, <1>6, <3>3
    <3>5. Start(t, top) = Append(p, c)
      BY <1>12, <2>1, TreeProps
    <3>6. b = top
      BY <1>12, <3>4, <3>5 DEF Hangs
    <3>7. QED
      BY <1>1, <3>4, <3>6
  <2>8. Kids(rest, p) \cup {c} = Kids(t, p)
    BY <1>9, <2>2, <2>6
  <2>9. \A u \in DOMAIN rest : u # p => NodeOk(rest[u], Kids(rest, u))
    <3>1. ASSUME NEW u \in DOMAIN rest, u # p PROVE NodeOk(rest[u], Kids(rest, u))
      <4>1. Kids(rest, u) = Kids(t, u)
        BY <1>9, <3>1
      <4>2. QED
        BY <1>3, <1>11, <4>1
    <3>2. QED
      BY <3>1
  <2>10. NodeOk(rest[p], Kids(rest, p) \cup {c}) /\ ~Bare(rest[p])
    BY <1>11, <2>4, <2>6, <2>8
  <2>11. r = Prune(rest, p, c)
    BY <1>2, <1>14
  <2> HIDE DEF p, c
  <2> DEFINE z == Prune(rest, p, c)
  <2>13. /\ z.fails = FALSE /\ Good(z.trie)
         /\ \A u : \/ Ref(z.trie, u) = Ref(rest, u)
                   \/ /\ u = p /\ u \in DOMAIN rest /\ u \in DOMAIN z.trie
                      /\ z.trie[u].dense # rest[u].dense /\ Ref(z.trie, u) = 0
    BY <1>5, <1>8, <2>2, <2>6, <2>7, <2>9, <2>10, PruneGood
  <2> HIDE DEF z
  <2>14. \A u : \/ Ref(z.trie, u) = Ref(t, u)
                \/ /\ u = p /\ u \in DOMAIN t /\ u \in DOMAIN z.trie
                   /\ z.trie[u].dense # t[u].dense /\ Ref(z.trie, u) = 0
    BY <1>10, <2>2, <2>6, <2>13
  <2>15. z = r
    BY <2>11 DEF z
  <2>16. QED
    BY <2>13, <2>14, <2>15 DEF r
<1>15. QED
  BY <1>13, <1>14

\* Unsubscribing from what the trie holds (nn_trie_unsubscribe): it does not fail.
LEMMA UnsubscribedGood ==
  ASSUME NEW t, Good(t), NEW s \in Str, Ref(t, s) > 0
  PROVE  /\ Unsubscribed(t, s).fails = FALSE
         /\ Leaves(t, Unsubscribed(t, s).trie, s, Ref(t, s) - 1)
<1> DEFINE k == t[s].refcount - 1
           less == [t EXCEPT ![s].refcount = k]
           r == Unsubscribed(t, s)
<1>1. /\ TrieType(t) /\ Hangs(t) /\ s \in DOMAIN t /\ NodeOk(t[s], Kids(t, s))
      /\ Ref(t, s) = t[s].refcount
  BY DEF Good, Ref
<1>2. t[s] \in NodeType /\ Kids(t, s) \subseteq t[s].children /\ Kids(t, s) \subseteq Char
  BY <1>1, TreeProps, KidsAre
<1>3. k \in Nat /\ k = Ref(t, s) - 1 /\ t[s].refcount \in Nat /\ t[s].refcount > 0
  <2>1. t[s].refcount \in Nat
    BY <1>2 DEF NodeType
  <2>2. QED
    BY <1>1, <2>1
<1>4. r = Found(t, s)
  <2>1. End(t, s) = s
    BY <1>1, EndOfNode
  <2>2. DOMAIN t # {}
    BY <1>1
  <2>3. ~IsStrictPrefix(s, s)
    BY DEF IsStrictPrefix
  <2>4. QED
    BY <2>1, <2>2, <2>3 DEF Unsubscribed
<1>5. /\ k > 0 => r = Result(less, FALSE)
      /\ k = 0 /\ t[s].children = {} => r = Delete(less, s)
      /\ k = 0 /\ t[s].children # {} => r = Result(Compact(less, s), FALSE)
  <2>1. less = [t EXCEPT ![s].refcount = @ - 1]
    OBVIOUS
  <2>2. /\ t[s].refcount > 1 => r = Result([t EXCEPT ![s].refcount = @ - 1], FALSE)
        /\ t[s].refcount # 0 /\ ~(t[s].refcount > 1) /\ t[s].children = {} =>
              r = Delete([t EXCEPT ![s].refcount = @ - 1], s)
        /\ t[s].refcount # 0 /\ ~(t[s].refcount > 1) /\ t[s].children # {} =>
              r = Result(Compact([t EXCEPT ![s].refcount = @ - 1], s), FALSE)
    <3> DEFINE l == [t EXCEPT ![s].refcount = @ - 1]
    <3>1. r = CASE t[s].refcount = 0 -> Result(t, FALSE)
                [] t[s].refcount > 1 -> Result(l, FALSE)
                [] OTHER -> IF t[s].children = {} THEN Delete(l, s)
                            ELSE Result(Compact(l, s), FALSE)
      BY <1>4 DEF Found
    <3> HIDE DEF l, r
    <3>2. t[s].refcount # 0
      BY <1>3
    <3>3. /\ t[s].refcount > 1 => r = Result(l, FALSE)
          /\ ~(t[s].refcount > 1) /\ t[s].children = {} => r = Delete(l, s)
          /\ ~(t[s].refcount > 1) /\ t[s].children # {} => r = Result(Compact(l, s), FALSE)
      BY <3>1, <3>2
    <3>4. QED
      BY <3>3 DEF l
  <2>3. /\ k > 0 => t[s].refcount > 1
        /\ k = 0 => t[s].refcount # 0 /\ ~(t[s].refcount > 1)
    BY <1>3
  <2> HIDE DEF r, k
  <2>4. QED
    BY <2>1, <2>2, <2>3
<1> HIDE DEF k
<1>6. /\ TrieType(less) /\ Hangs(less) /\ DOMAIN less = DOMAIN t
      /\ \A u \in DOMAIN t : u # s => less[u] = t[u]
      /\ less[s].refcount = k /\ less[s].children = t[s].children
      /\ less[s].dense = t[s].dense /\ less[s].prefix_len = t[s].prefix_len
      /\ \A u \in DOMAIN t : Kids(less, u) = Kids(t, u)
      /\ \A u \in DOMAIN t : /\ NodeOk(t[u], Kids(t, u))
                             /\ u = s => k > 0 \/ Kids(t, s) # {}
                             => NodeOk(less[u], Kids(less, u))
      /\ \A u : Ref(less, u) = IF u = s THEN k ELSE Ref(t, u)
  <2>1. Recounted(t, less, s, k)
    BY <1>1, <1>3, Recount
  <2> HIDE DEF less
  <2>2. QED
    BY <2>1 DEF Recounted
<1> HIDE DEF less, r
<1>7. \A u \in DOMAIN t : NodeOk(t[u], Kids(t, u))
  BY DEF Good
<1>8. ASSUME k > 0 \/ Kids(t, s) # {} PROVE Good(less)
  BY <1>6, <1>7, <1>8 DEF Good
<1>9. CASE k > 0
  <2>1. r.fails = FALSE /\ r.trie = less
    BY <1>5, <1>9 DEF Result
  <2>2. Leaves(t, less, s, k)
    BY <1>6, <1>8, <1>9 DEF Leaves
  <2>3. QED
    BY <1>3, <2>1, <2>2 DEF r
<1>10. CASE k = 0 /\ t[s].children # {}
  <2> DEFINE t2 == Compact(less, s)
  <2>1. Kids(t, s) # {}
    <3>1. CASE ~t[s].dense
      BY <1>1, <1>10, <3>1 DEF NodeOk
    <3>2. CASE t[s].dense
      <4>1. Cardinality(Kids(t, s)) > SparseMax /\ SparseMax \in Nat
        BY <1>1, <3>2, TrieAssumption DEF NodeOk
      <4>2. Cardinality(Kids(t, s)) # 0
        BY <4>1
      <4>3. QED
        BY <1>2, <4>2, CharSet
    <3>3. QED
      BY <3>1, <3>2
  <2>2. Good(t2) /\ \A u : Ref(t2, u) = Ref(less, u)
    BY <1>1, <1>6, <1>8, <2>1, CompactGood
  <2>3. r = Result(t2, FALSE)
    BY <1>5, <1>10
  <2> HIDE DEF t2
  <2>4. r.fails = FALSE /\ r.trie = t2
    BY <2>3 DEF Result
  <2>5. Leaves(t, t2, s, k)
    BY <1>6, <2>2 DEF Leaves
  <2>6. QED
    BY <1>3, <2>4, <2>5 DEF r
<1>11. CASE k = 0 /\ t[s].children = {}
  <2> DEFINE z == Delete(less, s)
  <2>1. r = z
    BY <1>5, <1>11
  <2>2. \A u \in DOMAIN less : u # s => NodeOk(less[u], Kids(less, u))
    BY <1>6, <1>7
  <2>3. s \in DOMAIN less /\ less[s].refcount = 0 /\ less[s].children = {}
    BY <1>1, <1>6, <1>11
  <2>4. /\ z.fails = FALSE /\ Good(z.trie)
        /\ \E x : \A u : \/ Ref(z.trie, u) = Ref(less, u)
                         \/ /\ u = x /\ u \in DOMAIN less /\ u \in DOMAIN z.trie
                            /\ z.trie[u].dense # less[u].dense /\ Ref(z.trie, u) = 0
    BY <1>6, <2>2, <2>3, DeleteGood
  <2> HIDE DEF z
  <2>5. PICK x : \A u : \/ Ref(z.trie, u) = Ref(less, u)
                        \/ /\ u = x /\ u \in DOMAIN less /\ u \in DOMAIN z.trie
                           /\ z.trie[u].dense # less[u].dense /\ Ref(z.trie, u) = 0
    BY <2>4
  <2>6. Ref(z.trie, s) = k
    BY <1>6, <1>11, <2>5
  <2>7. \A u \in Str \ {s} :
           \/ Ref(z.trie, u) = Ref(t, u)
           \/ /\ u = x /\ u \in DOMAIN t /\ u \in DOMAIN z.trie
              /\ z.trie[u].dense # t[u].dense /\ Ref(z.trie, u) = 0
    BY <1>6, <2>5
  <2>8. Leaves(t, z.trie, s, k)
    BY <2>4, <2>6, <2>7 DEF Leaves
  <2>9. QED
    BY <1>3, <2>1, <2>4, <2>8 DEF r
<1>12. k > 0 \/ k = 0
  <2>1. k \in Nat
    BY <1>3
  <2>2. QED
    BY <2>1
<1>13. QED
  BY <1>9, <1>10, <1>11, <1>12, Zenon

-----------------------------------------------------------------------------
(* The sockets.                                                             *)

\* What nn_trie_match may say of a message, and what it is subscribed to.
LEMMA MatchesProps ==
  ASSUME NEW t, Good(t), NEW s \in Str
  PROVE  /\ FALSE \in Matches(t, s) =>
               ~\E u \in DOMAIN t : t[u].refcount > 0 /\ IsPrefix(u, s)
         /\ TRUE \in Matches(t, s) =>
               \E u \in DOMAIN t : t[u].refcount > 0 /\ (IsPrefix(u, s) \/ IsStrictPrefix(s, u))
<1>1. TrieType(t) /\ Hangs(t) /\ \A u \in DOMAIN t : u \in Str
  BY TreeProps DEF Good
<1>2. ASSUME NEW u \in DOMAIN t, t[u].refcount > 0, IsPrefix(u, s), FALSE \in Matches(t, s)
      PROVE  FALSE
  <2>1. Len(u) <= Len(s) /\ Upto(s, Len(u)) = u
    BY <1>1, <1>2, PrefixProps
  <2>2. u \in Visited(t, s)
    BY <1>1, <2>1, Visits
  <2>3. DOMAIN t # {}
    OBVIOUS
  <2>4. Matches(t, s) = {TRUE}
    BY <1>2, <2>2, <2>3 DEF Matches
  <2>5. QED
    BY <1>2, <2>4
<1>3. ASSUME TRUE \in Matches(t, s)
      PROVE  \E u \in DOMAIN t : t[u].refcount > 0 /\ (IsPrefix(u, s) \/ IsStrictPrefix(s, u))
  <2>1. DOMAIN t # {}
    BY <1>3 DEF Matches
  <2>2. CASE \E a \in Visited(t, s) : IsPrefix(a, s) /\ t[a].refcount > 0
    <3>1. PICK a \in Visited(t, s) : IsPrefix(a, s) /\ t[a].refcount > 0
      BY <2>2
    <3>2. PICK k \in 0 .. Len(s) : a = Walk(t, s)[k]
      BY DEF Visited
    <3>3. a \in DOMAIN t
      BY <1>1, <2>1, <3>2, WalkAt DEF At
    <3>4. QED
      BY <3>1, <3>3
  <2>3. CASE ~\E a \in Visited(t, s) : IsPrefix(a, s) /\ t[a].refcount > 0
    <3>1. End(t, s) = s
      BY <1>3, <2>1, <2>3 DEF Matches
    <3>2. s \in DOMAIN t
      BY <1>1, <2>1, <3>1, EndProps
    <3>3. CASE t[s].refcount > 0
      <4>1. IsPrefix(s, s)
        BY UptoEnds, PrefixProps
      <4>2. QED
        BY <3>2, <3>3, <4>1
    <3>4. CASE ~(t[s].refcount > 0)
      <4>1. Kids(t, s) # {}
        BY <3>2, <3>4 DEF Good, NodeOk
      <4>2. PICK c : c \in Kids(t, s)
        BY <4>1
      <4>3. PICK u \in DOMAIN t : t[u].refcount > 0 /\ Len(s) < Len(u) /\ Upto(u, Len(s)) = s
        BY <3>2, <4>2, HasSubscription
      <4>4. IsStrictPrefix(s, u)
        BY <1>1, <4>3, PrefixProps
      <4>5. QED
        BY <4>3, <4>4
    <3>5. QED
      BY <3>3, <3>4
  <2>4. QED
    BY <2>2, <2>3
<1>4. QED
  BY <1>2, <1>3

\* The trie holds what the user is subscribed to, and nothing else.
Holds(t, f) == \A u \in Str : Ref(t, u) = IF u \in Topic THEN f[u] ELSE 0

\* What is forgotten is what Forgotten says.
LEMMA WhatIsLeft ==
  ASSUME NEW t, Good(t), NEW f \in [Topic -> Nat], NEW g \in [Topic -> Nat],
         NEW s \in Topic, g = [f EXCEPT ![s] = g[s]],
         Holds(t, f), NEW t2, Leaves(t, t2, s, g[s])
  PROVE  /\ Good(t2)
         /\ \A u \in Str : \/ Ref(t2, u) = IF u \in Topic THEN g[u] ELSE 0
                           \/ u \in Forgotten(f, g)
<1>1. \A u \in Topic : u \in Str
  BY PubSubAssumption DEF Str
<1>2. PICK x : \A u \in Str \ {s} :
          \/ Ref(t2, u) = Ref(t, u)
          \/ /\ u = x /\ u \in DOMAIN t /\ u \in DOMAIN t2
             /\ t2[u].dense # t[u].dense /\ Ref(t2, u) = 0
  BY DEF Leaves
<1>3. Good(t2) /\ Ref(t2, s) = g[s]
  BY DEF Leaves
<1>4. \A u \in Topic : u # s => g[u] = f[u]
  OBVIOUS
<1> DEFINE Right(u) == Ref(t2, u) = IF u \in Topic THEN g[u] ELSE 0
<1>5. ASSUME NEW u \in Str, u # x PROVE Right(u)
  <2>1. CASE u = s
    BY <1>3, <2>1
  <2>2. CASE u # s
    BY <1>2, <1>4, <1>5, <2>2 DEF Holds
  <2>3. QED
    BY <2>1, <2>2
<1>6. ASSUME NEW u \in Str, u = x, ~Right(u) PROVE u \in Forgotten(f, g)
  <2>1. u # s
    BY <1>3, <1>6
  <2>2. Ref(t, u) = IF u \in Topic THEN f[u] ELSE 0
    BY DEF Holds
  <2>3. Ref(t2, u) # Ref(t, u)
    BY <1>4, <1>6, <2>1, <2>2
  <2>4. u \in DOMAIN t /\ u \in DOMAIN t2 /\ t2[u].dense # t[u].dense /\ Ref(t2, u) = 0
    BY <1>2, <2>1, <2>3
  <2>5. u \in Topic /\ f[u] > 0 /\ g[u] > 0
    <3>1. u \in Topic /\ f[u] # 0
      BY <2>2, <2>3, <2>4
    <3>2. f[u] \in Nat /\ g[u] = f[u]
      BY <1>4, <2>1, <3>1
    <3>3. QED
      BY <3>1, <3>2
  <2>6. Branches(f, u) = Kids(t, u)
    BY <1>1, <2>4, BranchesAreKids DEF Holds
  <2>7. Branches(g, u) = Kids(t2, u)
    <3>1. \A w \in Str : Len(u) < Len(w) => Ref(t2, w) = IF w \in Topic THEN g[w] ELSE 0
      <4>1. ASSUME NEW w \in Str, Len(u) < Len(w) PROVE Right(w)
        <5>1. w # u
          BY <4>1, UptoEnds
        <5>2. QED
          BY <1>5, <1>6, <5>1
      <4>2. QED
        BY <4>1
    <3>2. QED
      BY <1>1, <1>3, <2>4, <3>1, BranchesAreKids
  <2>8. /\ t[u].dense <=> ~(Cardinality(Kids(t, u)) <= SparseMax)
        /\ t2[u].dense <=> ~(Cardinality(Kids(t2, u)) <= SparseMax)
    BY <1>3, <2>4, DenseBranches
  <2>9. t[u].dense \in BOOLEAN /\ t2[u].dense \in BOOLEAN
    BY <1>3, <2>4, TreeProps DEF Good, NodeType
  <2>10. (Cardinality(Branches(f, u)) <= SparseMax) # (Cardinality(Branches(g, u)) <= SparseMax)
    BY <2>4, <2>6, <2>7, <2>8, <2>9
  <2>11. u \in Subscriptions(f) \cap Subscriptions(g)
    BY <2>5 DEF Subscriptions
  <2>12. QED
    BY <2>10, <2>11 DEF Forgotten
<1>7. QED
  BY <1>3, <1>5, <1>6

\* No subscriptions, no nodes.
LEMMA EmptyGood ==
  Good(EmptyTrie) /\ \A u : Ref(EmptyTrie, u) = 0
<1>1. DOMAIN EmptyTrie = {} /\ EmptyTrie \in [{} -> NodeType]
  BY DEF EmptyTrie
<1>2. TrieType(EmptyTrie)
  BY <1>1 DEF TrieType
<1>3. Hangs(EmptyTrie)
  BY <1>1 DEF Hangs
<1>4. QED
  BY <1>1, <1>2, <1>3 DEF Good, Ref

\* Why the two properties hold: as long as nothing is known to go wrong the trie is
\* good and holds what the user is subscribed to, and the publisher sends on pipes
\* that are there and empty only.
SubInv ==
    /\ SubTypeOK
    /\ outpipes \subseteq here /\ \A p \in outpipes : way[p] = NULL
    /\ odd = {} => Good(trie) /\ Holds(trie, subs)
    /\ aborted => odd # {}
    /\ \A t \in Topic : Held(trie, t) < subs[t] =>
          <<"forgotten", t>> \in odd \/ \E u \in Topic : <<"absent", u>> \in odd
    /\ wrong = FALSE

\* What has been forgotten is known if the user unsubscribes from nothing he is not
\* subscribed to.
LEMMA StillKnown ==
  ASSUME NEW t2, NEW g \in [Topic -> Nat], NEW F, NEW o, Good(t2),
         o = {<<"forgotten", u>> : u \in F},
         \A u \in Str : Ref(t2, u) = (IF u \in Topic THEN g[u] ELSE 0) \/ u \in F
  PROVE  /\ o = {} => Holds(t2, g)
         /\ \A t \in Topic : Held(t2, t) < g[t] => <<"forgotten", t>> \in o
<1>1. o = {} => F = {}
  OBVIOUS
<1>2. ASSUME NEW t \in Topic, Held(t2, t) < g[t] PROVE <<"forgotten", t>> \in o
  <2>1. t \in Str
    BY PubSubAssumption DEF Str
  <2>2. Held(t2, t) = Ref(t2, t)
    BY <2>1, HeldIsRef DEF Good
  <2>3. g[t] \in Nat
    OBVIOUS
  <2>4. Ref(t2, t) # g[t]
    BY <1>2, <2>2, <2>3
  <2>5. t \in F
    BY <2>1, <2>4
  <2>6. QED
    BY <2>5
<1>3. QED
  BY <1>1, <1>2 DEF Holds

\* It holds at first.
LEMMA SubInvInit ==
  SubInit => SubInv
<1> SUFFICES ASSUME SubInit PROVE SubInv
  OBVIOUS
<1>1. /\ trie = EmptyTrie /\ subs = [t \in Topic |-> 0] /\ outpipes = {}
      /\ way = [p \in Pipe |-> NULL] /\ here = {} /\ there = {}
      /\ odd = {} /\ wrong = FALSE /\ aborted = FALSE
  BY DEF SubInit
<1>2. SubTypeOK
  BY <1>1 DEF SubTypeOK
<1>3. Good(trie) /\ Holds(trie, subs)
  BY <1>1, EmptyGood DEF Holds
<1>4. \A t \in Topic : ~(Held(trie, t) < subs[t])
  <2>1. ASSUME NEW t \in Topic PROVE ~(Held(trie, t) < subs[t])
    <3>1. Held(trie, t) = 0
      BY <1>1 DEF Held, EmptyTrie
    <3>2. subs[t] = 0
      BY <1>1
    <3>3. QED
      BY <3>1, <3>2
  <2>2. QED
    BY <2>1
<1>5. QED
  BY <1>1, <1>2, <1>3, <1>4 DEF SubInv

\* The user subscribes.
LEMMA SubInvSubscribe ==
  ASSUME SubInv, odd = {}, NEW t \in Topic, Subscribe(t)
  PROVE  SubInv'
<1>1. /\ trie' = Subscribed(trie, t) /\ subs' = [subs EXCEPT ![t] = @ + 1]
      /\ odd' = odd \cup {<<"forgotten", u>> : u \in Forgotten(subs, subs')}
      /\ UNCHANGED <<outpipes, way, here, there>> /\ wrong' = wrong /\ aborted' = aborted
  BY DEF Subscribe, pipes
<1>2. /\ SubTypeOK /\ subs \in [Topic -> Nat] /\ Good(trie) /\ Holds(trie, subs)
      /\ aborted = FALSE /\ t \in Str
  <2>1. aborted = FALSE
    BY DEF SubInv
  <2>2. QED
    BY <2>1, PubSubAssumption DEF SubInv, SubTypeOK, Str
<1>3. subs' \in [Topic -> Nat] /\ subs'[t] = subs[t] + 1 /\ subs' = [subs EXCEPT ![t] = subs'[t]]
  BY <1>1, <1>2
<1>4. Leaves(trie, trie', t, subs'[t])
  <2>1. Ref(trie, t) = subs[t]
    BY <1>2 DEF Holds
  <2>2. Leaves(trie, Subscribed(trie, t), t, Ref(trie, t) + 1)
    BY <1>2, SubscribedGood
  <2>3. QED
    BY <1>1, <1>3, <2>1, <2>2
<1>5. /\ Good(trie')
      /\ \A u \in Str : \/ Ref(trie', u) = IF u \in Topic THEN subs'[u] ELSE 0
                        \/ u \in Forgotten(subs, subs')
  BY <1>2, <1>3, <1>4, WhatIsLeft
<1>6. odd' = {<<"forgotten", u>> : u \in Forgotten(subs, subs')}
  BY <1>1
<1>7. /\ odd' = {} => Holds(trie', subs')
      /\ \A u \in Topic : Held(trie', u) < subs'[u] => <<"forgotten", u>> \in odd'
  BY <1>3, <1>5, <1>6, StillKnown
<1>8. SubTypeOK'
  BY <1>1, <1>2, <1>3 DEF SubTypeOK
<1>9. QED
  BY <1>1, <1>2, <1>5, <1>7, <1>8 DEF SubInv

\* The user unsubscribes.
LEMMA SubInvUnsubscribe ==
  ASSUME SubInv, odd = {}, NEW t \in Topic, Unsubscribe(t)
  PROVE  SubInv'
<1> DEFINE r == Unsubscribed(trie, t)
<1>1. /\ trie' = r.trie /\ aborted' = r.fails
      /\ subs' = IF subs[t] > 0 THEN [subs EXCEPT ![t] = @ - 1] ELSE subs
      /\ odd' = odd \cup {<<"forgotten", u>> : u \in Forgotten(subs, subs')}
                    \cup (IF subs[t] = 0 THEN {<<"absent", t>>} ELSE {})
      /\ UNCHANGED <<outpipes, way, here, there>> /\ wrong' = wrong
  BY DEF Unsubscribe, pipes
<1>2. /\ SubTypeOK /\ subs \in [Topic -> Nat] /\ Good(trie) /\ Holds(trie, subs)
      /\ t \in Str /\ subs[t] \in Nat
  BY PubSubAssumption DEF SubInv, SubTypeOK, Str
<1> HIDE DEF r
<1>3. CASE subs[t] = 0
  <2>1. <<"absent", t>> \in odd' /\ subs' = subs
    BY <1>1, <1>3
  <2>2. SubTypeOK'
    BY <1>1, <1>2, <2>1 DEF SubTypeOK
  <2>3. QED
    BY <1>1, <2>1, <2>2 DEF SubInv
<1>4. CASE subs[t] # 0
  <2>1. subs[t] > 0
    BY <1>2, <1>4
  <2>2. /\ subs' \in [Topic -> Nat] /\ subs'[t] = subs[t] - 1
        /\ subs' = [subs EXCEPT ![t] = subs'[t]]
    BY <1>1, <1>2, <2>1
  <2>3. Ref(trie, t) = subs[t]
    BY <1>2 DEF Holds
  <2>4. r.fails = FALSE /\ Leaves(trie, r.trie, t, subs'[t])
    <3>1. Ref(trie, t) > 0
      BY <2>1, <2>3
    <3>2. r.fails = FALSE /\ Leaves(trie, r.trie, t, Ref(trie, t) - 1)
      BY <1>2, <3>1, UnsubscribedGood DEF r
    <3>3. QED
      BY <2>2, <2>3, <3>2
  <2>5. aborted' = FALSE /\ Leaves(trie, trie', t, subs'[t])
    BY <1>1, <2>4
  <2>6. /\ Good(trie')
        /\ \A u \in Str : \/ Ref(trie', u) = IF u \in Topic THEN subs'[u] ELSE 0
                          \/ u \in Forgotten(subs, subs')
    BY <1>2, <2>2, <2>5, WhatIsLeft
  <2>7. odd' = {<<"forgotten", u>> : u \in Forgotten(subs, subs')}
    BY <1>1, <1>4
  <2>8. /\ odd' = {} => Holds(trie', subs')
        /\ \A u \in Topic : Held(trie', u) < subs'[u] => <<"forgotten", u>> \in odd'
    BY <2>2, <2>6, <2>7, StillKnown
  <2>9. SubTypeOK'
    BY <1>1, <1>2, <2>2 DEF SubTypeOK
  <2>10. QED
    BY <1>1, <2>5, <2>6, <2>8, <2>9 DEF SubInv
<1>5. QED
  BY <1>3, <1>4

\* The user receives.
LEMMA SubInvRecv ==
  ASSUME SubInv, odd = {}, SubRecv
  PROVE  SubInv'
<1>1. PICK p \in Arrived \cup {NULL}, ps \in SUBSET Arrived :
        /\ Dropped(p, ps)
        /\ way' = [q \in Pipe |-> IF q \in ps \cup {p} THEN NULL ELSE way[q]]
        /\ wrong' = \/ \E q \in ps : Covered(way[q])
                    \/ p # NULL /\ ~Covered(way[p]) /\ ~Short(way[p])
        /\ UNCHANGED <<trie, outpipes, here, there, subs, odd, aborted>>
  BY DEF SubRecv
<1>2. /\ SubTypeOK /\ subs \in [Topic -> Nat] /\ Good(trie) /\ Holds(trie, subs)
      /\ \A u \in Topic : u \in Str /\ \A k \in Message : k \in Str
  BY PubSubAssumption DEF SubInv, SubTypeOK, Str
<1>3. \A q \in Arrived : way[q] \in Message /\ way[q] \in Str
  <2>1. \A q \in Arrived : way[q] \in Message
    BY <1>2 DEF SubTypeOK, Arrived
  <2>2. \A k \in Message : k \in Str
    BY PubSubAssumption DEF Str
  <2>3. QED
    BY <2>1, <2>2
<1>4. \A u \in DOMAIN trie : trie[u].refcount > 0 => u \in Subscriptions(subs)
  <2>1. ASSUME NEW u \in DOMAIN trie, trie[u].refcount > 0 PROVE u \in Subscriptions(subs)
    <3>1. u \in Str /\ Ref(trie, u) = trie[u].refcount
      BY <1>2, TreeProps DEF Good, Ref
    <3>2. Ref(trie, u) = IF u \in Topic THEN subs[u] ELSE 0
      BY <1>2, <3>1 DEF Holds
    <3>3. QED
      BY <2>1, <3>1, <3>2 DEF Subscriptions
  <2>2. QED
    BY <2>1
<1>5. \A u \in Subscriptions(subs) : u \in DOMAIN trie /\ trie[u].refcount > 0
  <2>1. ASSUME NEW u \in Subscriptions(subs) PROVE u \in DOMAIN trie /\ trie[u].refcount > 0
    <3>1. u \in Topic /\ subs[u] > 0 /\ u \in Str
      BY <1>2 DEF Subscriptions
    <3>2. Ref(trie, u) = subs[u]
      BY <1>2, <3>1 DEF Holds
    <3>3. QED
      BY <3>1, <3>2 DEF Ref
  <2>2. QED
    BY <2>1
<1>6. ASSUME NEW q \in ps PROVE ~Covered(way[q])
  <2>1. FALSE \in Matches(trie, way[q]) /\ way[q] \in Str
    BY <1>1, <1>3 DEF Dropped
  <2>2. ~\E u \in DOMAIN trie : trie[u].refcount > 0 /\ IsPrefix(u, way[q])
    BY <1>2, <2>1, MatchesProps
  <2>3. QED
    BY <1>5, <2>2 DEF Covered
<1>7. ASSUME p # NULL PROVE Covered(way[p]) \/ Short(way[p])
  <2>1. p \in Arrived
    BY <1>7
  <2>2. TRUE \in Matches(trie, way[p]) /\ way[p] \in Str
    BY <1>1, <1>3, <1>7, <2>1 DEF Dropped
  <2>3. PICK u \in DOMAIN trie : /\ trie[u].refcount > 0
                                 /\ IsPrefix(u, way[p]) \/ IsStrictPrefix(way[p], u)
    BY <1>2, <2>2, MatchesProps
  <2>4. QED
    BY <1>4, <2>3 DEF Covered, Short
<1>8. wrong' = FALSE
  BY <1>1, <1>6, <1>7
<1>9. /\ way' \in [Pipe -> Message \cup {NULL}]
      /\ \A q \in outpipes' : way'[q] = NULL
  <2>1. /\ way \in [Pipe -> Message \cup {NULL}] /\ outpipes \subseteq Pipe
        /\ \A q \in outpipes : way[q] = NULL
    BY DEF SubInv, SubTypeOK
  <2>2. QED
    BY <1>1, <2>1
<1>10. SubTypeOK'
  BY <1>1, <1>2, <1>9 DEF SubTypeOK
<1>11. QED
  BY <1>1, <1>8, <1>9, <1>10 DEF SubInv

\* The publisher sends.
LEMMA SubInvPublish ==
  ASSUME SubInv, NEW k \in Message, Publish(k)
  PROVE  SubInv'
<1>1. /\ way' = [p \in Pipe |-> IF p \in outpipes /\ p \in there THEN k ELSE way[p]]
      /\ outpipes' = {}
      /\ aborted' = (\E p \in outpipes : p \notin here \/ way[p] # NULL)
      /\ UNCHANGED <<trie, here, there, subs, odd, wrong>>
  <2>1. Receivers(outpipes, {}) = outpipes /\ DistSent(outpipes, outpipes) = {}
    BY DEF Receivers, DistSent
  <2>2. QED
    BY <2>1 DEF Publish
<1>2. /\ way \in [Pipe -> Message \cup {NULL}] /\ outpipes \subseteq here
      /\ \A p \in outpipes : way[p] = NULL
  BY DEF SubInv, SubTypeOK
<1>3. aborted' = FALSE
  BY <1>1, <1>2
<1>4. way' \in [Pipe -> Message \cup {NULL}]
  BY <1>1, <1>2
<1>5. SubTypeOK'
  BY <1>1, <1>4 DEF SubInv, SubTypeOK
<1>6. QED
  BY <1>1, <1>3, <1>5 DEF SubInv

\* A pipe is added, lets the publisher send, or is removed from either end.
LEMMA SubInvPipes ==
  ASSUME SubInv, NEW p \in Pipe, Connect(p) \/ Out(p) \/ RmHere(p) \/ RmThere(p)
  PROVE  SubInv'
<1>1. /\ way \in [Pipe -> Message \cup {NULL}] /\ outpipes \subseteq here
      /\ \A q \in outpipes : way[q] = NULL
  BY DEF SubInv, SubTypeOK
<1>2. /\ trie' = trie /\ subs' = subs /\ odd' = odd /\ wrong' = wrong
  BY DEF Connect, Out, RmHere, RmThere
<1>3. CASE Connect(p)
  <2>1. /\ here' = here \cup {p} /\ there' = there \cup {p}
        /\ outpipes' = outpipes /\ way' = way /\ aborted' = aborted
    BY <1>3 DEF Connect
  <2>2. SubTypeOK'
    BY <1>2, <2>1 DEF SubInv, SubTypeOK
  <2>3. QED
    BY <1>1, <1>2, <2>1, <2>2 DEF SubInv
<1>4. CASE Out(p)
  <2>1. /\ here' = here /\ there' = there /\ way' = way /\ p \in here /\ way[p] = NULL
        /\ outpipes' = outpipes \cup {p} /\ aborted' = FALSE
    <3>1. /\ here' = here /\ there' = there /\ way' = way /\ p \in here /\ way[p] = NULL
          /\ outpipes' = outpipes \cup {p} /\ p \notin outpipes
      BY <1>4 DEF Out, DistOut
    <3>2. aborted' = (p \in outpipes)
      BY <1>4 DEF Out, DistOutFails
    <3>3. (p \in outpipes) = FALSE
      BY <3>1
    <3>4. QED
      BY <3>1, <3>2, <3>3, Zenon
  <2>2. SubTypeOK'
    BY <1>2, <2>1 DEF SubInv, SubTypeOK
  <2>3. QED
    BY <1>1, <1>2, <2>1, <2>2 DEF SubInv
<1>5. CASE RmHere(p)
  <2>1. /\ here' = here \ {p} /\ there' = there /\ way' = way
        /\ outpipes' = outpipes \ {p} /\ aborted' = aborted
    BY <1>5 DEF RmHere, DistRm
  <2>2. SubTypeOK'
    BY <1>2, <2>1 DEF SubInv, SubTypeOK
  <2>3. QED
    BY <1>1, <1>2, <2>1, <2>2 DEF SubInv
<1>6. CASE RmThere(p)
  <2>1. /\ here' = here /\ there' = there \ {p} /\ way' = [way EXCEPT ![p] = NULL]
        /\ outpipes' = outpipes /\ aborted' = aborted
    BY <1>6 DEF RmThere
  <2>2. /\ way' \in [Pipe -> Message \cup {NULL}] /\ \A q \in outpipes' : way'[q] = NULL
    <3>1. outpipes \subseteq Pipe
      BY DEF SubInv, SubTypeOK
    <3>2. QED
      BY <1>1, <2>1, <3>1
  <2>3. SubTypeOK'
    BY <1>2, <2>1, <2>2 DEF SubInv, SubTypeOK
  <2>4. QED
    BY <1>1, <1>2, <2>1, <2>2, <2>3 DEF SubInv
<1>7. QED
  BY <1>3, <1>4, <1>5, <1>6

\* It is inductive.
LEMMA SubInvNext ==
  SubInv /\ [SubNext]_vars => SubInv'
<1> SUFFICES ASSUME SubInv, [SubNext]_vars PROVE SubInv'
  OBVIOUS
<1>1. CASE SubNext
  <2>1. odd = {}
    BY <1>1 DEF SubNext
  <2>2. ASSUME NEW t \in Topic, Subscribe(t) PROVE SubInv'
    BY <2>1, <2>2, SubInvSubscribe
  <2>3. ASSUME NEW t \in Topic, Unsubscribe(t) PROVE SubInv'
    BY <2>1, <2>3, SubInvUnsubscribe
  <2>4. ASSUME SubRecv PROVE SubInv'
    BY <2>1, <2>4, SubInvRecv
  <2>5. ASSUME NEW k \in Message, Publish(k) PROVE SubInv'
    BY <2>5, SubInvPublish
  <2>6. ASSUME NEW p \in Pipe, Connect(p) \/ Out(p) \/ RmHere(p) \/ RmThere(p) PROVE SubInv'
    BY <2>6, SubInvPipes
  <2>7. QED
    BY <1>1, <2>2, <2>3, <2>4, <2>5, <2>6 DEF SubNext
<1>2. CASE UNCHANGED vars
  <2>1. /\ trie' = trie /\ outpipes' = outpipes /\ way' = way /\ here' = here
        /\ there' = there /\ subs' = subs /\ odd' = odd /\ wrong' = wrong /\ aborted' = aborted
    BY <1>2 DEF vars, pipes
  <2>2. SubTypeOK'
    BY <2>1 DEF SubInv, SubTypeOK
  <2>3. QED
    BY <2>1, <2>2 DEF SubInv
<1>3. QED
  BY <1>1, <1>2

\* The trie holds just what the user is subscribed to, in nodes its functions can
\* walk, whatever was subscribed and unsubscribed, up to the first topic that is
\* known to be forgotten (trie.c).
THEOREM TrieSoundAlways ==
  SubSpec => []TrieSound
<1>1. SubInv => TrieSound
  <2> SUFFICES ASSUME SubInv PROVE TrieSound
    OBVIOUS
  <2>1. \A t \in Topic : t \in Str
    BY PubSubAssumption DEF Str
  <2>2. ASSUME odd = {}
        PROVE  /\ HoldsAll /\ Proper(trie)
               /\ \A a \in DOMAIN trie \ Subscriptions(subs) : trie[a].refcount = 0
    <3>1. Good(trie) /\ Holds(trie, subs) /\ subs \in [Topic -> Nat]
      BY <2>2 DEF SubInv, SubTypeOK
    <3>2. ASSUME NEW t \in Topic PROVE Held(trie, t) = subs[t]
      <4>1. Held(trie, t) = Ref(trie, t)
        BY <2>1, <3>1, HeldIsRef DEF Good
      <4>2. Ref(trie, t) = subs[t]
        BY <2>1, <3>1 DEF Holds
      <4>3. QED
        BY <4>1, <4>2
    <3>3. Proper(trie)
      BY <3>1, GoodProper
    <3>4. ASSUME NEW a \in DOMAIN trie, a \notin Subscriptions(subs)
          PROVE  trie[a].refcount = 0
      <4>1. a \in Str /\ Ref(trie, a) = trie[a].refcount
        BY <3>1, TreeProps DEF Good, Ref
      <4>2. Ref(trie, a) = IF a \in Topic THEN subs[a] ELSE 0
        BY <3>1, <4>1 DEF Holds
      <4>3. a \in Topic => subs[a] = 0
        BY <3>1, <3>4 DEF Subscriptions
      <4>4. QED
        BY <4>1, <4>2, <4>3
    <3>5. QED
      BY <3>2, <3>3, <3>4 DEF HoldsAll
  <2>3. QED
    BY <2>2 DEF TrieSound, SubInv
<1>2. QED
  BY <1>1, SubInvInit, SubInvNext, PTL DEF SubSpec

\* No message is dropped that one of its prefixes is subscribed to, and none is
\* delivered that no subscription begins or goes on from (nn_xsub_recv).
THEOREM FilteredAlways ==
  SubSpec => []Filtered
<1>1. SubInv => Filtered
  BY DEF SubInv, Filtered
<1>2. QED
  BY <1>1, SubInvInit, SubInvNext, PTL DEF SubSpec
=============================================================================
