------------------------- MODULE FairQueue_proofs -------------------------
(* The prioritised list, for any pipes and any number of priority levels:   *)
(* its pointers are sound, and it implements PrioSet.  First the helpers,   *)
(* then the invariant action by action, then the refinement.  After that    *)
(* the receiving side, for any pipes, priorities and queue sizes: it uses   *)
(* the list as PrioList says, so that the theorems hold of the list here,   *)
(* no message is ever stranded, and the pipes take turns.                   *)
EXTENDS FairQueue, TLAPS, WellFoundedInduction

\* A non-empty set of numbers has a smallest member.
LEMMA SmallestOf ==
    ASSUME NEW S, S \subseteq Nat, S # {}
    PROVE  \E m \in S : \A n \in S : m <= n
<1>1. \E m \in S : \A n \in S : ~(<<n, m>> \in OpToRel(<, Nat))
  BY NatLessThanWellFounded, WFMin
<1>2. PICK m \in S : \A n \in S : ~(<<n, m>> \in OpToRel(<, Nat))
  BY <1>1
<1>3. \A n \in S : <<n, m>> \in Nat \X Nat
  OBVIOUS
<1>4. \A n \in S : ~(n < m)
  BY <1>2, <1>3 DEF OpToRel
<1> QED
  BY <1>4

\* nn_list_erase takes exactly the one item out: what is before it stays in
\* place, what is after it moves up.
LEMMA EraseProps ==
    ASSUME NEW list \in Seq(Pipe), NEW p \in Pipe, Contains(list, p)
    PROVE  /\ Position(list, p) \in 1..Len(list)
           /\ list[Position(list, p)] = p
           /\ Erase(list, p) \in Seq(Pipe)
           /\ Len(Erase(list, p)) = Len(list) - 1
           /\ \A i \in 1..(Len(list) - 1) :
                 Erase(list, p)[i] = IF i < Position(list, p) THEN list[i]
                                     ELSE list[i + 1]
<1>1. /\ Position(list, p) \in 1..Len(list)
      /\ list[Position(list, p)] = p
  BY DEF Contains, Position
<1> DEFINE k == Position(list, p)
<1>2. /\ SubSeq(list, 1, k - 1) \in Seq(Pipe)
      /\ Len(SubSeq(list, 1, k - 1)) = k - 1
      /\ \A i \in 1..(k - 1) : SubSeq(list, 1, k - 1)[i] = list[i]
  BY <1>1
<1>3. /\ SubSeq(list, k + 1, Len(list)) \in Seq(Pipe)
      /\ Len(SubSeq(list, k + 1, Len(list))) = Len(list) - k
      /\ \A i \in 1..(Len(list) - k) :
            SubSeq(list, k + 1, Len(list))[i] = list[k + i]
  BY <1>1
<1> DEFINE a == SubSeq(list, 1, k - 1)
           b == SubSeq(list, k + 1, Len(list))
<1>4. Erase(list, p) = a \o b
  BY DEF Erase, RemoveAt
<1> HIDE DEF a, b, k
<1>5. /\ a \in Seq(Pipe) /\ b \in Seq(Pipe)
      /\ Len(a) = k - 1 /\ Len(b) = Len(list) - k
      /\ k \in 1..Len(list)
  BY <1>1, <1>2, <1>3 DEF a, b, k
<1>6. \A i \in 1..(Len(list) - 1) :
         (a \o b)[i] = IF i < k THEN list[i] ELSE list[i + 1]
  <2> TAKE i \in 1..(Len(list) - 1)
  <2>1. CASE i < k
    <3>1. a[i] = list[i]
      BY <1>1, <1>2, <2>1 DEF a, k
    <3> QED
      BY <1>5, <2>1, <3>1
  <2>2. CASE ~(i < k)
    <3>1. /\ i - k + 1 \in 1..(Len(list) - k)
          /\ k + (i - k + 1) = i + 1
      BY <1>5, <2>2
    <3>2. \A j \in 1..(Len(list) - k) : b[j] = list[k + j]
      BY <1>3 DEF b, k
    <3>3. b[i - k + 1] = list[k + (i - k + 1)]
      BY <3>1, <3>2, ZenonT(20)
    <3> QED
      BY <1>5, <2>2, <3>1, <3>3
  <2> QED
    BY <2>1, <2>2
<1> QED
  BY <1>1, <1>4, <1>5, <1>6 DEF k

\* The loop over the slots ends with -1 when all are empty, and otherwise with
\* the first one that is not.
LEMMA FirstNonEmptyCases ==
    ASSUME NEW lists, NEW from \in Nat
    PROVE  LET r == FirstNonEmpty(lists, from) IN
           \/ r = -1 /\ \A j \in from..NSlots : lists[j] = <<>>
           \/ /\ r \in from..NSlots
              /\ lists[r] # <<>>
              /\ \A j \in from..(r - 1) : lists[j] = <<>>
<1>1. CASE \A j \in from..NSlots : lists[j] = <<>>
  BY <1>1 DEF FirstNonEmpty
<1>2. CASE \E j \in from..NSlots : lists[j] # <<>>
  <2> DEFINE S == {j \in from..NSlots : lists[j] # <<>>}
  <2>1. S \subseteq Nat /\ S # {}
    BY <1>2, PrioListAssumption
  <2>2. PICK m \in S : \A n \in S : m <= n
    BY <2>1, SmallestOf
  <2>3. m \in from..NSlots /\ lists[m] # <<>>
    BY <2>2
  <2>4. \A j \in from..(m - 1) : lists[j] = <<>>
    BY <2>2, <2>3, PrioListAssumption
  <2> QED
    BY <1>2, <2>3, <2>4 DEF FirstNonEmpty
<1> QED
  BY <1>1, <1>2

\* A slot that is not empty, with only empty ones before it, is what the loop
\* finds.
LEMMA FirstNonEmptyUnique ==
    ASSUME NEW lists, NEW from \in Nat, NEW k \in from..NSlots,
           lists[k] # <<>>, \A j \in from..(k - 1) : lists[j] = <<>>
    PROVE  FirstNonEmpty(lists, from) = k
<1> DEFINE r == FirstNonEmpty(lists, from)
<1>1. /\ r \in from..NSlots
      /\ lists[r] # <<>>
      /\ \A j \in from..(r - 1) : lists[j] = <<>>
  BY FirstNonEmptyCases
<1> HIDE DEF r
<1>2. ~(r < k) /\ ~(k < r)
  BY <1>1, PrioListAssumption
<1> QED
  BY <1>1, <1>2, PrioListAssumption DEF r

\* When all higher slots are empty the loop may start at a lower one.
LEMMA FirstNonEmptyFrom ==
    ASSUME NEW lists, NEW from \in Slot,
           \A j \in 1..(from - 1) : lists[j] = <<>>
    PROVE  FirstNonEmpty(lists, from) = FirstNonEmpty(lists, 1)
<1> USE PrioListAssumption DEF Slot
<1> DEFINE r == FirstNonEmpty(lists, from)
<1>1. \/ r = -1 /\ \A j \in from..NSlots : lists[j] = <<>>
      \/ /\ r \in from..NSlots
         /\ lists[r] # <<>>
         /\ \A j \in from..(r - 1) : lists[j] = <<>>
  BY FirstNonEmptyCases
<1> HIDE DEF r
<1>2. CASE r = -1 /\ \A j \in from..NSlots : lists[j] = <<>>
  <2>1. \A j \in 1..NSlots : lists[j] = <<>>
    BY <1>2
  <2> QED
    BY <1>2, <2>1 DEF FirstNonEmpty, r
<1>3. CASE /\ r \in from..NSlots
           /\ lists[r] # <<>>
           /\ \A j \in from..(r - 1) : lists[j] = <<>>
  <2>1. r \in 1..NSlots /\ \A j \in 1..(r - 1) : lists[j] = <<>>
    BY <1>3
  <2> QED
    BY <1>3, <2>1, FirstNonEmptyUnique DEF r
<1> QED
  BY <1>1, <1>2, <1>3

\* In a list without repetitions an erased pipe is gone and nothing else is.
LEMMA EraseMembers ==
    ASSUME NEW list \in Seq(Pipe), NEW p \in Pipe, Contains(list, p),
           \A i, j \in 1..Len(list) : list[i] = list[j] => i = j
    PROVE  /\ \A q : Contains(Erase(list, p), q) <=> Contains(list, q) /\ q # p
           /\ \A i, j \in 1..Len(Erase(list, p)) :
                 Erase(list, p)[i] = Erase(list, p)[j] => i = j
           /\ Erase(list, p) = <<>> <=> Len(list) = 1
<1> DEFINE k == Position(list, p)
           e == Erase(list, p)
<1>1. /\ k \in 1..Len(list)
      /\ list[k] = p
      /\ e \in Seq(Pipe)
      /\ Len(e) = Len(list) - 1
      /\ \A i \in 1..(Len(list) - 1) :
            e[i] = IF i < k THEN list[i] ELSE list[i + 1]
  BY EraseProps
<1> HIDE DEF k, e
<1>2. ASSUME NEW q, Contains(e, q) PROVE Contains(list, q) /\ q # p
  <2>1. PICK i \in 1..(Len(list) - 1) : e[i] = q
    BY <1>1, <1>2 DEF Contains
  <2>2. CASE i < k
    BY <1>1, <2>1, <2>2 DEF Contains
  <2>3. CASE ~(i < k)
    BY <1>1, <2>1, <2>3 DEF Contains
  <2> QED
    BY <2>2, <2>3
<1>3. ASSUME NEW q, Contains(list, q), q # p PROVE Contains(e, q)
  <2>1. PICK i \in 1..Len(list) : list[i] = q
    BY <1>3 DEF Contains
  <2>2. CASE i < k
    <3>1. i \in 1..(Len(list) - 1) /\ e[i] = list[i]
      BY <1>1, <2>2
    <3> QED
      BY <1>1, <2>1, <3>1 DEF Contains
  <2>3. CASE i > k
    <3>1. i - 1 \in 1..(Len(list) - 1) /\ (i - 1) + 1 = i /\ ~(i - 1 < k)
      BY <1>1, <2>3
    <3>2. e[i - 1] = list[(i - 1) + 1]
      BY <1>1, <3>1
    <3> QED
      BY <1>1, <2>1, <3>1, <3>2 DEF Contains
  <2> QED
    BY <1>1, <1>3, <2>1, <2>2, <2>3
<1>4. \A i, j \in 1..Len(e) : e[i] = e[j] => i = j
  <2> SUFFICES ASSUME NEW i \in 1..Len(e), NEW j \in 1..Len(e), e[i] = e[j]
               PROVE  i = j
    OBVIOUS
  <2> DEFINE at(x) == IF x < k THEN x ELSE x + 1
  <2>1. /\ at(i) \in 1..Len(list) /\ e[i] = list[at(i)]
        /\ at(j) \in 1..Len(list) /\ e[j] = list[at(j)]
    BY <1>1
  <2>2. at(i) = at(j)
    BY <2>1
  <2> QED
    BY <1>1, <2>2
<1>5. e = <<>> <=> Len(list) = 1
  BY <1>1
<1> QED
  BY <1>2, <1>3, <1>4, <1>5 DEF e

\* The item after p is one of the list that is left, and NULL only when none is.
LEMMA NextItemProps ==
    ASSUME NEW list \in Seq(Pipe), NEW p \in Pipe, Contains(list, p),
           \A i, j \in 1..Len(list) : list[i] = list[j] => i = j
    PROVE  /\ NextItem(list, p, list) \in Pipe
           /\ Contains(list, NextItem(list, p, list))
           /\ LET rest == Erase(list, p)
                  n    == NextItem(list, p, rest)
              IN  IF rest = <<>> THEN n = NULL
                  ELSE n \in Pipe /\ Contains(rest, n)
<1> DEFINE k == Position(list, p)
           e == Erase(list, p)
<1>1. /\ k \in 1..Len(list)
      /\ list[k] = p
      /\ e \in Seq(Pipe)
      /\ Len(e) = Len(list) - 1
      /\ \A i \in 1..(Len(list) - 1) :
            e[i] = IF i < k THEN list[i] ELSE list[i + 1]
  BY EraseProps
<1>2. \A q : Contains(e, q) <=> Contains(list, q) /\ q # p
  BY EraseMembers
<1> HIDE DEF e
<1>3. CASE k < Len(list)
  <2>1. k + 1 \in 1..Len(list) /\ list[k + 1] # p
    BY <1>1, <1>3
  <2>2. Contains(list, list[k + 1]) /\ list[k + 1] \in Pipe /\ e # <<>>
    BY <1>1, <1>3, <2>1 DEF Contains
  <2> QED
    BY <1>2, <1>3, <2>1, <2>2 DEF NextItem, e
<1>4. CASE ~(k < Len(list))
  <2>1. /\ NextItem(list, p, list) = list[1]
        /\ NextItem(list, p, e) = IF e = <<>> THEN NULL ELSE e[1]
    BY <1>1, <1>4 DEF NextItem
  <2>2. Contains(list, list[1]) /\ list[1] \in Pipe
    BY <1>1 DEF Contains
  <2>3. e # <<>> => Contains(e, e[1]) /\ e[1] \in Pipe
    BY <1>1 DEF Contains
  <2> QED
    BY <2>1, <2>2, <2>3 DEF e
<1> QED
  BY <1>3, <1>4

-----------------------------------------------------------------------------
\* Inductive as it stands.
IInv == TypeOK /\ PrioListSound

\* The slots are numbers from 1, so the slot -1 of an empty list is none of them.
LEMMA SlotFacts ==
    /\ 1 \in Nat
    /\ \A k \in Slot : k \in Nat /\ k # 0 /\ k # -1 /\ k \in 1..NSlots
BY PrioListAssumption DEF Slot

\* The empty list satisfies the invariant.
LEMMA InitInv == Init => IInv
<1> SUFFICES ASSUME Init PROVE IInv
  OBVIOUS
<1>1. TypeOK
  BY PrioListAssumption DEF Init, TypeOK, Slot
<1>2. ListsSound /\ SlotCurrentSound
  BY DEF Init, ListsSound, SlotCurrentSound
<1>3. CurrentIsHighest
  BY DEF Init, CurrentIsHighest, FirstNonEmpty, Slot
<1> QED
  BY <1>1, <1>2, <1>3 DEF IInv, PrioListSound

\* nn_priolist_add preserves the invariant.
LEMMA AddInv ==
    ASSUME IInv, NEW p \in Pipe, Add(p)
    PROVE  IInv'
<1> USE DEF IInv, PrioListSound
<1>1. \A k \in Slot : \A i \in 1..Len(pipes[k]) :
         pipes[k][i] \in Pipe /\ priority[pipes[k][i]] # 0
  BY SlotFacts DEF TypeOK, ListsSound
<1>2. PICK k \in Slot : priority' = [priority EXCEPT ![p] = k]
  BY DEF Add
<1>3. TypeOK'
  BY <1>2, PrioListAssumption DEF TypeOK, Add, Slot
<1>4. ListsSound'
  BY <1>1, <1>2 DEF TypeOK, Add, ListsSound
<1>5. SlotCurrentSound' /\ CurrentIsHighest'
  BY DEF Add, SlotCurrentSound, CurrentIsHighest, FirstNonEmpty
<1> QED
  BY <1>3, <1>4, <1>5

\* nn_priolist_rm of a pipe that is not active preserves the invariant.
LEMMA RmInactiveInv ==
    ASSUME IInv, NEW p \in Pipe, RmInactive(p)
    PROVE  IInv'
<1> USE DEF IInv, PrioListSound
<1>1. \A k \in Slot : \A i \in 1..Len(pipes[k]) :
         pipes[k][i] \in Pipe /\ pipes[k][i] # p
  BY DEF TypeOK, RmInactive, Listed, Contains
<1>2. TypeOK'
  BY PrioListAssumption DEF TypeOK, RmInactive
<1>3. ListsSound'
  BY <1>1 DEF TypeOK, RmInactive, ListsSound
<1>4. SlotCurrentSound' /\ CurrentIsHighest'
  BY DEF RmInactive, SlotCurrentSound, CurrentIsHighest, FirstNonEmpty
<1> QED
  BY <1>2, <1>3, <1>4

\* nn_priolist_activate preserves the invariant.
LEMMA ActivateInv ==
    ASSUME IInv, NEW p \in Pipe, Activate(p)
    PROVE  IInv'
<1> USE DEF IInv, PrioListSound
<1> DEFINE k == priority[p]
           new == Append(pipes[k], p)
<1>1. /\ k \in Slot
      /\ pipes' = [pipes EXCEPT ![k] = new]
      /\ priority' = priority /\ picked' = NULL
      /\ pipes[k] \in Seq(Pipe)
      /\ \A i \in 1..Len(pipes[k]) : pipes[k][i] # p
  BY DEF TypeOK, Activate, Slot, Listed, Contains
<1>2. /\ new \in Seq(Pipe) /\ Len(new) = Len(pipes[k]) + 1
      /\ \A i \in 1..Len(pipes[k]) : new[i] = pipes[k][i]
      /\ new[Len(pipes[k]) + 1] = p
      /\ new # <<>>
  BY <1>1
<1> HIDE DEF new, k
<1>3. TypeOK'
  <2>1. CASE pipes[k] # <<>>
    BY <1>1, <1>2, <2>1 DEF TypeOK, Activate, k
  <2>2. CASE pipes[k] = <<>>
    BY <1>1, <1>2, <2>2 DEF TypeOK, Activate, k
  <2> QED
    BY <2>1, <2>2
<1>4. ListsSound'
  <2>1. \A i \in 1..Len(new) : priority[new[i]] = k
    BY <1>1, <1>2 DEF ListsSound, k
  <2>2. \A i, j \in 1..Len(new) : new[i] = new[j] => i = j
    BY <1>1, <1>2 DEF ListsSound
  <2> QED
    BY <1>1, <2>1, <2>2 DEF ListsSound, TypeOK
<1>5. \A j \in Slot : j # k => pipes'[j] = pipes[j]
  BY <1>1 DEF TypeOK
<1>6. pipes'[k] = new
  BY <1>1 DEF TypeOK
<1>7. SlotCurrentSound'
  <2>1. ASSUME NEW j \in Slot, j # k
        PROVE  pipes'[j] = pipes[j] /\ slotcurrent'[j] = slotcurrent[j]
    BY <1>5, <2>1 DEF Activate, TypeOK, k
  <2>2. Contains(new, slotcurrent'[k])
    <3>1. CASE pipes[k] # <<>>
      <4>1. slotcurrent' = slotcurrent
        BY <3>1 DEF Activate, k
      <4>2. PICK i \in 1..Len(pipes[k]) : pipes[k][i] = slotcurrent[k]
        BY <1>1, <3>1 DEF SlotCurrentSound, Contains
      <4>3. i \in 1..Len(new) /\ new[i] = slotcurrent[k]
        BY <1>1, <1>2, <4>2
      <4> QED
        BY <4>1, <4>3 DEF Contains
    <3>2. CASE pipes[k] = <<>>
      <4>1. slotcurrent'[k] = p
        BY <1>1, <3>2 DEF Activate, k, TypeOK
      <4> QED
        BY <1>1, <1>2, <4>1 DEF Contains
    <3> QED
      BY <3>1, <3>2
  <2> QED
    BY <1>2, <1>6, <2>1, <2>2 DEF SlotCurrentSound
<1>8. CurrentIsHighest'
  <2> DEFINE r == FirstNonEmpty(pipes, 1)
  <2>0. current = r
    BY DEF CurrentIsHighest
  <2>1. \/ r = -1 /\ \A j \in 1..NSlots : pipes[j] = <<>>
        \/ /\ r \in 1..NSlots
           /\ pipes[r] # <<>>
           /\ \A j \in 1..(r - 1) : pipes[j] = <<>>
    BY FirstNonEmptyCases
  <2> HIDE DEF r
  <2>2. CASE pipes[k] # <<>>
    <3>1. current' = current /\ r # -1
      BY <1>1, <2>1, <2>2 DEF Activate, k, Slot
    <3>2. r \in 1..NSlots /\ pipes'[r] # <<>>
      BY <1>2, <1>5, <1>6, <2>1, <3>1 DEF Slot
    <3>3. \A j \in 1..(r - 1) : pipes'[j] = <<>>
      <4> TAKE j \in 1..(r - 1)
      <4>1. j \in Slot /\ j # k
        BY <2>1, <2>2, <3>2, PrioListAssumption DEF Slot
      <4> QED
        BY <1>5, <2>1, <3>2, <4>1
    <3> QED
      BY <2>0, <3>1, <3>2, <3>3, FirstNonEmptyUnique DEF CurrentIsHighest
  <2>3. CASE pipes[k] = <<>> /\ (r = -1 \/ r > k)
    <3>1. current' = k
      BY <2>0, <2>3 DEF Activate, k
    <3>2. \A j \in 1..(k - 1) : pipes'[j] = <<>>
      <4> TAKE j \in 1..(k - 1)
      <4>1. j \in Slot /\ j # k
        BY <1>1, PrioListAssumption DEF Slot
      <4>2. pipes[j] = <<>>
        BY <1>1, <2>1, <2>3, <4>1 DEF Slot
      <4> QED
        BY <1>5, <4>1, <4>2
    <3>3. k \in 1..NSlots /\ pipes'[k] # <<>>
      BY <1>1, <1>2, <1>6 DEF Slot
    <3>4. FirstNonEmpty(pipes', 1) = k
      BY <3>2, <3>3, FirstNonEmptyUnique
    <3> QED
      BY <3>1, <3>4 DEF CurrentIsHighest, FirstNonEmpty
  <2>4. CASE pipes[k] = <<>> /\ ~(r = -1 \/ r > k)
    <3>1. current' = r /\ r \in 1..NSlots /\ r < k
      BY <1>1, <2>0, <2>1, <2>4 DEF Activate, k, Slot
    <3>2. pipes'[r] # <<>>
      BY <1>5, <2>1, <3>1 DEF Slot
    <3>3. \A j \in 1..(r - 1) : pipes'[j] = <<>>
      <4> TAKE j \in 1..(r - 1)
      <4>1. j \in Slot /\ j # k
        BY <1>1, <3>1, PrioListAssumption DEF Slot
      <4> QED
        BY <1>5, <2>1, <3>1, <4>1
    <3> QED
      BY <3>1, <3>2, <3>3, FirstNonEmptyUnique DEF CurrentIsHighest
  <2> QED
    BY <2>2, <2>3, <2>4
<1> QED
  BY <1>3, <1>4, <1>7, <1>8

\* What erasing p from its slot, or leaving it there, does to the lists: the
\* common part of a removal and of advance.
LEMMA MoveOnInv ==
    ASSUME IInv, NEW p \in Pipe, NEW k \in Slot, p = slotcurrent[k],
           pipes[k] # <<>>,
           NEW rest, rest = Erase(pipes[k], p) \/ rest = pipes[k]
    PROVE  LET left == [pipes EXCEPT ![k] = rest]
               n    == NextItem(pipes[k], p, rest)
           IN  /\ Contains(pipes[k], p)
               /\ left \in [Slot -> Seq(Pipe)]
               /\ left[k] = rest
               /\ \A j \in Slot : j # k => left[j] = pipes[j]
               /\ rest \in Seq(Pipe)
               /\ IF rest = <<>> THEN n = NULL
                  ELSE n \in Pipe /\ Contains(rest, n)
               /\ \A i, j \in 1..Len(rest) : rest[i] = rest[j] => i = j
               /\ \A i \in 1..Len(rest) : priority[rest[i]] = k
               /\ \A q : Contains(rest, q) => Contains(pipes[k], q)
               /\ rest = Erase(pipes[k], p) => ~Contains(rest, p)
<1> USE DEF IInv, PrioListSound
<1>1. /\ pipes[k] \in Seq(Pipe)
      /\ Contains(pipes[k], p)
      /\ \A i, j \in 1..Len(pipes[k]) : pipes[k][i] = pipes[k][j] => i = j
      /\ \A i \in 1..Len(pipes[k]) : priority[pipes[k][i]] = k
  BY DEF TypeOK, SlotCurrentSound, ListsSound
<1>2. CASE rest = Erase(pipes[k], p)
  <2>1. rest \in Seq(Pipe)
    BY <1>1, <1>2, EraseProps
  <2>2. /\ \A q : Contains(rest, q) <=> Contains(pipes[k], q) /\ q # p
        /\ \A i, j \in 1..Len(rest) : rest[i] = rest[j] => i = j
    BY <1>1, <1>2, EraseMembers
  <2>3. \A i \in 1..Len(rest) : priority[rest[i]] = k
    <3> TAKE i \in 1..Len(rest)
    <3>1. Contains(rest, rest[i])
      BY DEF Contains
    <3>2. Contains(pipes[k], rest[i])
      BY <2>2, <3>1
    <3> QED
      BY <1>1, <3>2 DEF Contains
  <2>4. LET n == NextItem(pipes[k], p, rest)
        IN  IF rest = <<>> THEN n = NULL ELSE n \in Pipe /\ Contains(rest, n)
    BY <1>1, <1>2, NextItemProps
  <2> QED
    BY <1>1, <2>1, <2>2, <2>3, <2>4 DEF TypeOK
<1>3. CASE rest = pipes[k] /\ rest # Erase(pipes[k], p)
  <2>1. LET n == NextItem(pipes[k], p, rest)
        IN  n \in Pipe /\ Contains(rest, n)
    BY <1>1, <1>3, NextItemProps
  <2> QED
    BY <1>1, <1>3, <2>1 DEF TypeOK
<1> QED
  BY <1>2, <1>3

\* The current slot stays the highest one when the loop is run again from the
\* slot that changed, because nothing above it did.
LEMMA HighestAfterChange ==
    ASSUME IInv, NEW k \in Slot, NEW left \in [Slot -> Seq(Pipe)],
           \A j \in Slot : j # k => left[j] = pipes[j],
           pipes[k] # <<>>
    PROVE  /\ current = k => FirstNonEmpty(left, k) = FirstNonEmpty(left, 1)
           /\ current # k => current = FirstNonEmpty(left, 1)
           /\ left[k] # <<>> => current = FirstNonEmpty(left, 1)
<1> USE PrioListAssumption DEF Slot
<1>1. /\ current = FirstNonEmpty(pipes, 1)
      /\ \/ current = -1 /\ \A j \in 1..NSlots : pipes[j] = <<>>
         \/ /\ current \in 1..NSlots
            /\ pipes[current] # <<>>
            /\ \A j \in 1..(current - 1) : pipes[j] = <<>>
  BY FirstNonEmptyCases DEF IInv, PrioListSound, CurrentIsHighest
<1>2. /\ current \in 1..NSlots
      /\ pipes[current] # <<>>
      /\ \A j \in 1..(current - 1) : pipes[j] = <<>>
      /\ current <= k
  BY <1>1
<1>3. \A j \in 1..(current - 1) : left[j] = <<>>
  <2> TAKE j \in 1..(current - 1)
  <2>1. j \in Slot /\ j # k /\ pipes[j] = <<>>
    BY <1>2
  <2> QED
    BY <2>1
<1>4. current = k => FirstNonEmpty(left, k) = FirstNonEmpty(left, 1)
  BY <1>3, FirstNonEmptyFrom
<1>5. ASSUME left[current] # <<>> PROVE current = FirstNonEmpty(left, 1)
  BY <1>2, <1>3, <1>5, FirstNonEmptyUnique
<1> QED
  BY <1>2, <1>4, <1>5

\* nn_priolist_rm of an active pipe preserves the invariant.
LEMMA RmActiveInv ==
    ASSUME IInv, NEW p \in Pipe, RmActive(p)
    PROVE  IInv'
<1> USE DEF IInv, PrioListSound
<1> DEFINE k    == priority[p]
           rest == Erase(pipes[k], p)
           left == [pipes EXCEPT ![k] = rest]
<1>1. /\ k \in Slot
      /\ pipes' = left
      /\ priority' = [priority EXCEPT ![p] = 0]
      /\ picked' = NULL
      /\ pipes[k] \in Seq(Pipe)
  BY DEF TypeOK, RmActive, Slot
<1>2. Contains(pipes[k], p)
  <2>1. PICK j \in Slot : Contains(pipes[j], p)
    BY DEF RmActive, Listed
  <2>2. priority[p] = j
    BY <2>1 DEF ListsSound, Contains
  <2> QED
    BY <2>1, <2>2
<1> HIDE DEF k
<1>3. /\ \A i, j \in 1..Len(pipes[k]) : pipes[k][i] = pipes[k][j] => i = j
      /\ \A i \in 1..Len(pipes[k]) : priority[pipes[k][i]] = k
  BY <1>1 DEF ListsSound
<1>4. rest \in Seq(Pipe)
  BY <1>1, <1>2, EraseProps
<1>5. /\ \A q : Contains(rest, q) <=> Contains(pipes[k], q) /\ q # p
      /\ \A i, j \in 1..Len(rest) : rest[i] = rest[j] => i = j
  BY <1>1, <1>2, <1>3, EraseMembers
<1> HIDE DEF rest
<1>6. /\ left \in [Slot -> Seq(Pipe)]
      /\ left[k] = rest
      /\ \A j \in Slot : j # k => left[j] = pipes[j]
      /\ pipes[k] # <<>>
  BY <1>1, <1>2, <1>4 DEF TypeOK, Contains
<1>7. LET n == NextItem(pipes[k], p, rest)
      IN  IF rest = <<>> THEN n = NULL ELSE n \in Pipe /\ Contains(rest, n)
  BY <1>1, <1>2, <1>3, NextItemProps DEF rest
<1> HIDE DEF left
<1>8. /\ current = k => FirstNonEmpty(left, k) = FirstNonEmpty(left, 1)
      /\ current # k => current = FirstNonEmpty(left, 1)
      /\ left[k] # <<>> => current = FirstNonEmpty(left, 1)
  BY <1>1, <1>6, HighestAfterChange
<1>9. CurrentIsHighest'
  <2>1. CASE slotcurrent[k] # p
    <3>1. current' = current
      BY <2>1 DEF RmActive, k
    <3>2. rest # <<>>
      <4>1. Contains(pipes[k], slotcurrent[k])
        BY <1>1, <1>6 DEF SlotCurrentSound
      <4>2. Contains(rest, slotcurrent[k])
        BY <1>5, <2>1, <4>1
      <4> QED
        BY <4>2 DEF Contains
    <3> QED
      BY <1>1, <1>6, <1>8, <3>1, <3>2 DEF CurrentIsHighest
  <2>2. CASE slotcurrent[k] = p
    <3>1. current' = IF current = k THEN FirstNonEmpty(left, k) ELSE current
      BY <2>2 DEF RmActive, k, left, rest
    <3> QED
      BY <1>1, <1>8, <3>1 DEF CurrentIsHighest
  <2> QED
    BY <2>1, <2>2
<1>10. SlotCurrentSound' /\ slotcurrent' \in [Slot -> Pipe \cup {NULL}]
  <2>1. CASE slotcurrent[k] # p
    <3>1. slotcurrent' = slotcurrent
      BY <2>1 DEF RmActive, k
    <3>2. Contains(rest, slotcurrent[k])
      BY <1>1, <1>5, <1>6, <2>1 DEF SlotCurrentSound
    <3>3. rest # <<>>
      BY <3>2 DEF Contains
    <3> QED
      BY <1>1, <1>6, <3>1, <3>2, <3>3 DEF SlotCurrentSound, TypeOK
  <2>2. CASE slotcurrent[k] = p
    <3>1. slotcurrent' = [slotcurrent EXCEPT ![k] = NextItem(pipes[k], p, rest)]
      BY <2>2 DEF RmActive, k, rest
    <3> QED
      BY <1>1, <1>6, <1>7, <3>1 DEF SlotCurrentSound, TypeOK
  <2> QED
    BY <2>1, <2>2
<1>11. ListsSound'
  <2>1. ASSUME NEW j \in Slot, j # k
        PROVE  \A i \in 1..Len(pipes[j]) :
                  pipes[j][i] \in Pipe /\ pipes[j][i] # p
    BY <2>1 DEF ListsSound, k, TypeOK
  <2>2. \A i \in 1..Len(rest) : rest[i] \in Pipe /\ rest[i] # p
                                /\ priority[rest[i]] = k
    <3> TAKE i \in 1..Len(rest)
    <3>1. Contains(rest, rest[i]) /\ rest[i] \in Pipe
      BY <1>4 DEF Contains
    <3>2. Contains(pipes[k], rest[i]) /\ rest[i] # p
      BY <1>5, <3>1
    <3> QED
      BY <1>3, <3>1, <3>2 DEF Contains
  <2>3. ASSUME NEW q \in Pipe, q # p PROVE priority'[q] = priority[q]
    BY <1>1, <2>3 DEF TypeOK
  <2>4. ASSUME NEW j \in Slot
        PROVE  /\ \A i \in 1..Len(pipes'[j]) : priority'[pipes'[j][i]] = j
               /\ \A i, m \in 1..Len(pipes'[j]) :
                     pipes'[j][i] = pipes'[j][m] => i = m
    <3>1. CASE j = k
      BY <1>1, <1>5, <1>6, <2>2, <2>3, <3>1
    <3>2. CASE j # k
      BY <1>1, <1>6, <2>1, <2>3, <3>2 DEF ListsSound
    <3> QED
      BY <3>1, <3>2
  <2> QED
    BY <2>4 DEF ListsSound
<1>12. TypeOK'
  <2>1. current' \in Slot \cup {-1}
    <3>1. current' = FirstNonEmpty(left, 1)
      BY <1>1, <1>9 DEF CurrentIsHighest
    <3> QED
      BY <3>1, FirstNonEmptyCases DEF Slot
  <2> QED
    BY <1>1, <1>6, <1>10, <2>1, PrioListAssumption DEF TypeOK
<1> QED
  BY <1>9, <1>10, <1>11, <1>12

\* A send or receive through the current pipe preserves the invariant.
LEMMA ServeInv ==
    ASSUME IInv, NEW release \in BOOLEAN, Serve(release)
    PROVE  IInv'
<1> USE DEF IInv, PrioListSound
<1> DEFINE k    == current
           p    == slotcurrent[k]
           rest == IF release THEN Erase(pipes[k], p) ELSE pipes[k]
           left == [pipes EXCEPT ![k] = rest]
           n    == NextItem(pipes[k], p, rest)
<1>1. /\ k \in Slot
      /\ pipes' = left
      /\ slotcurrent' = [slotcurrent EXCEPT ![k] = n]
      /\ current' = FirstNonEmpty(left, k)
      /\ priority' = priority
      /\ picked' = p
  BY DEF TypeOK, Serve, Advance
<1>2. pipes[k] # <<>>
  <2> DEFINE r == FirstNonEmpty(pipes, 1)
  <2>1. \/ r = -1
        \/ r \in 1..NSlots /\ pipes[r] # <<>>
    BY FirstNonEmptyCases
  <2> HIDE DEF r
  <2>2. r = current
    BY DEF CurrentIsHighest, r
  <2> QED
    BY <1>1, <2>1, <2>2, SlotFacts
<1>3. p \in Pipe
  BY <1>1, <1>2 DEF SlotCurrentSound, TypeOK, Contains
<1>4. rest = Erase(pipes[k], p) \/ rest = pipes[k]
  OBVIOUS
<1> HIDE DEF k, p, rest
<1>5. /\ left \in [Slot -> Seq(Pipe)]
      /\ left[k] = rest
      /\ \A j \in Slot : j # k => left[j] = pipes[j]
      /\ IF rest = <<>> THEN n = NULL ELSE n \in Pipe /\ Contains(rest, n)
      /\ \A i, j \in 1..Len(rest) : rest[i] = rest[j] => i = j
      /\ \A i \in 1..Len(rest) : priority[rest[i]] = k
  BY <1>1, <1>2, <1>3, <1>4, MoveOnInv DEF p
<1> HIDE DEF left, n
<1>6. FirstNonEmpty(left, k) = FirstNonEmpty(left, 1)
  BY <1>1, <1>2, <1>5, HighestAfterChange DEF k
<1>7. CurrentIsHighest'
  BY <1>1, <1>6 DEF CurrentIsHighest
<1>8. SlotCurrentSound' /\ slotcurrent' \in [Slot -> Pipe \cup {NULL}]
  BY <1>1, <1>5 DEF SlotCurrentSound, TypeOK
<1>9. ListsSound'
  <2>1. ASSUME NEW j \in Slot
        PROVE  /\ \A i \in 1..Len(left[j]) : priority[left[j][i]] = j
               /\ \A i, m \in 1..Len(left[j]) : left[j][i] = left[j][m] => i = m
    <3>1. CASE j = k
      BY <1>5, <3>1
    <3>2. CASE j # k
      BY <1>5, <3>2 DEF ListsSound
    <3> QED
      BY <3>1, <3>2
  <2> QED
    BY <1>1, <2>1 DEF ListsSound
<1>10. TypeOK'
  <2>1. current' \in Slot \cup {-1}
    BY <1>1, <1>6, FirstNonEmptyCases DEF Slot
  <2> QED
    BY <1>1, <1>3, <1>5, <1>8, <2>1 DEF TypeOK
<1> QED
  BY <1>7, <1>8, <1>9, <1>10

\* The invariant is inductive.
LEMMA NextInv == IInv /\ [Next]_vars => IInv'
<1> SUFFICES ASSUME IInv, [Next]_vars PROVE IInv'
  OBVIOUS
<1>1. ASSUME NEW p \in Pipe, Add(p) PROVE IInv'
  BY <1>1, AddInv
<1>2. ASSUME NEW p \in Pipe, Activate(p) PROVE IInv'
  BY <1>2, ActivateInv
<1>3. ASSUME NEW p \in Pipe, RmInactive(p) PROVE IInv'
  BY <1>3, RmInactiveInv
<1>4. ASSUME NEW p \in Pipe, RmActive(p) PROVE IInv'
  BY <1>4, RmActiveInv
<1>5. ASSUME NEW release \in BOOLEAN, Serve(release) PROVE IInv'
  BY <1>5, ServeInv
<1>6. CASE ServeNone
  BY <1>6 DEF IInv, PrioListSound, TypeOK, ListsSound, SlotCurrentSound,
              CurrentIsHighest, FirstNonEmpty, ServeNone
<1>7. CASE UNCHANGED vars
  BY <1>7 DEF IInv, PrioListSound, TypeOK, ListsSound, SlotCurrentSound,
              CurrentIsHighest, FirstNonEmpty, vars
<1> QED
  BY <1>1, <1>2, <1>3, <1>4, <1>5, <1>6, <1>7 DEF Next

\* Every variable keeps its type, for any set of pipes and any number of
\* priority levels.
THEOREM TypeCorrect == Spec => []TypeOK
<1>1. IInv => TypeOK
  BY DEF IInv
<1> QED
  BY InitInv, NextInv, <1>1, PTL DEF Spec

\* After any sequence of additions, activations, uses and removals the current
\* slot is the highest-priority non-empty one and every slot's current pointer
\* points into the slot's own list (priolist.c).
THEOREM Soundness == Spec => []PrioListSound
<1>1. IInv => PrioListSound
  BY DEF IInv
<1> QED
  BY InitInv, NextInv, <1>1, PTL DEF Spec

-----------------------------------------------------------------------------
(* Refinement of PrioSet.                                                  *)

readySet == {p \in Pipe : Listed(p)}

\* A listed pipe is attached, and it is listed in the slot of its priority.
LEMMA ListedFacts ==
    ASSUME IInv, NEW p \in Pipe
    PROVE  /\ Listed(p) <=> priority[p] # 0 /\ Contains(pipes[priority[p]], p)
           /\ \A k \in Slot : Contains(pipes[k], p) => priority[p] = k
<1>1. \A k \in Slot : Contains(pipes[k], p) => priority[p] = k
  BY DEF IInv, PrioListSound, ListsSound, Contains
<1>2. priority[p] # 0 => priority[p] \in Slot
  BY DEF IInv, TypeOK, Slot
<1> QED
  BY <1>1, <1>2, SlotFacts DEF Listed

\* The empty list is the empty prioritised set.
LEMMA InitRefines == Init => Abs!AbsInit
BY PrioListAssumption DEF Init, Abs!AbsInit, Listed, Contains

\* nn_priolist_add attaches a pipe that is not ready.
LEMMA AddRefines ==
    ASSUME IInv, NEW p \in Pipe, Add(p)
    PROVE  Abs!Attach(p)
<1>1. \A q : Listed(q)' <=> Listed(q)
  BY DEF Add, Listed
<1> QED
  BY <1>1 DEF Add, Abs!Attach, Slot

\* nn_priolist_rm of a pipe that is not active detaches it.
LEMMA RmInactiveRefines ==
    ASSUME IInv, NEW p \in Pipe, RmInactive(p)
    PROVE  Abs!Detach(p)
<1>1. \A q : Listed(q)' <=> Listed(q)
  BY DEF RmInactive, Listed
<1> QED
  BY <1>1 DEF RmInactive, Abs!Detach

\* nn_priolist_activate makes a pipe ready.
LEMMA ActivateRefines ==
    ASSUME IInv, NEW p \in Pipe, Activate(p)
    PROVE  Abs!Ready(p)
<1> DEFINE k   == priority[p]
           new == Append(pipes[k], p)
<1>1. /\ k \in Slot /\ k # 0
      /\ pipes' = [pipes EXCEPT ![k] = new]
      /\ pipes[k] \in Seq(Pipe)
      /\ pipes \in [Slot -> Seq(Pipe)]
  BY DEF IInv, TypeOK, Activate, Slot
<1>2. \A q : Contains(new, q) <=> Contains(pipes[k], q) \/ q = p
  BY <1>1 DEF Contains
<1> HIDE DEF new, k
<1>3. \A q : Listed(q)' <=> Listed(q) \/ q = p
  BY <1>1, <1>2 DEF Listed
<1>4. readySet' = readySet \cup {p}
  BY <1>3 DEF readySet
<1>5. p \notin readySet /\ k = priority[p]
  BY DEF Activate, readySet, k
<1> QED
  BY <1>1, <1>4, <1>5 DEF Activate, Abs!Ready, readySet

\* nn_priolist_rm of an active pipe detaches it, ready as it was.
LEMMA RmActiveRefines ==
    ASSUME IInv, NEW p \in Pipe, RmActive(p)
    PROVE  Abs!Detach(p)
<1> DEFINE k    == priority[p]
           rest == Erase(pipes[k], p)
<1>1. /\ k \in Slot /\ k # 0
      /\ pipes' = [pipes EXCEPT ![k] = rest]
      /\ pipes[k] \in Seq(Pipe)
      /\ pipes \in [Slot -> Seq(Pipe)]
  BY DEF IInv, TypeOK, RmActive, Slot
<1>2. Contains(pipes[k], p) /\ \A j \in Slot : Contains(pipes[j], p) => j = k
  BY ListedFacts DEF RmActive
<1>3. \A i, j \in 1..Len(pipes[k]) : pipes[k][i] = pipes[k][j] => i = j
  BY <1>1 DEF IInv, PrioListSound, ListsSound
<1>4. \A q : Contains(rest, q) <=> Contains(pipes[k], q) /\ q # p
  BY <1>1, <1>2, <1>3, EraseMembers
<1> HIDE DEF rest, k
<1>5. \A q : Listed(q)' <=> Listed(q) /\ q # p
  BY <1>1, <1>2, <1>4 DEF Listed
<1>6. readySet' = readySet \ {p}
  BY <1>5 DEF readySet
<1> QED
  BY <1>1, <1>6 DEF RmActive, Abs!Detach, readySet, k

\* The current pipe is listed in the current slot; a send or receive through it
\* takes it out of the list exactly when the transport releases it.
LEMMA ServeListed ==
    ASSUME IInv, NEW release \in BOOLEAN, Serve(release)
    PROVE  LET p == slotcurrent[current] IN
           /\ p \in Pipe /\ Listed(p)
           /\ current \in Slot /\ priority[p] = current
           /\ \A j \in 1..(current - 1) : pipes[j] = <<>>
           /\ \A q : Listed(q)' <=> Listed(q) /\ ~(release /\ q = p)
<1> DEFINE k    == current
           p    == slotcurrent[k]
           rest == IF release THEN Erase(pipes[k], p) ELSE pipes[k]
           r    == FirstNonEmpty(pipes, 1)
<1>1. /\ k \in Slot
      /\ pipes' = [pipes EXCEPT ![k] = rest]
      /\ pipes \in [Slot -> Seq(Pipe)]
  BY DEF IInv, TypeOK, Serve, Advance
<1>2. \/ r = -1
      \/ /\ r \in 1..NSlots /\ pipes[r] # <<>>
         /\ \A j \in 1..(r - 1) : pipes[j] = <<>>
  BY FirstNonEmptyCases
<1> HIDE DEF r
<1>3. r = current
  BY DEF IInv, PrioListSound, CurrentIsHighest, r
<1>4. pipes[k] # <<>> /\ \A j \in 1..(k - 1) : pipes[j] = <<>>
  BY <1>1, <1>2, <1>3, SlotFacts
<1>5. p \in Pipe /\ Contains(pipes[k], p)
  BY <1>1, <1>4 DEF IInv, PrioListSound, SlotCurrentSound, TypeOK, Contains
<1>6. priority[p] = k /\ Listed(p)
  BY <1>1, <1>5, ListedFacts DEF Listed
<1>7. \A q : Listed(q)' <=> Listed(q) /\ ~(release /\ q = p)
  <2>1. CASE release
    <3>1. \A i, j \in 1..Len(pipes[k]) : pipes[k][i] = pipes[k][j] => i = j
      BY <1>1 DEF IInv, PrioListSound, ListsSound
    <3>2. \A q : Contains(rest, q) <=> Contains(pipes[k], q) /\ q # p
      BY <1>1, <1>5, <2>1, <3>1, EraseMembers
    <3>3. \A j \in Slot : Contains(pipes[j], p) => j = k
      BY <1>1, <1>5, <1>6, ListedFacts
    <3> HIDE DEF rest, k, p
    <3> QED
      BY <1>1, <1>5, <2>1, <3>2, <3>3 DEF Listed
  <2>2. CASE ~release
    <3>1. pipes' = pipes
      BY <1>1, <2>2
    <3> QED
      BY <2>2, <3>1 DEF Listed
  <2> QED
    BY <2>1, <2>2
<1> QED
  BY <1>1, <1>4, <1>5, <1>6, <1>7

\* The current pipe is a ready one of the highest priority.
LEMMA ServeRefines ==
    ASSUME IInv, NEW release \in BOOLEAN, Serve(release)
    PROVE  \E p \in Pipe : Abs!Use(p)
<1> DEFINE k == current
           p == slotcurrent[k]
<1>1. /\ p \in Pipe /\ Listed(p)
      /\ k \in Slot /\ priority[p] = k
      /\ \A j \in 1..(k - 1) : pipes[j] = <<>>
      /\ \A q : Listed(q)' <=> Listed(q) /\ ~(release /\ q = p)
  BY ServeListed
<1>2. priority' = priority /\ picked' = p
  BY DEF Serve
<1> HIDE DEF k, p
<1>3. \A q \in Pipe : Listed(q) => k <= priority[q]
  <2> SUFFICES ASSUME NEW q \in Pipe, Listed(q) PROVE k <= priority[q]
    OBVIOUS
  <2>1. priority[q] \in Slot /\ Contains(pipes[priority[q]], q)
    BY ListedFacts DEF IInv, TypeOK, Slot
  <2>2. pipes[priority[q]] # <<>>
    BY <2>1 DEF Contains
  <2> QED
    BY <1>1, <2>1, <2>2, PrioListAssumption DEF Slot
<1>4. readySet' \in {readySet, readySet \ {p}}
  <2>1. CASE release
    BY <1>1, <2>1 DEF readySet
  <2>2. CASE ~release
    BY <1>1, <2>2 DEF readySet
  <2> QED
    BY <2>1, <2>2
<1>5. Abs!Use(p)
  BY <1>1, <1>2, <1>3, <1>4 DEF Abs!Use, readySet
<1> QED
  BY <1>1, <1>5

\* EAGAIN is answered only when no pipe is ready.
LEMMA ServeNoneRefines ==
    ASSUME IInv, ServeNone
    PROVE  Abs!UseNone
<1> DEFINE r == FirstNonEmpty(pipes, 1)
<1>1. \/ r = -1 /\ \A j \in 1..NSlots : pipes[j] = <<>>
      \/ r \in 1..NSlots
  BY FirstNonEmptyCases
<1> HIDE DEF r
<1>2. r = -1
  BY DEF IInv, PrioListSound, CurrentIsHighest, ServeNone, r
<1>3. \A j \in Slot : pipes[j] = <<>>
  BY <1>1, <1>2, SlotFacts DEF Slot
<1>4. \A q : ~Listed(q)
  BY <1>3 DEF Listed, Contains
<1>5. \A q : Listed(q)' <=> Listed(q)
  BY DEF ServeNone, Listed
<1> QED
  BY <1>4, <1>5 DEF ServeNone, Abs!UseNone

\* Every step of the list is a step of the prioritised set.
LEMMA NextRefines == IInv /\ [Next]_vars => [Abs!AbsNext]_(Abs!absvars)
<1> SUFFICES ASSUME IInv, [Next]_vars PROVE [Abs!AbsNext]_(Abs!absvars)
  OBVIOUS
<1>1. ASSUME NEW p \in Pipe, Add(p) PROVE Abs!AbsNext
  BY <1>1, AddRefines DEF Abs!AbsNext
<1>2. ASSUME NEW p \in Pipe, Activate(p) PROVE Abs!AbsNext
  BY <1>2, ActivateRefines DEF Abs!AbsNext
<1>3. ASSUME NEW p \in Pipe, RmInactive(p) PROVE Abs!AbsNext
  BY <1>3, RmInactiveRefines DEF Abs!AbsNext
<1>4. ASSUME NEW p \in Pipe, RmActive(p) PROVE Abs!AbsNext
  BY <1>4, RmActiveRefines DEF Abs!AbsNext
<1>5. ASSUME NEW release \in BOOLEAN, Serve(release) PROVE Abs!AbsNext
  BY <1>5, ServeRefines DEF Abs!AbsNext
<1>6. CASE ServeNone
  BY <1>6, ServeNoneRefines DEF Abs!AbsNext
<1>7. CASE UNCHANGED vars
  <2>1. \A q : Listed(q)' <=> Listed(q)
    BY <1>7 DEF vars, Listed
  <2> QED
    BY <1>7, <2>1 DEF vars, Abs!absvars
<1> QED
  BY <1>1, <1>2, <1>3, <1>4, <1>5, <1>6, <1>7 DEF Next

\* The list with its pointers implements the prioritised set: no pipe but a
\* ready one of the highest priority is ever handed to send or recv, and they
\* answer EAGAIN only when no pipe is ready.
THEOREM Refinement == Spec => RefinesPrioSet
<1> QED
  BY InitInv, NextInv, InitRefines, NextRefines, PTL
     DEF Spec, RefinesPrioSet, Abs!AbsSpec

-----------------------------------------------------------------------------
(* The receiving side.                                                       *)

\* Every step of the fair queue is a step of its list, or leaves it alone.
LEMMA StepIsListStep == [FqNext]_fqvars => [Next]_vars
<1> SUFFICES ASSUME [FqNext]_fqvars PROVE [Next]_vars
  OBVIOUS
<1>1. ASSUME NEW p \in Pipe, PipeStart(p) PROVE Next
  BY <1>1 DEF PipeStart, Next
<1>2. ASSUME NEW p \in Pipe, PipeStop(p) PROVE Next
  BY <1>2 DEF PipeStop, Next
<1>3. ASSUME NEW p \in Pipe, SentFirst(p) PROVE Next
  BY <1>3 DEF SentFirst, Next
<1>4. ASSUME NEW p \in Pipe, SentMore(p) PROVE UNCHANGED vars
  BY <1>4 DEF SentMore
<1>5. CASE FqRecv
  <2>1. \E release \in BOOLEAN : Serve(release)
    BY <1>5 DEF FqRecv
  <2> QED
    BY <2>1 DEF Next
<1>6. CASE FqRecvNone
  BY <1>6 DEF FqRecvNone, Next
<1>7. CASE UNCHANGED fqvars
  BY <1>7 DEF fqvars
<1> QED
  BY <1>1, <1>2, <1>3, <1>4, <1>5, <1>6, <1>7 DEF FqNext

\* The fair queue implements the list it is built on.
THEOREM FqRefinesList == FqSpec => Spec
<1>1. FqInit => Init
  BY DEF FqInit
<1> QED
  BY <1>1, StepIsListStep, PTL DEF FqSpec, Spec

\* The pointers of the fair queue's list are sound in every state, and it hands
\* out pipes as the prioritised set does.
THEOREM FqList == FqSpec => []PrioListSound /\ RefinesPrioSet
BY FqRefinesList, Soundness, Refinement, PTL

-----------------------------------------------------------------------------
\* The inductive invariant: that of the list, types and NothingStranded.
FqInv == IInv /\ FqTypeOK /\ NothingStranded

\* In the initial state no pipe is attached.
LEMMA FqInitInv == FqInit => FqInv
<1> SUFFICES ASSUME FqInit PROVE FqInv
  OBVIOUS
<1>1. IInv
  BY InitInv DEF FqInit
<1>2. FqTypeOK
  BY <1>1, FairQueueAssumption DEF FqInit, FqTypeOK, IInv
<1>3. \A p \in Pipe : ~Listed(p)
  BY DEF FqInit, Init, Listed, Contains
<1>4. NothingStranded
  BY <1>3 DEF FqInit, Init, NothingStranded
<1> QED
  BY <1>1, <1>2, <1>4 DEF FqInv

\* Attaching a pipe: it starts with an empty queue, and outside the list.
LEMMA PipeStartInv ==
    ASSUME FqInv, NEW p \in Pipe, PipeStart(p)
    PROVE  FqTypeOK' /\ NothingStranded'
<1>1. IInv'
  BY AddInv DEF FqInv, PipeStart
<1>2. \A q : Listed(q)' <=> Listed(q)
  BY DEF PipeStart, Add, Listed
<1>3. FqTypeOK'
  BY <1>1, FairQueueAssumption DEF FqInv, FqTypeOK, PipeStart, IInv, Waiting
<1>4. /\ priority \in [Pipe -> 0..NSlots] /\ priority' \in [Pipe -> 0..NSlots]
      /\ queue \in [Pipe -> 0..MaxQueue] /\ instate \in [Pipe -> {"ASYNC", "IDLE"}]
      /\ receiving \in [Pipe -> BOOLEAN]
  BY <1>1 DEF FqInv, FqTypeOK, TypeOK, IInv
<1>5. \A q \in Pipe : q # p => priority'[q] = priority[q]
  BY <1>4 DEF PipeStart, Add
<1>6. ~Listed(p)
  BY DEF FqInv, NothingStranded, PipeStart, Add
<1>7. NothingStranded'
  BY <1>2, <1>4, <1>5, <1>6 DEF FqInv, NothingStranded, PipeStart
<1> QED
  BY <1>3, <1>7

\* A broken connection: what was not read is lost with the pipe.
LEMMA PipeStopInv ==
    ASSUME FqInv, NEW p \in Pipe, PipeStop(p)
    PROVE  FqTypeOK' /\ NothingStranded'
<1>1. IInv'
  BY RmInactiveInv, RmActiveInv DEF FqInv, PipeStop
<1>2. Abs!Detach(p)
  BY RmInactiveRefines, RmActiveRefines DEF FqInv, PipeStop
<1>3. \A q \in Pipe : Listed(q)' <=> Listed(q) /\ q # p
  BY <1>2 DEF Abs!Detach
<1>4. FqTypeOK'
  BY <1>1, FairQueueAssumption DEF FqInv, FqTypeOK, PipeStop, IInv, Waiting
<1>5. priority' = [priority EXCEPT ![p] = 0]
  BY <1>2 DEF Abs!Detach
<1>6. /\ priority \in [Pipe -> 0..NSlots]
      /\ queue \in [Pipe -> 0..MaxQueue]
      /\ receiving \in [Pipe -> BOOLEAN]
  BY DEF FqInv, FqTypeOK, TypeOK
<1>7. NothingStranded'
  BY <1>3, <1>5, <1>6 DEF FqInv, NothingStranded, PipeStop
<1> QED
  BY <1>4, <1>7

\* The first message of a batch puts the pipe into the list.
LEMMA SentFirstInv ==
    ASSUME FqInv, NEW p \in Pipe, SentFirst(p)
    PROVE  FqTypeOK' /\ NothingStranded'
<1>1. IInv'
  BY ActivateInv DEF FqInv, SentFirst
<1>2. Abs!Ready(p)
  BY ActivateRefines DEF FqInv, SentFirst
<1>3. \A q \in Pipe : Listed(q)' <=> Listed(q) \/ q = p
  BY <1>2 DEF Abs!Ready
<1>4. FqTypeOK'
  BY <1>1, FairQueueAssumption DEF FqInv, FqTypeOK, SentFirst, IInv, Waiting
<1>5. priority' = priority /\ priority[p] # 0
  BY <1>2 DEF Abs!Ready
<1>6. /\ queue \in [Pipe -> 0..MaxQueue]
      /\ instate \in [Pipe -> {"ASYNC", "IDLE"}]
      /\ receiving \in [Pipe -> BOOLEAN]
  BY DEF FqInv, FqTypeOK
<1>7. ~receiving[p]
  BY <1>6, FairQueueAssumption DEF FqInv, NothingStranded, SentFirst
<1>8. NothingStranded'
  BY <1>3, <1>5, <1>6, <1>7 DEF FqInv, NothingStranded, SentFirst
<1> QED
  BY <1>4, <1>8

\* A further message is stored, or lingers with the peer.
LEMMA SentMoreInv ==
    ASSUME FqInv, NEW p \in Pipe, SentMore(p)
    PROVE  FqTypeOK' /\ NothingStranded'
<1>1. \A q : Listed(q)' <=> Listed(q)
  BY DEF SentMore, vars, Listed
<1>2. /\ queue \in [Pipe -> 0..MaxQueue]
      /\ receiving \in [Pipe -> BOOLEAN]
      /\ TypeOK'
  BY DEF FqInv, FqTypeOK, TypeOK, SentMore, vars
<1>3. FqTypeOK'
  <2>1. instate' = instate /\ passed' = passed
    BY DEF SentMore
  <2>2. CASE queue[p] < MaxQueue /\ queue' = [queue EXCEPT ![p] = @ + 1] /\ receiving' = receiving
    <3>2. queue[p] + 1 \in 0..MaxQueue
      BY <1>2, <2>2, FairQueueAssumption
    <3> QED
      BY <1>2, <2>1, <2>2, <3>2 DEF FqInv, FqTypeOK
  <2>3. CASE queue' = queue /\ receiving' = [receiving EXCEPT ![p] = TRUE]
    BY <1>2, <2>1, <2>3 DEF FqInv, FqTypeOK
  <2> QED
    BY <2>2, <2>3 DEF SentMore
<1>4. NothingStranded'
  BY <1>1, <1>2, FairQueueAssumption
     DEF FqInv, NothingStranded, SentMore, vars
<1> QED
  BY <1>3, <1>4

\* A receive takes the pipe out of the list exactly when its queue ran empty.
LEMMA FqRecvInv ==
    ASSUME FqInv, FqRecv
    PROVE  FqTypeOK' /\ NothingStranded'
<1> DEFINE p == slotcurrent[current]
<1>0. PICK left \in Left(p) :
         /\ queue' = [queue EXCEPT ![p] = left]
         /\ receiving' = [receiving EXCEPT ![p] = @ /\ left < queue[p]]
         /\ instate' = [instate EXCEPT ![p] = IF left > 0 THEN "IDLE" ELSE "ASYNC"]
         /\ Serve(left = 0)
  BY DEF FqRecv
<1> DEFINE out == left = 0
<1>1. /\ queue' = [queue EXCEPT ![p] = left]
      /\ receiving' = [receiving EXCEPT ![p] = @ /\ left < queue[p]]
      /\ instate' = [instate EXCEPT ![p] = IF left > 0 THEN "IDLE" ELSE "ASYNC"]
      /\ out \in BOOLEAN
      /\ Serve(out)
  BY <1>0
<1>2. IInv'
  BY <1>1, ServeInv DEF FqInv
<1>3. /\ p \in Pipe /\ Listed(p)
      /\ \A q : Listed(q)' <=> Listed(q) /\ ~(out /\ q = p)
  BY <1>1, ServeListed DEF FqInv
<1>4. priority' = priority
  BY <1>1 DEF Serve
<1>5. /\ queue \in [Pipe -> 0..MaxQueue]
      /\ instate \in [Pipe -> {"ASYNC", "IDLE"}]
      /\ receiving \in [Pipe -> BOOLEAN]
  BY DEF FqInv, FqTypeOK
<1>6. queue[p] > 0 /\ priority[p] # 0 /\ (receiving[p] => queue[p] > 0)
  BY <1>3 DEF FqInv, NothingStranded
<1>7. passed' \in SUBSET (Pipe \X Pipe)
  BY <1>3 DEF FqInv, FqTypeOK, FqRecv, Waiting
<1> HIDE DEF p
<1>8. left \in 0..MaxQueue /\ (receiving[p] /\ left < queue[p] => left > 0)
  <2>1. queue[p] \in 0..MaxQueue /\ receiving[p] \in BOOLEAN
    BY <1>3, <1>5
  <2> QED
    BY <1>0, <1>6, <2>1, FairQueueAssumption DEF Left
<1>9. FqTypeOK'
  <2>1. (receiving[p] /\ left < queue[p]) \in BOOLEAN
    OBVIOUS
  <2> QED
    BY <1>1, <1>2, <1>3, <1>5, <1>7, <1>8, <2>1 DEF FqTypeOK, IInv
<1>10. NothingStranded'
  <2>1. \A q \in Pipe : q # p => /\ queue'[q] = queue[q]
                                /\ receiving'[q] = receiving[q]
                                /\ instate'[q] = instate[q]
    BY <1>1, <1>5
  <2>2. /\ queue'[p] = left
        /\ receiving'[p] => left > 0
        /\ instate'[p] = IF left > 0 THEN "IDLE" ELSE "ASYNC"
    BY <1>1, <1>3, <1>5, <1>8
  <2> QED
    BY <1>1, <1>3, <1>4, <1>5, <1>6, <1>8, <2>1, <2>2 DEF FqInv, NothingStranded
<1> QED
  BY <1>9, <1>10

\* The invariant is inductive.
LEMMA FqNextInv == FqInv /\ [FqNext]_fqvars => FqInv'
<1> SUFFICES ASSUME FqInv, [FqNext]_fqvars PROVE FqTypeOK' /\ NothingStranded' /\ IInv'
  BY DEF FqInv
<1>1. IInv'
  BY StepIsListStep, NextInv DEF FqInv
<1>2. ASSUME NEW p \in Pipe, PipeStart(p) PROVE FqTypeOK' /\ NothingStranded'
  BY <1>2, PipeStartInv
<1>3. ASSUME NEW p \in Pipe, PipeStop(p) PROVE FqTypeOK' /\ NothingStranded'
  BY <1>3, PipeStopInv
<1>4. ASSUME NEW p \in Pipe, SentFirst(p) PROVE FqTypeOK' /\ NothingStranded'
  BY <1>4, SentFirstInv
<1>5. ASSUME NEW p \in Pipe, SentMore(p) PROVE FqTypeOK' /\ NothingStranded'
  BY <1>5, SentMoreInv
<1>6. CASE FqRecv
  BY <1>1, <1>6, FqRecvInv
<1>7. CASE FqRecvNone \/ UNCHANGED fqvars
  <2>1. /\ priority' = priority /\ pipes' = pipes
        /\ queue' = queue /\ receiving' = receiving
        /\ instate' = instate /\ passed' = passed
    BY <1>7 DEF FqRecvNone, ServeNone, fqvars, vars
  <2>2. \A q : Listed(q)' <=> Listed(q)
    BY <2>1 DEF Listed
  <2>3. NothingStranded'
    BY <2>1, <2>2 DEF FqInv, NothingStranded
  <2>4. FqTypeOK'
    BY <1>1, <2>1 DEF FqInv, FqTypeOK, IInv
  <2> QED
    BY <1>1, <2>3, <2>4
<1> QED
  BY <1>1, <1>2, <1>3, <1>4, <1>5, <1>6, <1>7 DEF FqNext

\* No message is ever stranded, for any pipes, priorities and queue sizes: a
\* pipe is in the fair queuer's list exactly while it has messages (fq.c,
\* pipe.c, sinproc.c).
THEOREM FqNothingStranded == FqSpec => []NothingStranded
<1>1. FqInv => NothingStranded
  BY DEF FqInv
<1> QED
  BY FqInitInv, FqNextInv, <1>1, PTL DEF FqSpec

-----------------------------------------------------------------------------
(* Taking turns.                                                            *)

\* In a list whose current pipe is cur, q comes up before p: it is at or after
\* the current pipe and p is behind it, or p's turn comes after the wrap-over
\* and q's before that or before p's.
Before(list, cur, q, p) ==
    \E a, b, c \in 1..Len(list) :
       /\ list[a] = q /\ list[b] = p /\ list[c] = cur
       /\ \/ c <= a /\ a < b
          \/ b < c /\ c <= a
          \/ a < b /\ b < c

\* Nothing comes up before the current pipe.
LEMMA CurrentIsFirst ==
    ASSUME NEW list \in Seq(Pipe), NEW cur, NEW q,
           \A i, j \in 1..Len(list) : list[i] = list[j] => i = j
    PROVE  ~Before(list, cur, q, cur)
<1> SUFFICES ASSUME NEW a \in 1..Len(list), NEW b \in 1..Len(list), NEW c \in 1..Len(list),
                    list[b] = cur, list[c] = cur,
                    \/ c <= a /\ a < b
                    \/ b < c /\ c <= a
                    \/ a < b /\ b < c
             PROVE  FALSE
  BY DEF Before
<1>1. b = c
  OBVIOUS
<1> QED
  BY <1>1

\* A pipe that is appended changes no turn.
LEMMA TurnsAfterAppend ==
    ASSUME NEW list \in Seq(Pipe), NEW x \in Pipe, NEW cur, NEW q, NEW p,
           Before(list, cur, q, p)
    PROVE  Before(Append(list, x), cur, q, p)
<1>1. /\ Len(Append(list, x)) = Len(list) + 1 /\ Len(list) \in Nat
      /\ \A i \in 1..Len(list) : Append(list, x)[i] = list[i]
  OBVIOUS
<1>2. 1..Len(list) \subseteq 1..Len(Append(list, x))
  BY <1>1
<1> QED
  BY <1>1, <1>2 DEF Before

\* Nor does one that is erased, unless it is the current one.
LEMMA TurnsAfterErase ==
    ASSUME NEW list \in Seq(Pipe), NEW x \in Pipe, Contains(list, x),
           \A i, j \in 1..Len(list) : list[i] = list[j] => i = j,
           NEW cur, NEW q, NEW p, Before(list, cur, q, p),
           x # cur, x # q, x # p
    PROVE  Before(Erase(list, x), cur, q, p)
<1> DEFINE e == Erase(list, x)
           k == Position(list, x)
           moved(i) == IF i < k THEN i ELSE i - 1
<1>1. /\ k \in 1..Len(list) /\ list[k] = x /\ Len(list) \in Nat
      /\ Len(e) = Len(list) - 1
      /\ \A i \in 1..(Len(list) - 1) :
            e[i] = IF i < k THEN list[i] ELSE list[i + 1]
  BY EraseProps
<1>2. PICK a, b, c \in 1..Len(list) :
         /\ list[a] = q /\ list[b] = p /\ list[c] = cur
         /\ \/ c <= a /\ a < b
            \/ b < c /\ c <= a
            \/ a < b /\ b < c
  BY DEF Before
<1> HIDE DEF e, k
<1>3. a # k /\ b # k /\ c # k
  BY <1>1, <1>2
<1>4. ASSUME NEW i \in 1..Len(list), i # k
      PROVE  moved(i) \in 1..Len(e) /\ e[moved(i)] = list[i]
  <2>1. CASE i < k
    BY <1>1, <1>4, <2>1
  <2>2. CASE i > k
    <3>1. i - 1 \in 1..(Len(list) - 1) /\ ~(i - 1 < k) /\ (i - 1) + 1 = i
      BY <1>1, <1>4, <2>2
    <3> QED
      BY <1>1, <2>2, <3>1
  <2> QED
    BY <1>1, <1>4, <2>1, <2>2
<1>5. /\ moved(a) \in 1..Len(e) /\ e[moved(a)] = q
      /\ moved(b) \in 1..Len(e) /\ e[moved(b)] = p
      /\ moved(c) \in 1..Len(e) /\ e[moved(c)] = cur
  BY <1>2, <1>3, <1>4
<1>6. \/ moved(c) <= moved(a) /\ moved(a) < moved(b)
      \/ moved(b) < moved(c) /\ moved(c) <= moved(a)
      \/ moved(a) < moved(b) /\ moved(b) < moved(c)
  BY <1>1, <1>2, <1>3
<1>7. Before(e, cur, q, p)
  BY <1>5, <1>6 DEF Before
<1> QED
  BY <1>7 DEF e

\* When the current pipe is erased the turn of the next one comes.
LEMMA TurnsAfterCurrentErased ==
    ASSUME NEW list \in Seq(Pipe), NEW x \in Pipe, Contains(list, x),
           \A i, j \in 1..Len(list) : list[i] = list[j] => i = j,
           NEW q, NEW p, Before(list, x, q, p), x # q, x # p
    PROVE  Before(Erase(list, x), NextItem(list, x, Erase(list, x)), q, p)
<1> DEFINE e == Erase(list, x)
           k == Position(list, x)
           n == NextItem(list, x, e)
           moved(i) == IF i < k THEN i ELSE i - 1
           next == IF k < Len(list) THEN k ELSE 1
<1>1. /\ k \in 1..Len(list) /\ list[k] = x /\ Len(list) \in Nat
      /\ e \in Seq(Pipe) /\ Len(e) = Len(list) - 1
      /\ \A i \in 1..(Len(list) - 1) :
            e[i] = IF i < k THEN list[i] ELSE list[i + 1]
  BY EraseProps
<1>2. PICK a, b, c \in 1..Len(list) :
         /\ list[a] = q /\ list[b] = p /\ list[c] = x
         /\ \/ c <= a /\ a < b
            \/ b < c /\ c <= a
            \/ a < b /\ b < c
  BY DEF Before
<1>3. n = IF k < Len(list) THEN list[k + 1] ELSE IF e = <<>> THEN NULL ELSE e[1]
  BY DEF NextItem
<1> HIDE DEF e, k, n
<1>4. a # k /\ b # k /\ c = k /\ Len(list) > 1 /\ e # <<>>
  BY <1>1, <1>2
<1>5. ASSUME NEW i \in 1..Len(list), i # k
      PROVE  moved(i) \in 1..Len(e) /\ e[moved(i)] = list[i]
  <2>1. CASE i < k
    BY <1>1, <1>5, <2>1
  <2>2. CASE i > k
    <3>1. i - 1 \in 1..(Len(list) - 1) /\ ~(i - 1 < k) /\ (i - 1) + 1 = i
      BY <1>1, <1>5, <2>2
    <3> QED
      BY <1>1, <2>2, <3>1
  <2> QED
    BY <1>1, <1>5, <2>1, <2>2
<1>6. /\ moved(a) \in 1..Len(e) /\ e[moved(a)] = q
      /\ moved(b) \in 1..Len(e) /\ e[moved(b)] = p
  BY <1>2, <1>4, <1>5
<1>7. next \in 1..Len(e) /\ e[next] = n
  <2>1. CASE k < Len(list)
    <3>1. k \in 1..(Len(list) - 1) /\ ~(k < k)
      BY <1>1, <2>1
    <3>2. e[k] = list[k + 1]
      BY <1>1, <3>1
    <3> QED
      BY <1>1, <1>3, <2>1, <3>1, <3>2
  <2>2. CASE ~(k < Len(list))
    BY <1>1, <1>3, <1>4, <2>2
  <2> QED
    BY <2>1, <2>2
<1>8. \/ next <= moved(a) /\ moved(a) < moved(b)
      \/ moved(b) < next /\ next <= moved(a)
      \/ moved(a) < moved(b) /\ moved(b) < next
  BY <1>1, <1>2, <1>4
<1> HIDE DEF next, moved
<1>9. Before(e, n, q, p)
  BY <1>6, <1>7, <1>8 DEF Before
<1> QED
  BY <1>9 DEF e, n

\* The pipe that has had its turn comes after all others.
LEMMA TurnsAfterMove ==
    ASSUME NEW list \in Seq(Pipe), NEW x \in Pipe, Contains(list, x),
           \A i, j \in 1..Len(list) : list[i] = list[j] => i = j,
           NEW q, NEW p, q # x,
           Before(list, x, q, p) \/ (Contains(list, q) /\ p = x)
    PROVE  Before(list, NextItem(list, x, list), q, p)
<1> DEFINE k == Position(list, x)
           n == NextItem(list, x, list)
           next == IF k < Len(list) THEN k + 1 ELSE 1
<1>1. k \in 1..Len(list) /\ list[k] = x /\ Len(list) \in Nat
  BY EraseProps
<1>2. n = IF k < Len(list) THEN list[k + 1] ELSE IF list = <<>> THEN NULL ELSE list[1]
  BY DEF NextItem
<1> HIDE DEF k, n
<1>3. next \in 1..Len(list) /\ list[next] = n
  BY <1>1, <1>2
<1>4. PICK a, b \in 1..Len(list) :
         /\ list[a] = q /\ list[b] = p /\ a # k
         /\ \/ b = k
            \/ k <= a /\ a < b
            \/ b < k /\ k <= a
            \/ a < b /\ b < k
  <2>1. CASE Before(list, x, q, p)
    <3>1. PICK a, b, c \in 1..Len(list) :
             /\ list[a] = q /\ list[b] = p /\ list[c] = x
             /\ \/ c <= a /\ a < b
                \/ b < c /\ c <= a
                \/ a < b /\ b < c
      BY <2>1 DEF Before
    <3>2. c = k /\ a # k
      BY <1>1, <3>1
    <3> QED
      BY <3>1, <3>2
  <2>2. CASE Contains(list, q) /\ p = x
    <3>1. PICK a \in 1..Len(list) : list[a] = q
      BY <2>2 DEF Contains
    <3> QED
      BY <1>1, <2>2, <3>1
  <2> QED
    BY <2>1, <2>2
<1>5. \/ next <= a /\ a < b
      \/ b < next /\ next <= a
      \/ a < b /\ b < next
  BY <1>1, <1>4
<1> HIDE DEF next
<1>6. Before(list, n, q, p)
  BY <1>3, <1>4, <1>5 DEF Before
<1> QED
  BY <1>6 DEF n

\* Of two pipes that stayed in the list since one of them was served while the
\* other one was waiting, the other one's turn comes first.
TurnsKept ==
    \A q, p \in Pipe :
       <<q, p>> \in passed =>
          \E k \in Slot : Before(pipes[k], slotcurrent[k], q, p)

\* What the invariant says of a slot.
LEMMA SlotSound ==
    ASSUME FqInv, NEW k \in Slot
    PROVE  /\ pipes[k] \in Seq(Pipe)
           /\ pipes \in [Slot -> Seq(Pipe)]
           /\ slotcurrent \in [Slot -> Pipe \cup {NULL}]
           /\ \A i, j \in 1..Len(pipes[k]) : pipes[k][i] = pipes[k][j] => i = j
BY DEF FqInv, IInv, TypeOK, PrioListSound, ListsSound

\* Turns do not change when the list does not.
LEMMA SameTurns ==
    ASSUME TurnsKept, UNCHANGED <<pipes, slotcurrent>>, passed' \subseteq passed
    PROVE  TurnsKept'
BY DEF TurnsKept

\* A pipe that becomes readable is appended to the list of its priority.
LEMMA SentFirstTurns ==
    ASSUME FqInv, TurnsKept, NEW p \in Pipe, SentFirst(p)
    PROVE  TurnsKept'
<1>0. PICK k : k = priority[p]
  OBVIOUS
<1>1. /\ k \in Slot
      /\ pipes' = [pipes EXCEPT ![k] = Append(@, p)]
      /\ pipes[k] # <<>> => UNCHANGED slotcurrent
      /\ pipes[k] = <<>> => slotcurrent' = [slotcurrent EXCEPT ![k] = p]
      /\ passed' \subseteq passed
  BY <1>0 DEF SentFirst, Activate, Waiting, FqInv, IInv, TypeOK, Slot
<1>2. SUFFICES ASSUME NEW q \in Pipe, NEW r \in Pipe, NEW j \in Slot,
                      Before(pipes[j], slotcurrent[j], q, r)
               PROVE  Before(pipes'[j], slotcurrent'[j], q, r)
  BY <1>1 DEF TurnsKept
<1>3. CASE j = k
  <2>1. pipes[k] # <<>>
    BY <1>2, <1>3 DEF Before
  <2>2. pipes'[k] = Append(pipes[k], p) /\ slotcurrent'[k] = slotcurrent[k]
    BY <1>1, <2>1, SlotSound
  <2> QED
    BY <1>1, <1>2, <1>3, <2>2, SlotSound, TurnsAfterAppend
<1>4. CASE j # k
  <2>1. pipes'[j] = pipes[j] /\ slotcurrent'[j] = slotcurrent[j]
    BY <1>1, <1>4, SlotSound
  <2> QED
    BY <1>2, <2>1
<1> QED
  BY <1>3, <1>4

\* A broken pipe that is in the list is erased, and its turns are forgotten.
LEMMA RmActiveTurns ==
    ASSUME FqInv, TurnsKept, NEW p \in Pipe, RmActive(p), passed' = Waiting(passed)
    PROVE  TurnsKept'
<1>0. PICK k : k = priority[p]
  OBVIOUS
<1>1. /\ k \in Slot
      /\ pipes' = [pipes EXCEPT ![k] = Erase(pipes[k], p)]
      /\ slotcurrent[k] # p => UNCHANGED slotcurrent
      /\ slotcurrent[k] = p =>
            slotcurrent' = [slotcurrent EXCEPT
                              ![k] = NextItem(pipes[k], p, Erase(pipes[k], p))]
      /\ Contains(pipes[k], p)
  BY <1>0, ListedFacts DEF RmActive, FqInv, IInv, TypeOK, Slot
<1>2. \A q \in Pipe : Listed(q)' => q # p
  BY RmActiveRefines DEF FqInv, Abs!Detach
<1>3. SUFFICES ASSUME NEW q \in Pipe, NEW r \in Pipe, q # p, r # p, NEW j \in Slot,
                      Before(pipes[j], slotcurrent[j], q, r)
               PROVE  Before(pipes'[j], slotcurrent'[j], q, r)
  BY <1>2 DEF TurnsKept, Waiting
<1>4. CASE j = k /\ slotcurrent[k] # p
  <2>1. pipes'[k] = Erase(pipes[k], p) /\ slotcurrent'[k] = slotcurrent[k]
    BY <1>1, <1>4, SlotSound
  <2> QED
    BY <1>1, <1>3, <1>4, <2>1, SlotSound, TurnsAfterErase
<1>5. CASE j = k /\ slotcurrent[k] = p
  <2>1. /\ pipes'[k] = Erase(pipes[k], p)
        /\ slotcurrent'[k] = NextItem(pipes[k], p, Erase(pipes[k], p))
    BY <1>1, <1>5, SlotSound
  <2> QED
    BY <1>1, <1>3, <1>5, <2>1, SlotSound, TurnsAfterCurrentErased
<1>6. CASE j # k
  <2>1. pipes'[j] = pipes[j] /\ slotcurrent'[j] = slotcurrent[j]
    BY <1>1, <1>6, SlotSound
  <2> QED
    BY <1>3, <2>1
<1> QED
  BY <1>4, <1>5, <1>6

\* The pipe that is served is not one that had its turn before another one.
LEMMA InTurn ==
    ASSUME FqInv, TurnsKept, FqRecv, NEW q \in Pipe
    PROVE  <<q, picked'>> \notin passed
<1>1. PICK p : p = slotcurrent[current]
  OBVIOUS
<1>2. \E release \in BOOLEAN : Serve(release)
  BY DEF FqRecv
<1>3. p \in Pipe /\ current \in Slot /\ priority[p] = current /\ picked' = p
  BY <1>1, <1>2, ServeListed DEF FqInv, Serve
<1>4. SUFFICES ASSUME <<q, p>> \in passed
               PROVE  FALSE
  BY <1>3
<1>5. PICK k \in Slot : Before(pipes[k], slotcurrent[k], q, p)
  BY <1>3, <1>4 DEF TurnsKept
<1>6. Contains(pipes[k], p)
  BY <1>5 DEF Before, Contains
<1>7. k = current
  BY <1>3, <1>6, ListedFacts DEF FqInv
<1> QED
  BY <1>1, <1>5, <1>7, SlotSound, CurrentIsFirst

\* A receive moves the pointer on; the pipe it served comes after all others.
LEMMA FqRecvTurns ==
    ASSUME FqInv, TurnsKept, FqRecv
    PROVE  TurnsKept'
<1>1. PICK k, p : k = current /\ p = slotcurrent[current]
  OBVIOUS
<1>2. PICK release \in BOOLEAN : Serve(release)
  BY DEF FqRecv
<1>3. /\ p \in Pipe /\ k \in Slot /\ priority[p] = k /\ Listed(p)
      /\ \A q : Listed(q)' <=> Listed(q) /\ ~(release /\ q = p)
  BY <1>1, <1>2, ServeListed DEF FqInv
<1> DEFINE rest == IF release THEN Erase(pipes[k], p) ELSE pipes[k]
<1>4. /\ pipes' = [pipes EXCEPT ![k] = rest]
      /\ slotcurrent' = [slotcurrent EXCEPT ![k] = NextItem(pipes[k], p, rest)]
      /\ picked' = p
  BY <1>1, <1>2 DEF Serve, Advance
<1>5. Contains(pipes[k], p)
  BY <1>3, ListedFacts DEF FqInv
<1>6. /\ pipes'[k] = rest /\ slotcurrent'[k] = NextItem(pipes[k], p, rest)
      /\ \A j \in Slot : j # k => pipes'[j] = pipes[j] /\ slotcurrent'[j] = slotcurrent[j]
  BY <1>3, <1>4, SlotSound
<1>7. SUFFICES ASSUME NEW q \in Pipe, NEW r \in Pipe, <<q, r>> \in passed'
               PROVE  \E j \in Slot : Before(pipes'[j], slotcurrent'[j], q, r)
  BY DEF TurnsKept
<1>8. /\ Listed(q)' /\ Listed(r)' /\ q # p
      /\ \/ <<q, r>> \in passed
         \/ r = p /\ Listed(q) /\ priority[q] = priority[p]
  BY <1>1, <1>7 DEF FqRecv, Waiting
<1>9. CASE <<q, r>> \in passed
  <2>1. r # p
    BY <1>4, <1>9, InTurn
  <2>2. PICK j \in Slot : Before(pipes[j], slotcurrent[j], q, r)
    BY <1>9 DEF TurnsKept
  <2>3. CASE j # k
    BY <1>6, <2>2, <2>3
  <2>4. CASE j = k
    <3>1. slotcurrent[k] = p
      BY <1>1
    <3>2. CASE release
      <4>1. Before(Erase(pipes[k], p), NextItem(pipes[k], p, Erase(pipes[k], p)), q, r)
        BY <1>3, <1>5, <1>8, <2>1, <2>2, <2>4, <3>1, SlotSound, TurnsAfterCurrentErased
      <4> QED
        BY <1>3, <1>6, <3>2, <4>1
    <3>3. CASE ~release
      <4>1. Before(pipes[k], NextItem(pipes[k], p, pipes[k]), q, r)
        BY <1>3, <1>5, <1>8, <2>2, <2>4, <3>1, SlotSound, TurnsAfterMove
      <4> QED
        BY <1>3, <1>6, <3>3, <4>1
    <3> QED
      BY <3>2, <3>3
  <2> QED
    BY <2>3, <2>4
<1>10. CASE r = p /\ Listed(q) /\ priority[q] = priority[p]
  <2>1. ~release
    BY <1>3, <1>8, <1>10
  <2>2. Contains(pipes[k], q)
    BY <1>3, <1>10, ListedFacts DEF FqInv
  <2> QED
    BY <1>3, <1>5, <1>6, <1>8, <1>10, <2>1, <2>2, SlotSound, TurnsAfterMove
<1> QED
  BY <1>8, <1>9, <1>10

\* Every step keeps the turns.
LEMMA NextTurns == FqInv /\ TurnsKept /\ [FqNext]_fqvars => TurnsKept'
<1> SUFFICES ASSUME FqInv, TurnsKept, [FqNext]_fqvars PROVE TurnsKept'
  OBVIOUS
<1>1. ASSUME NEW p \in Pipe, PipeStart(p) \/ SentMore(p) PROVE TurnsKept'
  BY <1>1, SameTurns DEF PipeStart, SentMore, Add, Waiting, vars
<1>2. ASSUME NEW p \in Pipe, PipeStop(p) PROVE TurnsKept'
  <2>1. CASE RmInactive(p)
    BY <1>2, <2>1, SameTurns DEF PipeStop, RmInactive, Waiting
  <2>2. CASE RmActive(p)
    BY <1>2, <2>2, RmActiveTurns DEF PipeStop
  <2> QED
    BY <1>2, <2>1, <2>2 DEF PipeStop
<1>3. ASSUME NEW p \in Pipe, SentFirst(p) PROVE TurnsKept'
  BY <1>3, SentFirstTurns
<1>4. CASE FqRecv
  BY <1>4, FqRecvTurns
<1>5. CASE FqRecvNone \/ UNCHANGED fqvars
  BY <1>5, SameTurns DEF FqRecvNone, ServeNone, fqvars, vars
<1> QED
  BY <1>1, <1>2, <1>3, <1>4, <1>5 DEF FqNext

\* Round robin among the pipes that stay readable (NoSecondTurn), for any pipes,
\* priorities and queue sizes: no pipe is served a second time before every pipe
\* of its priority that waited all along was served (nn_priolist_advance).
THEOREM FqTurns == FqSpec => NoSecondTurn
<1>1. FqInit => TurnsKept
  BY DEF FqInit, TurnsKept
<1>2. FqInv /\ TurnsKept /\ FqRecv => \A p \in Pipe : <<p, picked'>> \notin passed
  BY InTurn
<1> QED
  BY FqInitInv, FqNextInv, <1>1, NextTurns, <1>2, PTL DEF FqSpec, NoSecondTurn
=============================================================================
