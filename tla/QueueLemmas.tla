---------------------------- MODULE QueueLemmas ----------------------------
(* Facts about queues of threads (sequences without repetition) that the   *)
(* proofs about the ready lists and the wait queues share, and induction   *)
(* over a set of numbers for what the code computes in loops.              *)
EXTENDS Integers, Sequences, Functions, SequenceTheorems, WellFoundedInduction, TLAPS

\* A set of numbers that is not empty has a least one.
LEMMA LeastNumber ==
    ASSUME NEW S, S \subseteq Nat, S # {}
    PROVE  \E x \in S : \A y \in S : ~(y < x)
<1>1. PICK x \in S : \A y \in S : <<y, x>> \notin OpToRel(<, Nat)
    BY WFMin, NatLessThanWellFounded, Zenon
<1> QED BY <1>1, Zenon DEF OpToRel

\* Induction: a set that has 0, and with a number the next, has all of them.
LEMMA AllNumbers ==
    ASSUME NEW S, 0 \in S, \A n \in Nat : n \in S => n + 1 \in S
    PROVE  Nat \subseteq S
<1> SUFFICES ASSUME Nat \ S # {} PROVE FALSE OBVIOUS
<1>1. PICK x \in Nat \ S : \A y \in Nat \ S : ~(y < x)  BY LeastNumber
<1>2. x \in Nat /\ x # 0 /\ x - 1 \in Nat  BY <1>1
<1>3. x - 1 \in S  BY <1>1, <1>2
<1> QED BY <1>1, <1>2, <1>3

\* Appending an element (enqueue_level0_thread, enqueue_wt) adds it to the
\* queue's elements, and repeats none if it was not queued.
LEMMA AppendQueue ==
    ASSUME NEW S, NEW q \in Seq(S), NEW x \in S
    PROVE  /\ Append(q, x) \in Seq(S)
           /\ Range(Append(q, x)) = Range(q) \cup {x}
           /\ IsInjective(q) /\ x \notin Range(q) => IsInjective(Append(q, x))
<1> DEFINE r == Append(q, x)
<1>1. /\ r \in Seq(S)
      /\ Len(r) = Len(q) + 1
      /\ \A i \in 1 .. Len(q) : r[i] = q[i]
      /\ r[Len(q) + 1] = x
    BY AppendProperties
<1>2. /\ DOMAIN q = 1 .. Len(q)
      /\ DOMAIN r = 1 .. Len(q) + 1
      /\ Len(q) \in Nat
    BY <1>1, LenProperties
<1> HIDE DEF r
<1>3. Range(r) = Range(q) \cup {x}
    <2>1. ASSUME NEW y \in Range(r) PROVE y \in Range(q) \cup {x}
        <3>1. PICK i \in 1 .. Len(q) + 1 : y = r[i]  BY <1>2, <2>1 DEF Range
        <3>2. CASE i = Len(q) + 1  BY <3>1, <3>2, <1>1
        <3>3. CASE i \in 1 .. Len(q)  BY <3>1, <3>3, <1>1, <1>2 DEF Range
        <3> QED BY <3>2, <3>3, <1>2
    <2>2. ASSUME NEW y \in Range(q) PROVE y \in Range(r)
        <3>1. PICK i \in 1 .. Len(q) : y = q[i]  BY <1>2, <2>2 DEF Range
        <3> QED BY <3>1, <1>1, <1>2 DEF Range
    <2>3. x \in Range(r)  BY <1>1, <1>2 DEF Range
    <2> QED BY <2>1, <2>2, <2>3
<1>4. ASSUME IsInjective(q), x \notin Range(q) PROVE IsInjective(r)
    <2>1. \A i \in 1 .. Len(q) : q[i] # x  BY <1>4, <1>2 DEF Range
    <2>2. \A i, j \in 1 .. Len(q) : q[i] = q[j] => i = j  BY <1>4, <1>2 DEF IsInjective
    <2>3. \A i, j \in 1 .. Len(q) + 1 : r[i] = r[j] => i = j  BY <2>1, <2>2, <1>1, <1>2
    <2> QED BY <2>3, <1>2 DEF IsInjective
<1> QED BY <1>1, <1>3, <1>4 DEF r

\* Taking the head off (dequeue_level0_thread, dequeue_wt) removes exactly
\* that element.
LEMMA TailQueue ==
    ASSUME NEW S, NEW q \in Seq(S), q # <<>>, IsInjective(q)
    PROVE  /\ Tail(q) \in Seq(S)
           /\ Head(q) \in S
           /\ Head(q) \in Range(q)
           /\ Range(Tail(q)) = Range(q) \ {Head(q)}
           /\ IsInjective(Tail(q))
<1> DEFINE r == Tail(q)
<1>1. /\ r \in Seq(S)
      /\ Head(q) \in S
      /\ Len(r) = Len(q) - 1
      /\ \A i \in 1 .. Len(q) - 1 : r[i] = q[i + 1]
      /\ Head(q) = q[1]
    BY HeadTailProperties
<1>2. /\ DOMAIN q = 1 .. Len(q)
      /\ DOMAIN r = 1 .. Len(q) - 1
      /\ Len(q) \in Nat \ {0}
    BY <1>1, LenProperties, EmptySeq
<1> HIDE DEF r
<1>3. \A i, j \in 1 .. Len(q) : q[i] = q[j] => i = j  BY <1>2 DEF IsInjective
<1>4. q[1] \in Range(q)  BY <1>2 DEF Range
<1>5. ASSUME NEW y \in Range(r) PROVE y \in Range(q) \ {q[1]}
    <2>1. PICK i \in 1 .. Len(q) - 1 : y = r[i]  BY <1>2, <1>5 DEF Range
    <2>2. i + 1 \in 1 .. Len(q) /\ y = q[i + 1] /\ i + 1 # 1  BY <2>1, <1>1, <1>2
    <2> QED BY <2>2, <1>2, <1>3 DEF Range
<1>6. ASSUME NEW y \in Range(q), y # q[1] PROVE y \in Range(r)
    <2>1. PICK i \in 1 .. Len(q) : y = q[i]  BY <1>2, <1>6 DEF Range
    <2>2. i - 1 \in 1 .. Len(q) - 1  BY <2>1, <1>6, <1>2
    <2>3. y = r[i - 1]  BY <2>1, <2>2, <1>1, <1>2
    <2> QED BY <2>2, <2>3, <1>2 DEF Range
<1>7. IsInjective(r)
    <2>1. \A i, j \in 1 .. Len(q) - 1 : r[i] = r[j] => i = j  BY <1>1, <1>2, <1>3
    <2> QED BY <2>1, <1>2 DEF IsInjective
<1> QED BY <1>1, <1>4, <1>5, <1>6, <1>7 DEF r

\* The empty queue.
LEMMA EmptyQueue == Range(<<>>) = {} /\ IsInjective(<<>>)
BY DEF Range, IsInjective
---------------------------------------------------------------------------
(* First come, first served: what a queue keeps of an older one.           *)

\* new is old without its first k elements, with others behind.
KeepsOrder(new, old, k) ==
    /\ Len(old) - k \in 0 .. Len(new)
    /\ \A i \in 1 .. Len(old) - k : new[i] = old[i + k]

\* A queue keeps its own order.
LEMMA SameOrder ==
    ASSUME NEW S, NEW q \in Seq(S)
    PROVE  KeepsOrder(q, q, 0)
BY LenProperties DEF KeepsOrder

\* Appending (enqueue_level0_thread) overtakes nobody.
LEMMA AppendKeepsOrder ==
    ASSUME NEW S, NEW q \in Seq(S), NEW old \in Seq(S), NEW x \in S, KeepsOrder(q, old, 0)
    PROVE  KeepsOrder(Append(q, x), old, 0)
<1>1. /\ Len(Append(q, x)) = Len(q) + 1
      /\ \A i \in 1 .. Len(q) : Append(q, x)[i] = q[i]
    BY AppendProperties
<1>2. Len(q) \in Nat /\ Len(old) \in Nat  BY LenProperties
<1> QED BY <1>1, <1>2 DEF KeepsOrder

\* Taking the head (dequeue_level0_thread) takes out whoever came first.
LEMMA TailKeepsOrder ==
    ASSUME NEW S, NEW q \in Seq(S), NEW old \in Seq(S), q # <<>>, KeepsOrder(q, old, 0)
    PROVE  \E k \in {0, 1} : KeepsOrder(Tail(q), old, k)
<1>1. /\ Len(Tail(q)) = Len(q) - 1
      /\ \A i \in 1 .. Len(q) - 1 : Tail(q)[i] = q[i + 1]
    BY HeadTailProperties
<1>2. Len(q) \in Nat \ {0} /\ Len(old) \in Nat  BY LenProperties, EmptySeq
<1>3. CASE Len(old) = 0  BY <1>1, <1>2, <1>3 DEF KeepsOrder
<1>4. CASE Len(old) > 0
    <2>1. Len(old) - 1 \in 0 .. Len(Tail(q))  BY <1>1, <1>2, <1>4 DEF KeepsOrder
    <2>2. \A i \in 1 .. Len(old) - 1 : Tail(q)[i] = old[i + 1]
        BY <1>1, <1>2, <1>4 DEF KeepsOrder
    <2> QED BY <2>1, <2>2 DEF KeepsOrder
<1> QED BY <1>2, <1>3, <1>4

\* The same in terms of subsequences.
LEMMA KeepsOrderSubSeq ==
    ASSUME NEW S, NEW new \in Seq(S), NEW old \in Seq(S), NEW k \in {0, 1},
           KeepsOrder(new, old, k)
    PROVE  SubSeq(new, 1, Len(old) - k) = SubSeq(old, k + 1, Len(old))
<1> DEFINE n == Len(old) - k
           a == SubSeq(new, 1, n)
           b == SubSeq(old, k + 1, Len(old))
<1>1. /\ Len(new) \in Nat /\ Len(old) \in Nat /\ n \in 0 .. Len(new) /\ n \in Nat
      /\ \A i \in 1 .. n : new[i] = old[i + k]
    BY LenProperties DEF KeepsOrder
<1>2. \A i \in 1 .. n : new[i] \in S  BY <1>1, ElementOfSeq
<1>3. \A i \in k + 1 .. Len(old) : old[i] \in S  BY <1>1, ElementOfSeq
<1>4. a \in Seq(S) /\ Len(a) = n /\ \A i \in 1 .. n : a[i] = new[i]
    BY <1>1, <1>2, SubSeqProperties
<1>5. b \in Seq(S) /\ Len(b) = n /\ \A i \in 1 .. n : b[i] = old[i + k]
    <2>1. /\ b \in Seq(S)
          /\ Len(b) = IF k + 1 <= Len(old) THEN Len(old) - (k + 1) + 1 ELSE 0
          /\ \A i \in 1 .. Len(old) - (k + 1) + 1 : b[i] = old[k + 1 + i - 1]
        BY <1>1, <1>3, SubSeqProperties
    <2> QED BY <1>1, <2>1
<1> HIDE DEF a, b, n
<1>6. \A i \in 1 .. Len(a) : a[i] = b[i]  BY <1>1, <1>4, <1>5
<1> QED BY <1>4, <1>5, <1>6, SeqEqual DEF a, b, n
=============================================================================
