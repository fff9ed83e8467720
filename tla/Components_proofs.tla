-------------------------- MODULE Components_proofs --------------------------
(* Proofs about components that stand for themselves.  The segments of the   *)
(* kernel heap describe its memory and what its callers hold, for every size *)
(* of the header, the units, the heap and the areas it grows by; what malloc *)
(* gives to two callers in a module shares no memory, for every heap and all *)
(* requests, until a remainder overruns another chunk; a file loaded from    *)
(* the boot disk is the file, for every disk, as long as files lie in the    *)
(* order they are loaded; every key without a prefix is read as that key,    *)
(* however keys are held and repeated; the entries into the kernel leave no  *)
(* trace but what they are for, whatever threads there are, however far they *)
(* come, and on all lines but 8; the lists of the threads of the tasks hold  *)
(* them, for any tasks and any number of threads; and the ring of bytes of a *)
(* mailbox is the queue of messages that MailQueue promises, whatever        *)
(* messages there are, however long, and however long the buffer is.         *)
EXTENDS KHeap, MallocHeap, Fat32, KeyParser, Interrupts, ThreadList, MailRing, QueueLemmas,
        FiniteSetTheorems
---------------------------------------------------------------------------
(* The kernel heap. *)

\* t is s with its element i replaced by the elements of c.
Replaced(S, s, i, c, t) ==
    /\ t \in Seq(S) /\ Len(t) = Len(s) - 1 + Len(c)
    /\ \A j \in 1 .. i - 1 : t[j] = s[j]
    /\ \A j \in 1 .. Len(c) : t[i - 1 + j] = c[j]
    /\ \A j \in i + 1 .. Len(s) : t[j - 1 + Len(c)] = s[j]

LEMMA Spliced ==
    ASSUME NEW S, NEW s \in Seq(S), NEW c \in Seq(S), NEW i \in 1 .. Len(s), NEW t,
           t = SubSeq(s, 1, i - 1) \o c \o SubSeq(s, i + 1, Len(s))
    PROVE  Replaced(S, s, i, c, t)
<1> DEFINE a == SubSeq(s, 1, i - 1)
           b == SubSeq(s, i + 1, Len(s))
<1>1. /\ Len(s) \in Nat /\ Len(c) \in Nat /\ i \in Nat BY LenProperties
<1>2. a \in Seq(S) /\ Len(a) = i - 1 /\ \A j \in 1 .. i - 1 : a[j] = s[j]
  <2>1. \A j \in 1 .. i - 1 : s[j] \in S BY <1>1, ElementOfSeq
  <2> QED BY <1>1, <2>1, SubSeqProperties
<1>3. b \in Seq(S) /\ Len(b) = Len(s) - i /\ \A j \in 1 .. Len(s) - i : b[j] = s[i + j]
  <2>1. \A j \in i + 1 .. Len(s) : s[j] \in S BY <1>1, ElementOfSeq
  <2>2. /\ b \in Seq(S) /\ Len(b) = IF i + 1 <= Len(s) THEN Len(s) - (i + 1) + 1 ELSE 0
        /\ \A j \in 1 .. Len(s) - (i + 1) + 1 : b[j] = s[i + 1 + j - 1]
    BY <1>1, <2>1, SubSeqProperties
  <2>3. Len(b) = Len(s) - i BY <1>1, <2>2
  <2>4. ASSUME NEW j \in 1 .. Len(s) - i PROVE b[j] = s[i + j]
    <3>1. j \in 1 .. Len(s) - (i + 1) + 1 /\ i + 1 + j - 1 = i + j BY <1>1
    <3> QED BY <2>2, <3>1
  <2> QED BY <2>2, <2>3, <2>4
<1>4. t = (a \o c) \o b OBVIOUS
<1> HIDE DEF a, b
<1>5. /\ a \o c \in Seq(S) /\ Len(a \o c) = i - 1 + Len(c)
      /\ \A j \in 1 .. i - 1 + Len(c) : (a \o c)[j] = IF j <= i - 1 THEN a[j] ELSE c[j - (i - 1)]
  <2>1. /\ a \o c \in Seq(S) /\ Len(a \o c) = Len(a) + Len(c)
        /\ \A j \in 1 .. Len(a) + Len(c) :
               (a \o c)[j] = IF j <= Len(a) THEN a[j] ELSE c[j - Len(a)]
    BY <1>2, ConcatProperties
  <2> QED BY <1>2, <2>1
<1> DEFINE d == a \o c
<1> HIDE DEF d
<1>6. /\ t \in Seq(S) /\ Len(t) = (i - 1 + Len(c)) + (Len(s) - i)
      /\ \A j \in 1 .. (i - 1 + Len(c)) + (Len(s) - i) :
             t[j] = IF j <= i - 1 + Len(c) THEN (a \o c)[j] ELSE b[j - (i - 1 + Len(c))]
  <2>1. d \in Seq(S) /\ Len(d) = i - 1 + Len(c) /\ t = d \o b BY <1>4, <1>5 DEF d
  <2>2. /\ d \o b \in Seq(S) /\ Len(d \o b) = Len(d) + Len(b)
        /\ \A j \in 1 .. Len(d) + Len(b) :
               (d \o b)[j] = IF j <= Len(d) THEN d[j] ELSE b[j - Len(d)]
    <3>1. d \in Seq(S) /\ b \in Seq(S) BY <1>3, <2>1
    <3> QED BY <3>1, ConcatProperties
  <2>3. /\ t \in Seq(S) /\ Len(t) = (i - 1 + Len(c)) + (Len(s) - i)
        /\ \A j \in 1 .. (i - 1 + Len(c)) + (Len(s) - i) :
               t[j] = IF j <= i - 1 + Len(c) THEN d[j] ELSE b[j - (i - 1 + Len(c))]
    BY <1>3, <2>1, <2>2
  <2> QED BY <2>3 DEF d
<1>7. Len(t) = Len(s) - 1 + Len(c)
  <2>1. (i - 1 + Len(c)) + (Len(s) - i) = Len(s) - 1 + Len(c) BY <1>1
  <2> QED BY <1>6, <2>1
<1>8. ASSUME NEW j \in 1 .. i - 1 PROVE t[j] = s[j]
  <2>1. /\ j \in 1 .. i - 1 + Len(c) /\ j <= i - 1 + Len(c) /\ j <= i - 1
        /\ j \in 1 .. (i - 1 + Len(c)) + (Len(s) - i)
    BY <1>1
  <2>2. t[j] = (a \o c)[j] BY <1>6, <2>1
  <2>3. (a \o c)[j] = a[j] BY <1>5, <2>1
  <2> QED BY <1>2, <2>2, <2>3
<1>9. ASSUME NEW j \in 1 .. Len(c) PROVE t[i - 1 + j] = c[j]
  <2> DEFINE n == i - 1 + j
  <2>1. /\ n \in 1 .. i - 1 + Len(c) /\ n <= i - 1 + Len(c) /\ ~(n <= i - 1)
        /\ n \in 1 .. (i - 1 + Len(c)) + (Len(s) - i) /\ n - (i - 1) = j
    BY <1>1
  <2> HIDE DEF n
  <2>2. t[n] = (a \o c)[n] BY <1>6, <2>1
  <2>3. (a \o c)[n] = c[n - (i - 1)] BY <1>5, <2>1
  <2> QED BY <2>1, <2>2, <2>3 DEF n
<1>10. ASSUME NEW j \in i + 1 .. Len(s) PROVE t[j - 1 + Len(c)] = s[j]
  <2> DEFINE n == j - 1 + Len(c)
             k == j - i
  <2>1. /\ n \in 1 .. (i - 1 + Len(c)) + (Len(s) - i) /\ ~(n <= i - 1 + Len(c))
        /\ n - (i - 1 + Len(c)) = k /\ k \in 1 .. Len(s) - i /\ i + k = j
    BY <1>1
  <2> HIDE DEF n, k
  <2>2. t[n] = b[n - (i - 1 + Len(c))] BY <1>6, <2>1
  <2>3. t[n] = b[k] BY <2>1, <2>2
  <2>4. b[k] = s[i + k] BY <1>3, <2>1
  <2> QED BY <2>1, <2>3, <2>4 DEF n
<1> QED BY <1>6, <1>7, <1>8, <1>9, <1>10 DEF Replaced

\* One element of a sequence taken out.
LEMMA Removed ==
    ASSUME NEW S, NEW s \in Seq(S), NEW i \in 1 .. Len(s)
    PROVE  /\ RemoveAt(s, i) \in Seq(S) /\ Len(RemoveAt(s, i)) = Len(s) - 1
           /\ \A j \in 1 .. i - 1 : RemoveAt(s, i)[j] = s[j]
           /\ \A j \in i + 1 .. Len(s) : RemoveAt(s, i)[j - 1] = s[j]
<1> DEFINE a == SubSeq(s, 1, i - 1)
           b == SubSeq(s, i + 1, Len(s))
<1>1. Len(s) \in Nat /\ i \in Nat BY LenProperties
<1>2. a \in Seq(S)
  <2>1. \A j \in 1 .. i - 1 : s[j] \in S BY <1>1, ElementOfSeq
  <2> QED BY <1>1, <2>1, SubSeqProperties
<1> DEFINE t == RemoveAt(s, i)
           none == SubSeq(s, 1, 0)
<1>3. none = <<>> /\ none \in Seq(S) /\ Len(none) = 0
  <2>1. \A j \in 1 .. 0 : s[j] \in S OBVIOUS
  <2>2. none \in Seq(S) /\ Len(none) = 0 BY <2>1, SubSeqProperties
  <2> QED BY <2>2, EmptySeq
<1>4. t = a \o none \o b
  <2>1. a \o <<>> = a BY <1>2, ConcatEmptySeq
  <2>2. a \o none = a BY <1>3, <2>1
  <2> HIDE DEF none
  <2> QED BY <2>2 DEF RemoveAt
<1> HIDE DEF t, none
<1>5. /\ t \in Seq(S) /\ Len(t) = Len(s) - 1 + 0 /\ \A j \in 1 .. i - 1 : t[j] = s[j]
      /\ \A j \in i + 1 .. Len(s) : t[j - 1 + 0] = s[j]
  <2>1. none \in Seq(S) /\ t = SubSeq(s, 1, i - 1) \o none \o SubSeq(s, i + 1, Len(s)) BY <1>3, <1>4
  <2>2. Replaced(S, s, i, none, t) BY <2>1, Spliced
  <2> QED BY <1>3, <2>2 DEF Replaced
<1>6. ASSUME NEW j \in i + 1 .. Len(s) PROVE t[j - 1] = s[j]
  <2>1. j - 1 + 0 = j - 1 BY <1>1
  <2> QED BY <1>5, <2>1
<1>7. Len(t) = Len(s) - 1 BY <1>1, <1>5
<1> QED BY <1>5, <1>6, <1>7 DEF t
---------------------------------------------------------------------------
(* Lists of segments. *)

LEMMA SegmentIs ==
    ASSUME NEW list \in Seq(Segment), NEW i \in 1 .. Len(list)
    PROVE  /\ list[i] \in Segment /\ list[i].at \in Nat /\ list[i].size \in Nat \ {0}
           /\ SegEnd(list[i]) \in Nat /\ list[i].at < SegEnd(list[i])
           /\ SegEnd(list[i]) = list[i].at + list[i].size
<1>1. list[i] \in Segment BY ElementOfSeq
<1> QED BY <1>1 DEF Segment, SegEnd

SegsApart(list) ==
    \A i, j \in 1 .. Len(list) :
        i # j => SegEnd(list[i]) <= list[j].at \/ SegEnd(list[j]) <= list[i].at

Covers(list, u) == \E i \in 1 .. Len(list) : list[i].at <= u /\ u < SegEnd(list[i])

UsedIn(list) == {list[i] : i \in {j \in 1 .. Len(list) : list[j].used}}

\* long is short with the segment i cut in two.
IsCut(short, long, i) ==
    /\ short \in Seq(Segment) /\ long \in Seq(Segment)
    /\ Len(long) = Len(short) + 1 /\ i \in 1 .. Len(short)
    /\ \A j \in 1 .. i - 1 : long[j] = short[j]
    /\ \A j \in i + 1 .. Len(short) : long[j + 1] = short[j]
    /\ long[i].at = short[i].at /\ long[i + 1].at = SegEnd(long[i])
    /\ SegEnd(long[i + 1]) = SegEnd(short[i])

\* Segment j of long is, or is part of, segment k of short.
ComesFrom(short, long, i, j, k) ==
    /\ short[k].at <= long[j].at /\ SegEnd(long[j]) <= SegEnd(short[k])
    /\ \/ j < i /\ k = j /\ long[j] = short[k]
       \/ j \in {i, i + 1} /\ k = i
       \/ j > i + 1 /\ k = j - 1 /\ long[j] = short[k]

LEMMA CutFrom ==
    ASSUME NEW short, NEW long, NEW i, IsCut(short, long, i), NEW j \in 1 .. Len(long)
    PROVE  \E k \in 1 .. Len(short) : ComesFrom(short, long, i, j, k)
<1> USE DEF ComesFrom
<1>1. /\ short \in Seq(Segment) /\ long \in Seq(Segment) /\ Len(short) \in Nat
      /\ Len(long) = Len(short) + 1 /\ i \in 1 .. Len(short) /\ i + 1 \in 1 .. Len(long)
      /\ i \in 1 .. Len(long)
  BY LenProperties DEF IsCut
<1>2. CASE j < i
  <2>1. long[j] = short[j] /\ j \in 1 .. Len(short) BY <1>1, <1>2 DEF IsCut
  <2>2. short[j].at \in Nat /\ SegEnd(short[j]) \in Nat BY <1>1, <2>1, SegmentIs
  <2> QED BY <1>2, <2>1, <2>2
<1>3. CASE j > i + 1
  <2>1. j - 1 \in i + 1 .. Len(short) /\ (j - 1) + 1 = j BY <1>1, <1>3
  <2>2. long[j] = short[j - 1] /\ j - 1 \in 1 .. Len(short) BY <1>1, <2>1 DEF IsCut
  <2>3. short[j - 1].at \in Nat /\ SegEnd(short[j - 1]) \in Nat BY <1>1, <2>2, SegmentIs
  <2> QED BY <1>3, <2>2, <2>3
<1>4. CASE j \in {i, i + 1}
  <2>1. /\ long[i].at \in Nat /\ SegEnd(long[i]) \in Nat /\ long[i].at < SegEnd(long[i])
        /\ long[i + 1].at \in Nat /\ SegEnd(long[i + 1]) \in Nat
        /\ long[i + 1].at < SegEnd(long[i + 1])
    BY <1>1, SegmentIs
  <2>2. /\ long[i].at = short[i].at /\ long[i + 1].at = SegEnd(long[i])
        /\ SegEnd(long[i + 1]) = SegEnd(short[i])
    BY DEF IsCut
  <2>3. short[i].at <= long[j].at /\ SegEnd(long[j]) <= SegEnd(short[i]) BY <1>4, <2>1, <2>2
  <2> QED BY <1>1, <1>4, <2>3
<1>5. j < i \/ j > i + 1 \/ j \in {i, i + 1} BY <1>1
<1> QED BY <1>2, <1>3, <1>4, <1>5

\* Where a segment of short has gone.
LEMMA CutTo ==
    ASSUME NEW short, NEW long, NEW i, IsCut(short, long, i), NEW k \in 1 .. Len(short), k # i
    PROVE  LET j == IF k < i THEN k ELSE k + 1
           IN  j \in 1 .. Len(long) /\ j \notin {i, i + 1} /\ long[j] = short[k]
<1>1. /\ short \in Seq(Segment) /\ Len(short) \in Nat /\ Len(long) = Len(short) + 1
      /\ i \in 1 .. Len(short)
  BY LenProperties DEF IsCut
<1>2. CASE k < i BY <1>1, <1>2 DEF IsCut
<1>3. CASE k > i
  <2>1. k \in i + 1 .. Len(short) BY <1>1, <1>3
  <2>2. long[k + 1] = short[k] BY <2>1 DEF IsCut
  <2> QED BY <1>1, <1>3, <2>2
<1> QED BY <1>1, <1>2, <1>3

LEMMA CutCovers ==
    ASSUME NEW short, NEW long, NEW i, IsCut(short, long, i), NEW u \in Nat
    PROVE  Covers(short, u) <=> Covers(long, u)
<1>1. /\ short \in Seq(Segment) /\ long \in Seq(Segment) /\ Len(short) \in Nat
      /\ Len(long) = Len(short) + 1 /\ i \in 1 .. Len(short) /\ i + 1 \in 1 .. Len(long)
      /\ i \in 1 .. Len(long)
  BY LenProperties DEF IsCut
<1>2. ASSUME Covers(long, u) PROVE Covers(short, u)
  <2>1. PICK j \in 1 .. Len(long) : long[j].at <= u /\ u < SegEnd(long[j]) BY <1>2 DEF Covers
  <2>2. PICK k \in 1 .. Len(short) : ComesFrom(short, long, i, j, k) BY CutFrom
  <2>3. /\ short[k].at \in Nat /\ SegEnd(short[k]) \in Nat
        /\ long[j].at \in Nat /\ SegEnd(long[j]) \in Nat
    BY <1>1, SegmentIs
  <2>4. short[k].at <= u /\ u < SegEnd(short[k]) BY <2>1, <2>2, <2>3 DEF ComesFrom
  <2> QED BY <2>4 DEF Covers
<1>3. ASSUME Covers(short, u) PROVE Covers(long, u)
  <2>1. PICK k \in 1 .. Len(short) : short[k].at <= u /\ u < SegEnd(short[k]) BY <1>3 DEF Covers
  <2>2. CASE k # i BY <2>1, <2>2, CutTo DEF Covers
  <2>3. CASE k = i
    <3>1. /\ long[i].at = short[i].at /\ long[i + 1].at = SegEnd(long[i])
          /\ SegEnd(long[i + 1]) = SegEnd(short[i])
      BY DEF IsCut
    <3>2. SegEnd(long[i]) \in Nat BY <1>1, SegmentIs
    <3>3. CASE u < SegEnd(long[i]) BY <1>1, <2>1, <2>3, <3>1, <3>3 DEF Covers
    <3>4. CASE SegEnd(long[i]) <= u BY <1>1, <2>1, <2>3, <3>1, <3>4 DEF Covers
    <3> QED BY <3>2, <3>3, <3>4
  <2> QED BY <2>2, <2>3
<1> QED BY <1>2, <1>3

LEMMA CutApart ==
    ASSUME NEW short, NEW long, NEW i, IsCut(short, long, i)
    PROVE  SegsApart(short) <=> SegsApart(long)
<1>1. /\ short \in Seq(Segment) /\ long \in Seq(Segment) /\ Len(short) \in Nat
      /\ Len(long) = Len(short) + 1 /\ i \in 1 .. Len(short) /\ i + 1 \in 1 .. Len(long)
      /\ i \in 1 .. Len(long)
  BY LenProperties DEF IsCut
<1>2. /\ long[i].at = short[i].at /\ long[i + 1].at = SegEnd(long[i])
      /\ SegEnd(long[i + 1]) = SegEnd(short[i])
  BY DEF IsCut
<1>3. /\ long[i].at \in Nat /\ SegEnd(long[i]) \in Nat /\ long[i].at < SegEnd(long[i])
      /\ long[i + 1].at \in Nat /\ SegEnd(long[i + 1]) \in Nat
      /\ long[i + 1].at < SegEnd(long[i + 1])
  BY <1>1, SegmentIs
<1>4. ASSUME SegsApart(short), NEW j \in 1 .. Len(long), NEW h \in 1 .. Len(long), j # h
      PROVE  SegEnd(long[j]) <= long[h].at \/ SegEnd(long[h]) <= long[j].at
  <2>1. PICK k \in 1 .. Len(short) : ComesFrom(short, long, i, j, k) BY CutFrom
  <2>2. PICK m \in 1 .. Len(short) : ComesFrom(short, long, i, h, m) BY CutFrom
  <2>3. CASE k = m
    <3>1. j \in {i, i + 1} /\ h \in {i, i + 1} BY <1>1, <1>4, <2>1, <2>2, <2>3 DEF ComesFrom
    <3> QED BY <1>2, <1>3, <1>4, <3>1
  <2>4. CASE k # m
    <3>1. SegEnd(short[k]) <= short[m].at \/ SegEnd(short[m]) <= short[k].at
      BY <1>4, <2>4 DEF SegsApart
    <3>2. /\ short[k].at \in Nat /\ SegEnd(short[k]) \in Nat /\ short[m].at \in Nat
          /\ SegEnd(short[m]) \in Nat /\ long[j].at \in Nat /\ SegEnd(long[j]) \in Nat
          /\ long[h].at \in Nat /\ SegEnd(long[h]) \in Nat
      BY <1>1, SegmentIs
    <3>3. /\ short[k].at <= long[j].at /\ SegEnd(long[j]) <= SegEnd(short[k])
          /\ short[m].at <= long[h].at /\ SegEnd(long[h]) <= SegEnd(short[m])
      BY <2>1, <2>2 DEF ComesFrom
    <3>4. \A a, b, c, d \in Nat : a <= b /\ b <= c /\ c <= d => a <= d OBVIOUS
    <3>5. CASE SegEnd(short[k]) <= short[m].at
      <4>1. SegEnd(long[j]) <= long[h].at BY <3>2, <3>3, <3>4, <3>5
      <4> QED BY <4>1
    <3>6. CASE SegEnd(short[m]) <= short[k].at
      <4>1. SegEnd(long[h]) <= long[j].at BY <3>2, <3>3, <3>4, <3>6
      <4> QED BY <4>1
    <3> QED BY <3>1, <3>5, <3>6
  <2> QED BY <2>3, <2>4
<1>5. ASSUME SegsApart(long), NEW k \in 1 .. Len(short), k # i
      PROVE  SegEnd(short[k]) <= short[i].at \/ SegEnd(short[i]) <= short[k].at
  <2>1. PICK j \in 1 .. Len(long) : j \notin {i, i + 1} /\ long[j] = short[k] BY <1>5, CutTo
  <2>2. SegEnd(long[j]) <= long[i].at \/ SegEnd(long[i]) <= long[j].at
    BY <1>1, <1>5, <2>1 DEF SegsApart
  <2>3. SegEnd(long[j]) <= long[i + 1].at \/ SegEnd(long[i + 1]) <= long[j].at
    BY <1>1, <1>5, <2>1 DEF SegsApart
  <2>4. long[j].at \in Nat /\ SegEnd(long[j]) \in Nat /\ long[j].at < SegEnd(long[j])
    BY <1>1, SegmentIs
  <2>5. SegEnd(long[j]) <= long[i].at \/ SegEnd(long[i + 1]) <= long[j].at
    BY <1>2, <1>3, <2>2, <2>3, <2>4
  <2> QED BY <1>2, <2>1, <2>5
<1>6. ASSUME SegsApart(long), NEW k \in 1 .. Len(short), NEW m \in 1 .. Len(short), k # m
      PROVE  SegEnd(short[k]) <= short[m].at \/ SegEnd(short[m]) <= short[k].at
  <2>1. CASE k = i BY <1>1, <1>5, <1>6, <2>1
  <2>2. CASE m = i BY <1>1, <1>5, <1>6, <2>2
  <2>3. CASE k # i /\ m # i
    <3> DEFINE j == IF k < i THEN k ELSE k + 1
               h == IF m < i THEN m ELSE m + 1
    <3>1. j \in 1 .. Len(long) /\ long[j] = short[k] BY <2>3, CutTo
    <3>2. h \in 1 .. Len(long) /\ long[h] = short[m] BY <2>3, CutTo
    <3>3. j # h BY <1>1, <1>6, <2>3
    <3> HIDE DEF j, h
    <3> QED BY <1>6, <3>1, <3>2, <3>3 DEF SegsApart
  <2> QED BY <2>1, <2>2, <2>3
<1> QED BY <1>4, <1>6 DEF SegsApart

\* The half behind is free and the segment was: only the half in front can be new.
LEMMA CutUsed ==
    ASSUME NEW short, NEW long, NEW i, IsCut(short, long, i), ~short[i].used, ~long[i + 1].used
    PROVE  UsedIn(long) = UsedIn(short) \cup {s \in {long[i]} : s.used}
<1>1. /\ Len(short) \in Nat /\ Len(long) = Len(short) + 1 /\ i \in 1 .. Len(short)
      /\ i \in 1 .. Len(long)
  BY LenProperties DEF IsCut
<1>2. ASSUME NEW j \in 1 .. Len(long), long[j].used
      PROVE  long[j] \in UsedIn(short) \cup {s \in {long[i]} : s.used}
  <2>1. PICK k \in 1 .. Len(short) : ComesFrom(short, long, i, j, k) BY CutFrom
  <2>2. CASE long[j] = short[k] BY <1>2, <2>2 DEF UsedIn
  <2>3. CASE j \in {i, i + 1} BY <1>2, <2>3
  <2> QED BY <2>1, <2>2, <2>3 DEF ComesFrom
<1>3. ASSUME NEW k \in 1 .. Len(short), short[k].used PROVE short[k] \in UsedIn(long)
  <2>1. k # i BY <1>3
  <2>2. PICK j \in 1 .. Len(long) : long[j] = short[k] BY <2>1, CutTo
  <2> QED BY <1>3, <2>2 DEF UsedIn
<1>4. long[i].used => long[i] \in UsedIn(long) BY <1>1 DEF UsedIn
<1>5. UsedIn(long) \subseteq UsedIn(short) \cup {s \in {long[i]} : s.used} BY <1>2 DEF UsedIn
<1>6. UsedIn(short) \subseteq UsedIn(long) BY <1>3 DEF UsedIn
<1> QED BY <1>4, <1>5, <1>6

\* A free segment that long enough.
HasFree(list, n) == \E k \in 1 .. Len(list) : ~list[k].used /\ list[k].size >= n

\* Nothing but the neighbours at the places of S could be combined.
CoalescedBut(list, S) ==
    \A i \in 1 .. Len(list) - 1 : i \notin S => ~Combinable(list[i], list[i + 1])

\* Joined leaves the list alone or undoes a cut.
LEMMA JoinedIs ==
    ASSUME NEW list \in Seq(Segment), NEW i \in Int
    PROVE  \/ /\ Joined(list, i) = list
              /\ i \in 1 .. Len(list) - 1 => ~Combinable(list[i], list[i + 1])
           \/ /\ i \in 1 .. Len(list) - 1 /\ ~list[i].used /\ ~list[i + 1].used
              /\ IsCut(Joined(list, i), list, i) /\ ~Joined(list, i)[i].used
<1>1. CASE ~(i \in 1 .. Len(list) - 1 /\ Combinable(list[i], list[i + 1]))
  BY <1>1 DEF Joined
<1>2. CASE i \in 1 .. Len(list) - 1 /\ Combinable(list[i], list[i + 1])
  <2> DEFINE m == [list EXCEPT ![i].size = @ + list[i + 1].size]
             t == RemoveAt(m, i + 1)
  <2>1. Joined(list, i) = t BY <1>2 DEF Joined
  <2>2. /\ Len(list) \in Nat /\ i \in 1 .. Len(list) /\ i + 1 \in 1 .. Len(list)
        /\ DOMAIN list = 1 .. Len(list)
    BY <1>2, LenProperties
  <2>3. /\ list[i] \in Segment /\ list[i + 1] \in Segment
        /\ SegEnd(list[i]) = list[i].at + list[i].size
        /\ SegEnd(list[i + 1]) = list[i + 1].at + list[i + 1].size
    BY <2>2, SegmentIs
  <2>4. ~list[i].used /\ ~list[i + 1].used /\ SegEnd(list[i]) = list[i + 1].at
    BY <1>2 DEF Combinable
  <2> DEFINE x == [list[i] EXCEPT !.size = @ + list[i + 1].size]
  <2>5. m = [list EXCEPT ![i] = x] OBVIOUS
  <2>6. x \in Segment /\ x.at = list[i].at /\ x.used = list[i].used
        /\ x.size = list[i].size + list[i + 1].size
    <3>1. list[i].size + list[i + 1].size \in Nat \ {0} BY <2>2, SegmentIs
    <3> DEFINE n == list[i].size + list[i + 1].size
    <3>2. x = [list[i] EXCEPT !.size = n] OBVIOUS
    <3> HIDE DEF n, x
    <3>3. x.at = list[i].at /\ x.used = list[i].used /\ x.size = n BY <2>3, <3>2 DEF Segment
    <3>4. x \in Segment BY <2>3, <3>1, <3>2 DEF Segment, n
    <3> QED BY <3>3, <3>4 DEF n
  <2> HIDE DEF x
  <2>7. m \in Seq(Segment) /\ Len(m) = Len(list) /\ m[i] = x
        /\ \A j \in 1 .. Len(list) : j # i => m[j] = list[j]
    <3>1. DOMAIN m = 1 .. Len(list) /\ m[i] = x /\ \A j \in 1 .. Len(list) : j # i => m[j] = list[j]
      BY <2>2, <2>5
    <3>2. \A j \in 1 .. Len(list) : m[j] \in Segment
      <4>1. \A j \in 1 .. Len(list) : list[j] \in Segment BY ElementOfSeq
      <4> QED BY <2>6, <3>1, <4>1
    <3>3. m \in [1 .. Len(list) -> Segment] BY <2>5, <2>2, <3>1, <3>2
    <3>4. m \in Seq(Segment) BY <2>2, <3>3, SeqDef
    <3> QED BY <2>2, <3>1, <3>4, LenProperties
  <2> HIDE DEF m
  <2>8. /\ t \in Seq(Segment) /\ Len(t) = Len(list) - 1
        /\ \A j \in 1 .. (i + 1) - 1 : t[j] = m[j]
        /\ \A j \in (i + 1) + 1 .. Len(list) : t[j - 1] = m[j]
    <3>1. i + 1 \in 1 .. Len(m) BY <2>2, <2>7
    <3> QED BY <2>7, <3>1, Removed
  <2> HIDE DEF t
  <2>9. t[i] = x
    <3>1. i \in 1 .. (i + 1) - 1 BY <2>2
    <3> QED BY <2>7, <2>8, <3>1
  <2>10. ASSUME NEW j \in 1 .. i - 1 PROVE list[j] = t[j]
    <3>1. j \in 1 .. (i + 1) - 1 /\ j # i /\ j \in 1 .. Len(list) BY <2>2
    <3> QED BY <2>7, <2>8, <3>1
  <2>11. ASSUME NEW j \in i + 1 .. Len(t) PROVE list[j + 1] = t[j]
    <3> DEFINE n == j + 1
    <3>1. n \in (i + 1) + 1 .. Len(list) /\ n # i /\ n \in 1 .. Len(list) /\ n - 1 = j
      BY <2>2, <2>8
    <3> HIDE DEF n
    <3>2. t[n - 1] = m[n] /\ m[n] = list[n] BY <2>7, <2>8, <3>1
    <3> QED BY <3>1, <3>2 DEF n
  <2>12. SegEnd(list[i + 1]) = SegEnd(x)
    <3>1. /\ list[i].at \in Nat /\ list[i].size \in Nat /\ list[i + 1].at \in Nat
          /\ list[i + 1].size \in Nat
      BY <2>2, SegmentIs
    <3>2. SegEnd(x) = x.at + x.size BY DEF SegEnd
    <3> QED BY SMTT(30), <2>3, <2>4, <2>6, <3>1, <3>2
  <2>13. Len(list) = Len(t) + 1 /\ i \in 1 .. Len(t) BY <1>2, <2>2, <2>8
  <2>14. IsCut(t, list, i)
    BY <2>4, <2>6, <2>8, <2>9, <2>10, <2>11, <2>12, <2>13 DEF IsCut
  <2>15. ~t[i].used BY <2>4, <2>6, <2>9
  <2> QED BY <1>2, <2>1, <2>4, <2>14, <2>15
<1> QED BY <1>1, <1>2

\* What is the same of two lists of the same memory.
SameHeap(new, old) ==
    /\ new \in Seq(Segment) /\ SegsApart(new) /\ UsedIn(new) = UsedIn(old)
    /\ \A u \in Nat : Covers(new, u) <=> Covers(old, u)
    /\ \A n \in Nat : HasFree(old, n) => HasFree(new, n)

LEMMA JoinedKeeps ==
    ASSUME NEW list \in Seq(Segment), SegsApart(list), NEW i \in Int
    PROVE  SameHeap(Joined(list, i), list)
<1> DEFINE t == Joined(list, i)
<1>1. CASE t = list BY <1>1 DEF SameHeap
<1>2. CASE /\ i \in 1 .. Len(list) - 1 /\ ~list[i].used /\ ~list[i + 1].used
           /\ IsCut(t, list, i) /\ ~t[i].used
  <2> HIDE DEF t
  <2>1. t \in Seq(Segment) /\ SegsApart(t) BY <1>2, CutApart DEF IsCut
  <2>2. \A u \in Nat : Covers(t, u) <=> Covers(list, u) BY <1>2, CutCovers
  <2>3. UsedIn(t) = UsedIn(list)
    <3>1. {s \in {list[i]} : s.used} = {} BY <1>2
    <3>2. UsedIn(list) = UsedIn(t) \cup {s \in {list[i]} : s.used} BY <1>2, CutUsed
    <3> QED BY <3>1, <3>2
  <2>4. ASSUME NEW n \in Nat, HasFree(list, n) PROVE HasFree(t, n)
    <3>1. PICK j \in 1 .. Len(list) : ~list[j].used /\ list[j].size >= n BY <2>4 DEF HasFree
    <3>2. PICK k \in 1 .. Len(t) : ComesFrom(t, list, i, j, k) BY <1>2, CutFrom
    <3>3. CASE list[j] = t[k] BY <3>1, <3>3 DEF HasFree
    <3>4. CASE j \in {i, i + 1} /\ k = i
      <4>1. /\ list[j].at \in Nat /\ list[j].size \in Nat /\ t[k].at \in Nat /\ t[k].size \in Nat
            /\ SegEnd(list[j]) = list[j].at + list[j].size /\ SegEnd(t[k]) = t[k].at + t[k].size
        BY <2>1, SegmentIs
      <4>2. t[k].at <= list[j].at /\ SegEnd(list[j]) <= SegEnd(t[k]) BY <3>2 DEF ComesFrom
      <4>3. t[k].size >= n BY <3>1, <4>1, <4>2
      <4> QED BY <1>2, <3>4, <4>3 DEF HasFree
    <3> QED BY <3>2, <3>3, <3>4 DEF ComesFrom
  <2> QED BY <2>1, <2>2, <2>3, <2>4 DEF SameHeap, t
<1> QED BY <1>1, <1>2, JoinedIs

LEMMA JoinedCoalesced ==
    ASSUME NEW list \in Seq(Segment), NEW i \in Int, NEW S, \A x \in S : x \in Int /\ x < i,
           CoalescedBut(list, S \cup {i})
    PROVE  CoalescedBut(Joined(list, i), S)
<1> DEFINE t == Joined(list, i)
<1>1. CASE /\ t = list
           /\ i \in 1 .. Len(list) - 1 => ~Combinable(list[i], list[i + 1])
  <2> SUFFICES ASSUME NEW j \in 1 .. Len(list) - 1, j \notin S
               PROVE  ~Combinable(list[j], list[j + 1])
    BY <1>1 DEF CoalescedBut
  <2>1. CASE j = i BY <1>1, <2>1
  <2>2. CASE j # i BY <2>2 DEF CoalescedBut
  <2> QED BY <2>1, <2>2
<1>2. CASE /\ i \in 1 .. Len(list) - 1 /\ ~list[i].used /\ ~list[i + 1].used
           /\ IsCut(t, list, i) /\ ~t[i].used
  <2> HIDE DEF t
  <2>1. /\ Len(t) \in Nat /\ Len(list) = Len(t) + 1 /\ i \in 1 .. Len(t)
        /\ t[i].at = list[i].at /\ SegEnd(t[i]) = SegEnd(list[i + 1])
        /\ \A j \in 1 .. i - 1 : list[j] = t[j]
        /\ \A j \in i + 1 .. Len(t) : list[j + 1] = t[j]
    BY <1>2, LenProperties DEF IsCut
  <2> SUFFICES ASSUME NEW j \in 1 .. Len(t) - 1, j \notin S
               PROVE  ~Combinable(t[j], t[j + 1])
    BY DEF CoalescedBut, t
  <2>2. CASE j < i - 1
    <3>1. j \in 1 .. i - 1 /\ j + 1 \in 1 .. i - 1 /\ j \in 1 .. Len(list) - 1 /\ j # i
      BY <2>1, <2>2
    <3>2. t[j] = list[j] /\ t[j + 1] = list[j + 1] BY <2>1, <3>1
    <3>3. ~Combinable(list[j], list[j + 1]) BY <3>1 DEF CoalescedBut
    <3> QED BY <3>2, <3>3
  <2>3. CASE j = i - 1
    <3>1. j \in 1 .. i - 1 /\ j \in 1 .. Len(list) - 1 /\ j # i /\ j + 1 = i BY <2>1, <2>3
    <3>2. t[j] = list[j] BY <2>1, <3>1
    <3>3. ~Combinable(list[j], list[i])
      <4>1. ~Combinable(list[j], list[j + 1]) BY <3>1 DEF CoalescedBut
      <4> QED BY <3>1, <4>1
    <3>4. ~Combinable(t[j], t[i]) BY <1>2, <2>1, <3>2, <3>3 DEF Combinable
    <3> QED BY <3>1, <3>4
  <2>4. CASE j = i
    <3> DEFINE n == i + 1
    <3>1. n \in i + 1 .. Len(t) /\ n \in 1 .. Len(list) - 1 /\ n # i /\ n \notin S BY <2>1, <2>4
    <3> HIDE DEF n
    <3>2. t[n] = list[n + 1] BY <2>1, <3>1
    <3>3. ~Combinable(list[n], list[n + 1]) BY <3>1 DEF CoalescedBut
    <3>4. ~list[n].used /\ SegEnd(t[i]) = SegEnd(list[n]) BY <1>2, <2>1 DEF n
    <3>5. ~Combinable(t[i], t[n]) BY <1>2, <3>2, <3>3, <3>4 DEF Combinable
    <3> QED BY <2>4, <3>5 DEF n
  <2>5. CASE j > i
    <3> DEFINE n == j + 1
    <3>1. /\ j \in i + 1 .. Len(t) /\ n \in i + 1 .. Len(t) /\ n \in 1 .. Len(list) - 1
          /\ n # i /\ n \notin S
      BY <2>1, <2>5
    <3> HIDE DEF n
    <3>2. t[j] = list[n] /\ t[n] = list[n + 1]
      <4>1. t[j] = list[j + 1] BY <2>1, <3>1
      <4>2. t[n] = list[n + 1] BY <2>1, <3>1
      <4> QED BY <4>1, <4>2 DEF n
    <3>3. ~Combinable(list[n], list[n + 1]) BY <3>1 DEF CoalescedBut
    <3>4. ~Combinable(t[j], t[n]) BY <3>2, <3>3
    <3> QED BY <3>4 DEF n
  <2> QED BY <2>1, <2>2, <2>3, <2>4, <2>5
<1> QED BY <1>1, <1>2, JoinedIs

\* do_combine keeps the memory and what is used of it, and leaves nothing to combine if
\* there was nothing but around i.
LEMMA CombineKeeps ==
    ASSUME NEW list \in Seq(Segment), SegsApart(list), NEW i \in Int
    PROVE  /\ SameHeap(Combine(list, i), list)
           /\ CoalescedBut(list, {i - 1, i}) => CoalescedBut(Combine(list, i), {})
<1> DEFINE m == Joined(list, i)
           t == Joined(m, i - 1)
<1>1. SameHeap(m, list) BY JoinedKeeps
<1>2. SameHeap(t, m)
  <2> HIDE DEF m
  <2>1. m \in Seq(Segment) /\ SegsApart(m) /\ i - 1 \in Int BY <1>1 DEF SameHeap
  <2> QED BY <2>1, JoinedKeeps
<1>3. SameHeap(t, list)
  <2> HIDE DEF m, t
  <2> QED BY <1>1, <1>2 DEF SameHeap
<1>4. ASSUME CoalescedBut(list, {i - 1, i}) PROVE CoalescedBut(t, {})
  <2>1. {i - 1} \cup {i} = {i - 1, i} /\ \A x \in {i - 1} : x \in Int /\ x < i OBVIOUS
  <2>2. CoalescedBut(m, {i - 1}) BY <1>4, <2>1, JoinedCoalesced
  <2>3. {} \cup {i - 1} = {i - 1} /\ i - 1 \in Int OBVIOUS
  <2>4. m \in Seq(Segment) BY <1>1 DEF SameHeap
  <2> HIDE DEF m
  <2> QED BY <2>2, <2>3, <2>4, JoinedCoalesced
<1> QED BY <1>3, <1>4 DEF Combine

\* The first free segment that is long enough is found.
LEMMA FittingIs ==
    ASSUME NEW list \in Seq(Segment), NEW n \in Nat
    PROVE  LET i == Fitting(list, n)
           IN  \/ i = 0 /\ ~HasFree(list, n)
               \/ i \in 1 .. Len(list) /\ ~list[i].used /\ list[i].size >= n
<1> DEFINE I == {k \in 1 .. Len(list) : ~list[k].used /\ list[k].size >= n}
<1>1. Fitting(list, n) = IF I # {} THEN Min(I) ELSE 0 BY DEF Fitting, SelectInSeq
<1>2. CASE I = {} BY <1>1, <1>2 DEF HasFree
<1>3. CASE I # {}
  <2>1. I \subseteq Nat BY LenProperties
  <2>2. PICK x \in I : \A y \in I : ~(y < x) BY <1>3, <2>1, LeastNumber
  <2>3. \A y \in I : x =< y
    <3>1. x \in Nat BY <2>1, <2>2
    <3> HIDE DEF I
    <3> QED BY <2>1, <2>2, <3>1
  <2>4. Min(I) \in I
    <3> HIDE DEF I
    <3> QED BY <2>2, <2>3 DEF Min
  <2>5. Fitting(list, n) \in I BY <1>1, <1>3, <2>4
  <2> QED BY <2>5
<1> QED BY <1>2, <1>3

Taken(seg, need) == [at |-> seg.at, size |-> need, used |-> TRUE]

LEMMA WholeIsTaken ==
    ASSUME NEW seg \in Segment
    PROVE  [seg EXCEPT !.used = TRUE] = Taken(seg, seg.size)
<1> DEFINE x == [seg EXCEPT !.used = TRUE]
<1>1. x \in Segment /\ x.at = seg.at /\ x.size = seg.size /\ x.used = TRUE BY DEF Segment
<1> HIDE DEF x
<1>2. x = [at |-> x.at, size |-> x.size, used |-> x.used] BY <1>1 DEF Segment
<1>3. x = [at |-> seg.at, size |-> seg.size, used |-> TRUE] BY <1>1, <1>2
<1> QED BY <1>3 DEF x, Taken

\* What allocating need units of the segment i of list leads to.
Allocates(list, i, need, new) ==
    /\ new \in Seq(Segment) /\ SegsApart(new)
    /\ \A u \in Nat : Covers(new, u) <=> Covers(list, u)
    /\ UsedIn(new) = UsedIn(list) \cup {Taken(list[i], need)}
    /\ CoalescedBut(list, {}) => CoalescedBut(new, {})
    /\ \A n \in Nat \ {0} : HasFree(list, need + n) => HasFree(new, n)

\* The whole segment ...
LEMMA WholeTaken ==
    ASSUME NEW list \in Seq(Segment), SegsApart(list), NEW need \in Nat \ {0},
           NEW i \in 1 .. Len(list), ~list[i].used, list[i].size = need,
           NEW new, Replaced(Segment, list, i, <<Taken(list[i], need)>>, new)
    PROVE  Allocates(list, i, need, new)
<1> DEFINE x == Taken(list[i], need)
<1>1. /\ Len(list) \in Nat /\ i \in Nat /\ list[i].at \in Nat
      /\ SegEnd(list[i]) = list[i].at + list[i].size
  BY LenProperties, SegmentIs
<1>2. x \in Segment /\ x.used /\ x.at = list[i].at /\ SegEnd(x) = SegEnd(list[i])
  BY <1>1 DEF Taken, Segment, SegEnd
<1>3. Len(<<x>>) = 1 /\ <<x>>[1] = x OBVIOUS
<1> HIDE DEF x
<1>4. new \in Seq(Segment) /\ Len(new) = Len(list) BY <1>1, <1>3 DEF Replaced, x
<1>5. new[i] = x
  <2>1. 1 \in 1 .. Len(<<x>>) BY <1>3
  <2>2. new[i - 1 + 1] = <<x>>[1] BY <2>1 DEF Replaced, x
  <2>3. i - 1 + 1 = i BY <1>1
  <2> QED BY <1>3, <2>2, <2>3
<1>6. ASSUME NEW j \in 1 .. Len(list), j # i PROVE new[j] = list[j]
  <2>1. CASE j < i
    <3>1. j \in 1 .. i - 1 BY <1>1, <2>1
    <3> QED BY <3>1 DEF Replaced
  <2>2. CASE j > i
    <3>1. j \in i + 1 .. Len(list) /\ j - 1 + 1 = j BY <1>1, <2>2
    <3>2. new[j - 1 + Len(<<x>>)] = list[j] BY <3>1 DEF Replaced, x
    <3> QED BY <1>3, <3>1, <3>2
  <2> QED BY <1>1, <1>6, <2>1, <2>2
<1>7. \A j \in 1 .. Len(list) : new[j].at = list[j].at /\ SegEnd(new[j]) = SegEnd(list[j])
  BY <1>2, <1>5, <1>6
<1>8. SegsApart(new) BY <1>4, <1>7 DEF SegsApart
<1>9. \A u \in Nat : Covers(new, u) <=> Covers(list, u) BY <1>4, <1>7 DEF Covers
<1>10. UsedIn(new) = UsedIn(list) \cup {x}
  <2>1. ASSUME NEW j \in 1 .. Len(new), new[j].used PROVE new[j] \in UsedIn(list) \cup {x}
    BY <1>4, <1>5, <1>6, <2>1 DEF UsedIn
  <2>2. ASSUME NEW j \in 1 .. Len(list), list[j].used PROVE list[j] \in UsedIn(new)
    <3>1. j # i BY <2>2
    <3> QED BY <1>4, <1>6, <2>2, <3>1 DEF UsedIn
  <2>3. x \in UsedIn(new) BY <1>2, <1>4, <1>5 DEF UsedIn
  <2>4. UsedIn(new) \subseteq UsedIn(list) \cup {x} BY <2>1 DEF UsedIn
  <2>5. UsedIn(list) \subseteq UsedIn(new) BY <2>2 DEF UsedIn
  <2> QED BY <2>3, <2>4, <2>5
<1>11. ASSUME CoalescedBut(list, {}), NEW j \in 1 .. Len(new) - 1
       PROVE  ~Combinable(new[j], new[j + 1])
  <2>1. j \in 1 .. Len(list) - 1 /\ j \in 1 .. Len(list) /\ j + 1 \in 1 .. Len(list)
    BY <1>1, <1>4
  <2>2. CASE j = i BY <1>2, <1>5, <2>2 DEF Combinable
  <2>3. CASE j + 1 = i BY <1>2, <1>5, <2>3 DEF Combinable
  <2>4. CASE j # i /\ j + 1 # i
    <3>1. new[j] = list[j] /\ new[j + 1] = list[j + 1] BY <1>6, <2>1, <2>4
    <3> QED BY <1>11, <2>1, <3>1 DEF CoalescedBut
  <2> QED BY <2>2, <2>3, <2>4
<1>12. ASSUME NEW n \in Nat \ {0}, HasFree(list, need + n) PROVE HasFree(new, n)
  <2>1. PICK k \in 1 .. Len(list) : ~list[k].used /\ list[k].size >= need + n
    BY <1>12 DEF HasFree
  <2>2. list[k].size \in Nat BY SegmentIs
  <2>3. k # i BY <2>1, <2>2
  <2>4. list[k].size >= n BY <2>1, <2>2
  <2> QED BY <1>4, <1>6, <2>1, <2>3, <2>4 DEF HasFree
<1> QED BY <1>4, <1>8, <1>9, <1>10, <1>11, <1>12 DEF Allocates, CoalescedBut, x

\* ... or the part in front of it.
LEMMA PartTaken ==
    ASSUME NEW list \in Seq(Segment), SegsApart(list), NEW need \in Nat \ {0},
           NEW i \in 1 .. Len(list), ~list[i].used, list[i].size > need, NEW rest,
           rest = [at |-> list[i].at + need, size |-> list[i].size - need, used |-> FALSE],
           NEW new, Replaced(Segment, list, i, <<Taken(list[i], need), rest>>, new)
    PROVE  Allocates(list, i, need, new)
<1> DEFINE x == Taken(list[i], need)
<1>1. /\ Len(list) \in Nat /\ i \in Nat /\ list[i].at \in Nat /\ list[i].size \in Nat
      /\ SegEnd(list[i]) = list[i].at + list[i].size
  BY LenProperties, SegmentIs
<1>2. x \in Segment /\ x.used /\ x.at = list[i].at /\ x.size = need /\ SegEnd(x) = x.at + need
  BY <1>1 DEF Taken, Segment, SegEnd
<1>3. /\ rest.at = SegEnd(x) /\ SegEnd(rest) = SegEnd(list[i]) /\ ~rest.used
      /\ rest.size = list[i].size - need
  <2>1. rest.at = list[i].at + need /\ rest.size = list[i].size - need OBVIOUS
  <2>2. ~rest.used OBVIOUS
  <2>3. SegEnd(rest) = rest.at + rest.size BY DEF SegEnd
  <2> HIDE DEF x
  <2>4. rest.at + rest.size = list[i].at + list[i].size BY <1>1, <2>1
  <2> QED BY <1>1, <1>2, <2>1, <2>2, <2>3, <2>4
<1>4. Len(<<x, rest>>) = 2 /\ <<x, rest>>[1] = x /\ <<x, rest>>[2] = rest OBVIOUS
<1> HIDE DEF x
<1>5. new \in Seq(Segment) /\ Len(new) = Len(list) + 1 BY <1>1, <1>4 DEF Replaced, x
<1>6. new[i] = x /\ new[i + 1] = rest
  <2>1. 1 \in 1 .. Len(<<x, rest>>) /\ 2 \in 1 .. Len(<<x, rest>>) BY <1>4
  <2>2. new[i - 1 + 1] = <<x, rest>>[1] BY <2>1 DEF Replaced, x
  <2>3. new[i - 1 + 2] = <<x, rest>>[2] BY <2>1 DEF Replaced, x
  <2>4. i - 1 + 1 = i /\ i - 1 + 2 = i + 1 BY <1>1
  <2> QED BY <1>4, <2>2, <2>3, <2>4
<1>7. \A j \in 1 .. i - 1 : new[j] = list[j] BY DEF Replaced
<1>8. ASSUME NEW j \in i + 1 .. Len(list) PROVE new[j + 1] = list[j]
  <2>1. new[j - 1 + Len(<<x, rest>>)] = list[j] BY DEF Replaced, x
  <2>2. j - 1 + 2 = j + 1 BY <1>1
  <2> QED BY <1>4, <2>1, <2>2
<1>9. IsCut(list, new, i) BY <1>2, <1>3, <1>5, <1>6, <1>7, <1>8 DEF IsCut
<1>10. SegsApart(new) BY <1>9, CutApart
<1>11. \A u \in Nat : Covers(new, u) <=> Covers(list, u) BY <1>9, CutCovers
<1>12. UsedIn(new) = UsedIn(list) \cup {x}
  <2>1. UsedIn(new) = UsedIn(list) \cup {s \in {new[i]} : s.used} BY <1>3, <1>6, <1>9, CutUsed
  <2>2. {s \in {new[i]} : s.used} = {x} BY <1>2, <1>6
  <2> QED BY <2>1, <2>2
<1>13. ASSUME CoalescedBut(list, {}), NEW j \in 1 .. Len(new) - 1
       PROVE  ~Combinable(new[j], new[j + 1])
  <2>1. CASE j = i BY <1>2, <1>6, <2>1 DEF Combinable
  <2>2. CASE j + 1 = i BY <1>2, <1>6, <2>2 DEF Combinable
  <2>3. CASE j = i + 1
    <3> DEFINE n == j + 1
    <3>1. /\ j \in i + 1 .. Len(list) /\ i \in 1 .. Len(list) - 1 BY <1>1, <1>5, <2>3
    <3>2. new[n] = list[j] BY <1>8, <3>1
    <3>3. ~Combinable(list[i], list[j]) BY <1>13, <2>3, <3>1 DEF CoalescedBut
    <3> HIDE DEF n
    <3>4. ~Combinable(new[j], new[n]) BY <1>3, <1>6, <2>3, <3>2, <3>3 DEF Combinable
    <3> QED BY <3>4 DEF n
  <2>4. CASE j + 1 < i
    <3>1. j \in 1 .. i - 1 /\ j + 1 \in 1 .. i - 1 /\ j \in 1 .. Len(list) - 1
      BY <1>1, <1>5, <2>4
    <3>2. new[j] = list[j] /\ new[j + 1] = list[j + 1] BY <1>7, <3>1
    <3>3. ~Combinable(list[j], list[j + 1]) BY <1>13, <3>1 DEF CoalescedBut
    <3> QED BY <3>2, <3>3
  <2>5. CASE j > i + 1
    <3> DEFINE n == j - 1
    <3>1. /\ j \in i + 1 .. Len(list) /\ n \in i + 1 .. Len(list) /\ n \in 1 .. Len(list) - 1
          /\ n + 1 = j
      BY <1>1, <1>5, <2>5
    <3> HIDE DEF n
    <3>2. new[j + 1] = list[j] /\ new[n + 1] = list[n] BY <1>8, <3>1
    <3>3. ~Combinable(list[n], list[n + 1]) BY <1>13, <3>1 DEF CoalescedBut
    <3> QED BY <3>1, <3>2, <3>3
  <2> QED BY <1>1, <1>5, <2>1, <2>2, <2>3, <2>4, <2>5
<1>14. ASSUME NEW n \in Nat \ {0}, HasFree(list, need + n) PROVE HasFree(new, n)
  <2>1. PICK k \in 1 .. Len(list) : ~list[k].used /\ list[k].size >= need + n
    BY <1>14 DEF HasFree
  <2>2. list[k].size \in Nat BY SegmentIs
  <2>3. CASE k = i
    <3>1. rest.size >= n BY <1>3, <2>1, <2>2, <2>3
    <3>2. i + 1 \in 1 .. Len(new) BY <1>1, <1>5
    <3> QED BY <1>3, <1>6, <3>1, <3>2 DEF HasFree
  <2>4. CASE k # i
    <3>1. PICK j \in 1 .. Len(new) : new[j] = list[k] BY <1>9, <2>4, CutTo
    <3>2. list[k].size >= n BY <2>1, <2>2
    <3> QED BY <2>1, <3>1, <3>2 DEF HasFree
  <2> QED BY <2>3, <2>4
<1> QED BY <1>5, <1>10, <1>11, <1>12, <1>13, <1>14 DEF Allocates, CoalescedBut, x

\* kmalloc, as far as it finds a segment.
LEMMA AllocatedKeeps ==
    ASSUME NEW list \in Seq(Segment), SegsApart(list), NEW need \in Nat \ {0},
           Fitting(list, need) # 0
    PROVE  LET i == Fitting(list, need)
           IN  /\ i \in 1 .. Len(list) /\ ~list[i].used
               /\ Allocates(list, i, need, Allocated(list, need))
<1> DEFINE i == Fitting(list, need)
           new == Allocated(list, need)
           rest == [at |-> list[i].at + need, size |-> list[i].size - need, used |-> FALSE]
<1>1. i \in 1 .. Len(list) /\ ~list[i].used /\ list[i].size >= need BY FittingIs
<1>2. new = SubSeq(list, 1, i - 1) \o Cut(list[i], need) \o SubSeq(list, i + 1, Len(list))
  BY DEF Allocated
<1> HIDE DEF i, new
<1>3. list[i] \in Segment /\ list[i].at \in Nat /\ list[i].size \in Nat BY <1>1, SegmentIs
<1>4. Taken(list[i], need) \in Segment BY <1>3 DEF Taken, Segment
<1>5. CASE list[i].size = need
  <2>1. [list[i] EXCEPT !.used = TRUE] = Taken(list[i], need)
    <3>1. [list[i] EXCEPT !.used = TRUE] = Taken(list[i], list[i].size) BY <1>3, WholeIsTaken
    <3> QED BY <1>5, <3>1
  <2>2. Cut(list[i], need) = <<Taken(list[i], need)>> BY <1>5, <2>1 DEF Cut
  <2>3. Cut(list[i], need) \in Seq(Segment) BY <1>4, <2>2
  <2>4. Replaced(Segment, list, i, Cut(list[i], need), new) BY <1>1, <1>2, <2>3, Spliced
  <2>5. Replaced(Segment, list, i, <<Taken(list[i], need)>>, new) BY <2>2, <2>4
  <2> QED BY <1>1, <1>5, <2>5, WholeTaken DEF i, new
<1>6. CASE list[i].size # need
  <2>1. list[i].size > need BY <1>1, <1>3, <1>6
  <2>2. Cut(list[i], need) = <<Taken(list[i], need), rest>> BY <1>6 DEF Cut, Taken
  <2>3. rest \in Segment
    <3>1. list[i].at + need \in Nat /\ list[i].size - need \in Nat \ {0}
      BY SMTT(30), <1>3, <2>1
    <3> QED BY <3>1 DEF Segment
  <2> HIDE DEF rest
  <2>4. Cut(list[i], need) \in Seq(Segment) BY <1>4, <2>2, <2>3
  <2>5. Replaced(Segment, list, i, Cut(list[i], need), new) BY <1>1, <1>2, <2>4, Spliced
  <2>6. Replaced(Segment, list, i, <<Taken(list[i], need), rest>>, new) BY <2>2, <2>5
  <2> QED BY <1>1, <2>1, <2>6, PartTaken DEF i, new, rest
<1> QED BY <1>5, <1>6
---------------------------------------------------------------------------
(* The heap. *)

LEMMA DivIs ==
    ASSUME NEW x \in Nat, NEW u \in Nat \ {0}
    PROVE  x \div u \in Nat /\ u * (x \div u) <= x /\ x < u * (x \div u) + u
OBVIOUS

\* A request takes a unit at least, and not fewer if it asks for more.
LEMMA NeedIs ==
    ASSUME KHeapAssumption, NEW x \in Nat, NEW y \in Nat, x <= y
    PROVE  Need(x) \in Nat \ {0} /\ Need(x) <= Need(y)
<1>1. Header \in Nat \ {0} /\ Unit \in Nat \ {0} BY DEF KHeapAssumption
<1> DEFINE m == x + Header + Unit - 1
           n == y + Header + Unit - 1
           p == m \div Unit
           q == n \div Unit
<1>2. m \in Nat /\ n \in Nat /\ m <= n /\ m >= Unit BY <1>1
<1> HIDE DEF m, n
<1>3. p \in Nat /\ q \in Nat /\ Unit * p <= m /\ m < Unit * p + Unit /\ n < Unit * q + Unit
  BY <1>1, <1>2, DivIs
<1> HIDE DEF p, q
<1>4. p # 0 BY <1>1, <1>2, <1>3
<1>5. p <= q
  <2>1. Unit * p < Unit * q + Unit BY <1>1, <1>2, <1>3
  <2> QED BY <1>1, <1>3, <2>1
<1> QED BY <1>3, <1>4, <1>5 DEF Need, m, n, p, q

MemoryOf(g) == Base .. Base + BaseSize - 1 \cup UNION {a .. a + AreaSize - 1 : a \in g}

Blocks == [at : Nat, bytes : Requests \cup {NodeBytes}]

\* What callers hold is the memory of a used segment, which is long enough and of no
\* other caller, and all that is used is theirs.
CallersHold(used, L) ==
    /\ \A b \in L : \E s \in used : s.at = b.at /\ s.size >= Need(b.bytes)
    /\ \A b, c \in L : b.at = c.at => b = c
    /\ \A s \in used : \E b \in L : b.at = s.at

\* A list of the segments of the memory g, of which callers hold L.
HeapList(list, g, L) ==
    /\ list \in Seq(Segment) /\ SegsApart(list) /\ CoalescedBut(list, {})
    /\ \A u \in Nat : Covers(list, u) <=> u \in MemoryOf(g)
    /\ CallersHold(UsedIn(list), L)

KHeapInv == /\ given \subseteq Areas /\ live \subseteq Blocks
            /\ HeapList(segs, given, live)

\* No two segments begin at the same place.
LEMMA AtIsUnique ==
    ASSUME NEW list \in Seq(Segment), SegsApart(list), NEW i \in 1 .. Len(list),
           NEW j \in 1 .. Len(list), list[i].at = list[j].at
    PROVE  i = j
<1>1. /\ list[i].at \in Nat /\ SegEnd(list[i]) \in Nat /\ list[i].at < SegEnd(list[i])
      /\ list[j].at \in Nat /\ SegEnd(list[j]) \in Nat /\ list[j].at < SegEnd(list[j])
  BY SegmentIs
<1>2. i # j => SegEnd(list[i]) <= list[j].at \/ SegEnd(list[j]) <= list[i].at BY DEF SegsApart
<1> QED BY <1>1, <1>2

\* kmalloc with a segment that is long enough.
LEMMA AllocHolds ==
    ASSUME KHeapAssumption, NEW list, NEW g, NEW L \in SUBSET Blocks, HeapList(list, g, L),
           NEW bytes \in Requests \cup {NodeBytes}, NEW need \in Nat \ {0}, need >= Need(bytes),
           Fitting(list, need) # 0
    PROVE  /\ HeapList(Allocated(list, need), g, L \cup {Block(list, bytes, need)})
           /\ L \cup {Block(list, bytes, need)} \in SUBSET Blocks
           /\ \A n \in Nat \ {0} : HasFree(list, need + n) => HasFree(Allocated(list, need), n)
<1> DEFINE i == Fitting(list, need)
           new == Allocated(list, need)
           b == [at |-> list[i].at, bytes |-> bytes]
<1>1. list \in Seq(Segment) /\ SegsApart(list) BY DEF HeapList
<1>2. i \in 1 .. Len(list) /\ ~list[i].used /\ Allocates(list, i, need, new)
  BY <1>1, AllocatedKeeps
<1>3. Block(list, bytes, need) = b BY DEF Block
<1> HIDE DEF i, new
<1>4. list[i].at \in Nat BY <1>1, <1>2, SegmentIs
<1>5. b \in Blocks /\ b.at = list[i].at /\ b.bytes = bytes BY <1>4 DEF Blocks
<1> DEFINE t == Taken(list[i], need)
<1>6. t.at = list[i].at /\ t.size = need /\ UsedIn(new) = UsedIn(list) \cup {t}
  BY <1>2 DEF Taken, Allocates
<1> HIDE DEF b, t
<1>7. \A s \in UsedIn(list) : s.at # list[i].at
  <2> SUFFICES ASSUME NEW j \in 1 .. Len(list), list[j].used PROVE list[j].at # list[i].at
    BY DEF UsedIn
  <2> QED BY <1>1, <1>2, AtIsUnique
<1>8. CallersHold(UsedIn(list), L) BY DEF HeapList
<1>9. CallersHold(UsedIn(new), L \cup {b})
  <2>1. ASSUME NEW c \in L \cup {b}
        PROVE  \E s \in UsedIn(new) : s.at = c.at /\ s.size >= Need(c.bytes)
    <3>1. CASE c \in L BY <1>6, <1>8, <3>1 DEF CallersHold
    <3>2. CASE c = b BY <1>5, <1>6, <3>2
    <3> QED BY <3>1, <3>2
  <2>2. \A c \in L : c.at # b.at
    <3> SUFFICES ASSUME NEW c \in L PROVE c.at # b.at OBVIOUS
    <3>1. PICK s \in UsedIn(list) : s.at = c.at BY <1>8 DEF CallersHold
    <3> QED BY <1>5, <1>7, <3>1
  <2>3. \A c, d \in L \cup {b} : c.at = d.at => c = d BY <1>8, <2>2 DEF CallersHold
  <2>4. \A s \in UsedIn(new) : \E c \in L \cup {b} : c.at = s.at
    <3> SUFFICES ASSUME NEW s \in UsedIn(new) PROVE \E c \in L \cup {b} : c.at = s.at OBVIOUS
    <3>1. CASE s \in UsedIn(list) BY <1>8, <3>1 DEF CallersHold
    <3>2. CASE s = t BY <1>5, <1>6, <3>2
    <3> QED BY <1>6, <3>1, <3>2
  <2> QED BY <2>1, <2>3, <2>4 DEF CallersHold
<1>10. HeapList(new, g, L \cup {b}) BY <1>2, <1>9 DEF HeapList, Allocates
<1>11. L \cup {b} \in SUBSET Blocks BY <1>5
<1>12. \A n \in Nat \ {0} : HasFree(list, need + n) => HasFree(new, n) BY <1>2 DEF Allocates
<1> QED BY <1>3, <1>10, <1>11, <1>12 DEF b, new, i

\* An area that is not given yet lies apart from all that is.
LEMMA AreaApart ==
    ASSUME KHeapAssumption, NEW g \in SUBSET Areas, NEW a \in Areas \ g, NEW u \in MemoryOf(g)
    PROVE  ~(u \in a .. a + AreaSize - 1)
<1>1. /\ a \in Nat /\ AreaSize \in Nat \ {0} /\ Base \in Nat /\ BaseSize \in Nat \ {0}
      /\ a >= Base + BaseSize \/ a + AreaSize <= Base
  BY DEF KHeapAssumption
<1>2. CASE u \in Base .. Base + BaseSize - 1 BY <1>1, <1>2
<1>3. CASE \E b \in g : u \in b .. b + AreaSize - 1
  <2>1. PICK b \in g : u \in b .. b + AreaSize - 1 BY <1>3
  <2>2. b \in Areas /\ b \in Nat /\ b # a BY DEF KHeapAssumption
  <2>3. a < b \/ b < a BY <1>1, <2>2
  <2>4. a + AreaSize <= b \/ b + AreaSize <= a BY <2>2, <2>3 DEF KHeapAssumption
  <2> QED BY <1>1, <2>1, <2>2, <2>4
<1> QED BY <1>2, <1>3 DEF MemoryOf

\* The heap grows by an area, of which anything that fits into an area can be allocated.
LEMMA GrownHolds ==
    ASSUME KHeapAssumption, NEW list, NEW g \in SUBSET Areas, NEW L, HeapList(list, g, L),
           NEW a \in Areas \ g
    PROVE  HeapList(Grown(list, a), g \cup {a}, L) /\ HasFree(Grown(list, a), AreaSize)
<1> DEFINE x == [at |-> a, size |-> AreaSize, used |-> FALSE]
           l == Append(list, x)
           n == Len(list)
<1>1. a \in Nat /\ AreaSize \in Nat \ {0} /\ a + AreaSize \in Nat BY DEF KHeapAssumption
<1>2. list \in Seq(Segment) /\ SegsApart(list) /\ n \in Nat /\ CoalescedBut(list, {})
  BY LenProperties DEF HeapList
<1>3. x \in Segment /\ x.at = a /\ x.size = AreaSize /\ ~x.used /\ SegEnd(x) = a + AreaSize
  BY <1>1 DEF Segment, SegEnd
<1> HIDE DEF x
<1>4. l \in Seq(Segment) /\ Len(l) = n + 1 /\ l[n + 1] = x /\ \A i \in 1 .. n : l[i] = list[i]
  BY <1>2, <1>3, AppendProperties
<1> HIDE DEF l, n
<1>5. ASSUME NEW i \in 1 .. n PROVE SegEnd(list[i]) <= a \/ a + AreaSize <= list[i].at
  <2>1. /\ list[i].at \in Nat /\ SegEnd(list[i]) \in Nat /\ list[i].at < SegEnd(list[i])
    BY <1>2, SegmentIs DEF n
  <2> SUFFICES ASSUME a < SegEnd(list[i]), list[i].at < a + AreaSize PROVE FALSE
    BY <1>1, <2>1
  <2> DEFINE u == IF a <= list[i].at THEN list[i].at ELSE a
  <2>2. u \in Nat /\ list[i].at <= u /\ u < SegEnd(list[i]) /\ u \in a .. a + AreaSize - 1
    BY <1>1, <2>1
  <2> HIDE DEF u
  <2>3. Covers(list, u) BY <2>2 DEF Covers, n
  <2>4. u \in MemoryOf(g) BY <2>2, <2>3 DEF HeapList
  <2> QED BY <2>2, <2>4, AreaApart
<1>6. SegsApart(l)
  <2> SUFFICES ASSUME NEW i \in 1 .. Len(l), NEW j \in 1 .. Len(l), i # j
               PROVE  SegEnd(l[i]) <= l[j].at \/ SegEnd(l[j]) <= l[i].at
    BY DEF SegsApart
  <2>1. CASE i \in 1 .. n /\ j \in 1 .. n BY <1>2, <1>4, <2>1 DEF SegsApart, n
  <2>2. CASE i \in 1 .. n /\ j = n + 1 BY <1>3, <1>4, <1>5, <2>2
  <2>3. CASE i = n + 1 /\ j \in 1 .. n BY <1>3, <1>4, <1>5, <2>3
  <2> QED BY <1>2, <1>4, <2>1, <2>2, <2>3
<1>7. ASSUME NEW u \in Nat PROVE Covers(l, u) <=> u \in MemoryOf(g \cup {a})
  <2>1. Covers(l, u) <=> Covers(list, u) \/ (a <= u /\ u < a + AreaSize)
    <3>1. ASSUME Covers(l, u) PROVE Covers(list, u) \/ (a <= u /\ u < a + AreaSize)
      <4>1. PICK i \in 1 .. Len(l) : l[i].at <= u /\ u < SegEnd(l[i]) BY <3>1 DEF Covers
      <4>2. CASE i \in 1 .. n BY <1>4, <4>1, <4>2 DEF Covers, n
      <4>3. CASE i = n + 1 BY <1>3, <1>4, <4>1, <4>3
      <4> QED BY <1>2, <1>4, <4>2, <4>3
    <3>2. ASSUME Covers(list, u) PROVE Covers(l, u)
      <4>1. PICK i \in 1 .. n : list[i].at <= u /\ u < SegEnd(list[i]) BY <3>2 DEF Covers, n
      <4>2. l[i] = list[i] /\ i \in 1 .. Len(l) BY <1>2, <1>4
      <4> QED BY <4>1, <4>2 DEF Covers
    <3>3. ASSUME a <= u, u < a + AreaSize PROVE Covers(l, u)
      <4>1. n + 1 \in 1 .. Len(l) BY <1>2, <1>4
      <4> QED BY <1>3, <1>4, <3>3, <4>1 DEF Covers
    <3> QED BY <3>1, <3>2, <3>3
  <2>2. u \in a .. a + AreaSize - 1 <=> a <= u /\ u < a + AreaSize BY <1>1
  <2>3. u \in MemoryOf(g \cup {a}) <=> u \in MemoryOf(g) \/ u \in a .. a + AreaSize - 1
    BY DEF MemoryOf
  <2>4. Covers(list, u) <=> u \in MemoryOf(g) BY DEF HeapList
  <2> QED BY <2>1, <2>2, <2>3, <2>4
<1>8. UsedIn(l) = UsedIn(list)
  <2>1. ASSUME NEW i \in 1 .. Len(l), l[i].used PROVE l[i] \in UsedIn(list)
    <3>1. i # n + 1 BY <1>3, <1>4, <2>1
    <3>2. i \in 1 .. n BY <1>2, <1>4, <3>1
    <3> QED BY <1>4, <2>1, <3>2 DEF UsedIn, n
  <2>2. ASSUME NEW i \in 1 .. n, list[i].used PROVE list[i] \in UsedIn(l)
    <3>1. l[i] = list[i] /\ i \in 1 .. Len(l) BY <1>2, <1>4
    <3> QED BY <2>2, <3>1 DEF UsedIn
  <2> QED BY <2>1, <2>2 DEF UsedIn, n
<1>9. CoalescedBut(l, {(n + 1) - 1, n + 1})
  <2> SUFFICES ASSUME NEW i \in 1 .. Len(l) - 1, i \notin {(n + 1) - 1, n + 1}
               PROVE  ~Combinable(l[i], l[i + 1])
    BY DEF CoalescedBut
  <2>1. i \in 1 .. n - 1 /\ i \in 1 .. n /\ i + 1 \in 1 .. n BY <1>2, <1>4
  <2>2. ~Combinable(list[i], list[i + 1]) BY <1>2, <2>1 DEF CoalescedBut, n
  <2> QED BY <1>4, <2>1, <2>2
<1>10. HasFree(l, AreaSize)
  <2>1. n + 1 \in 1 .. Len(l) /\ l[n + 1].size >= AreaSize /\ ~l[n + 1].used
    BY <1>1, <1>2, <1>3, <1>4
  <2> QED BY <2>1 DEF HasFree
<1> DEFINE t == Combine(l, n + 1)
<1>11. SameHeap(t, l) /\ CoalescedBut(t, {})
  <2>1. n + 1 \in Int BY <1>2
  <2> QED BY <1>4, <1>6, <1>9, <2>1, CombineKeeps
<1>12. Grown(list, a) = t BY DEF Grown, l, n, x
<1> HIDE DEF t
<1>13. CallersHold(UsedIn(t), L) BY <1>8, <1>11 DEF SameHeap, HeapList
<1>14. HeapList(t, g \cup {a}, L) BY <1>7, <1>11, <1>13 DEF SameHeap, HeapList
<1>15. HasFree(t, AreaSize) BY <1>1, <1>10, <1>11 DEF SameHeap
<1> QED BY <1>12, <1>14, <1>15

\* What has room for more has room for less, and the search finds it.
LEMMA RoomIsFound ==
    ASSUME NEW list \in Seq(Segment), NEW m \in Nat, NEW n \in Nat, n <= m, HasFree(list, m)
    PROVE  Fitting(list, n) # 0
<1>1. PICK k \in 1 .. Len(list) : ~list[k].used /\ list[k].size >= m BY DEF HasFree
<1>2. list[k].size \in Nat BY SegmentIs
<1>3. list[k].size >= n BY <1>1, <1>2
<1>4. HasFree(list, n) BY <1>1, <1>3 DEF HasFree
<1>5. 0 \notin 1 .. Len(list) OBVIOUS
<1> QED BY <1>4, <1>5, FittingIs

LEMMA KMallocKeeps ==
    ASSUME KHeapAssumption, KHeapInv, NEW bytes \in Requests, KMalloc(bytes)
    PROVE  KHeapInv'
<1> DEFINE need == Need(bytes)
<1>1. bytes \in Nat BY DEF KHeapAssumption
<1>2. need \in Nat \ {0} /\ need >= Need(bytes)
  <2>1. bytes <= bytes BY <1>1
  <2> QED BY <1>1, <2>1, NeedIs
<1>3. /\ Fitting(segs, need) # 0 /\ segs' = Allocated(segs, need)
      /\ live' = live \cup {Block(segs, bytes, need)} /\ given' = given
  BY DEF KMalloc
<1> HIDE DEF need
<1>4. live \in SUBSET Blocks /\ HeapList(segs, given, live) BY DEF KHeapInv
<1>5. /\ HeapList(Allocated(segs, need), given, live \cup {Block(segs, bytes, need)})
      /\ live \cup {Block(segs, bytes, need)} \in SUBSET Blocks
  BY <1>2, <1>3, <1>4, AllocHolds
<1> QED BY <1>3, <1>5 DEF KHeapInv

\* A heap with a free segment of a size.
HeapWith(h, g, room) ==
    /\ h.held \in SUBSET Blocks /\ HeapList(h.list, g, h.held) /\ HasFree(h.list, room)

LEMMA NodeKeeps ==
    ASSUME KHeapAssumption, NEW h, NEW g, NEW room \in Nat, Need(NodeBytes) \in Nat \ {0},
           Need(NodeBytes) < room, HeapWith(h, g, room)
    PROVE  HeapWith(NodeTaken(h), g, room - Need(NodeBytes))
<1> DEFINE node == Need(NodeBytes)
           b == Block(h.list, NodeBytes, node)
<1>1. node \in Nat \ {0} /\ node >= Need(NodeBytes) /\ NodeBytes \in Requests \cup {NodeBytes}
  OBVIOUS
<1>2. room - node \in Nat \ {0} /\ node <= room /\ node + (room - node) = room OBVIOUS
<1>3. h.held \in SUBSET Blocks /\ HeapList(h.list, g, h.held) /\ HasFree(h.list, room)
      /\ h.list \in Seq(Segment)
  BY DEF HeapWith, HeapList
<1>4. NodeTaken(h).list = Allocated(h.list, node) /\ NodeTaken(h).held = h.held \cup {b}
  BY DEF NodeTaken
<1> HIDE DEF node, b
<1>5. Fitting(h.list, node) # 0 BY <1>1, <1>2, <1>3, RoomIsFound
<1>6. /\ HeapList(Allocated(h.list, node), g, h.held \cup {b})
      /\ h.held \cup {b} \in SUBSET Blocks
      /\ \A n \in Nat \ {0} : HasFree(h.list, node + n) => HasFree(Allocated(h.list, node), n)
  BY <1>1, <1>3, <1>5, AllocHolds DEF b
<1>7. HasFree(Allocated(h.list, node), room - node) BY <1>2, <1>3, <1>6
<1> QED BY <1>4, <1>6, <1>7 DEF HeapWith, node

LEMMA KMallocGrowsKeeps ==
    ASSUME KHeapAssumption, KHeapInv, NEW bytes \in Requests, KMallocGrows(bytes)
    PROVE  KHeapInv'
<1> DEFINE need == Need(bytes + Header)
           node == Need(NodeBytes)
<1>1. bytes \in Nat /\ bytes + Header \in Nat /\ bytes <= bytes + Header /\ NodeBytes \in Nat
      /\ AreaSize \in Nat /\ NodeBytes <= NodeBytes
  <2>1. bytes \in Nat /\ Header \in Nat /\ NodeBytes \in Nat /\ AreaSize \in Nat
    BY DEF KHeapAssumption
  <2> QED BY <2>1
<1>2. need \in Nat \ {0} /\ need >= Need(bytes)
  <2>1. Need(bytes) \in Nat /\ Need(bytes) <= need BY <1>1, NeedIs
  <2>2. bytes + Header <= bytes + Header BY <1>1
  <2>3. need \in Nat \ {0} BY <1>1, <2>2, NeedIs
  <2> HIDE DEF need
  <2> QED BY <2>1, <2>3
<1>3. node \in Nat \ {0} BY <1>1, NeedIs
<1>4. 3 * node + need <= AreaSize BY DEF KHeapAssumption
<1>5. PICK a \in Areas \ given :
          LET exact == [list |-> Grown(segs, a), held |-> live]
              two   == NodeTaken(exact)
              four  == NodeTaken(two)
              eight == NodeTaken(four)
          IN  /\ given' = given \cup {a}
              /\ \E h \in {exact, two, four, eight} :
                    /\ segs' = Allocated(h.list, need)
                    /\ live' = h.held \cup {Block(h.list, bytes, need)}
  BY DEF KMallocGrows
<1> DEFINE exact == [list |-> Grown(segs, a), held |-> live]
           two   == NodeTaken(exact)
           four  == NodeTaken(two)
           eight == NodeTaken(four)
           g     == given \cup {a}
<1>6. HeapWith(exact, g, AreaSize)
  <2>1. given \in SUBSET Areas /\ HeapList(segs, given, live) /\ live \in SUBSET Blocks
    BY DEF KHeapInv
  <2>2. HeapList(Grown(segs, a), g, live) /\ HasFree(Grown(segs, a), AreaSize)
    BY <2>1, GrownHolds
  <2>3. exact.list = Grown(segs, a) /\ exact.held = live OBVIOUS
  <2> QED BY <2>1, <2>2, <2>3 DEF HeapWith
<1>7. g \subseteq Areas BY DEF KHeapInv
<1>8. PICK h \in {exact, two, four, eight} :
          /\ segs' = Allocated(h.list, need)
          /\ live' = h.held \cup {Block(h.list, bytes, need)}
  BY <1>5
<1>9. given' = g BY <1>5
<1> HIDE DEF exact, g, need
<1>10. HeapWith(two, g, AreaSize - node)
  <2>1. Need(NodeBytes) < AreaSize BY <1>1, <1>2, <1>3, <1>4
  <2> QED BY <1>1, <1>3, <1>6, <2>1, NodeKeeps
<1> HIDE DEF two
<1>11. HeapWith(four, g, AreaSize - node - node)
  <2>1. Need(NodeBytes) < AreaSize - node /\ AreaSize - node \in Nat BY <1>1, <1>2, <1>3, <1>4
  <2> QED BY <1>3, <1>10, <2>1, NodeKeeps
<1> HIDE DEF four
<1>12. HeapWith(eight, g, AreaSize - node - node - node)
  <2>1. Need(NodeBytes) < AreaSize - node - node /\ AreaSize - node - node \in Nat
    BY <1>1, <1>2, <1>3, <1>4
  <2> QED BY <1>3, <1>11, <2>1, NodeKeeps
<1> HIDE DEF eight, node
<1>13. PICK room \in Nat : need <= room /\ HeapWith(h, g, room)
  <2>1. CASE h = exact
    <3>1. need <= AreaSize BY <1>1, <1>2, <1>3, <1>4
    <3> QED BY <1>1, <1>6, <2>1, <3>1
  <2>2. CASE h = two
    <3>1. AreaSize - node \in Nat /\ need <= AreaSize - node BY <1>1, <1>2, <1>3, <1>4
    <3> QED BY <1>10, <2>2, <3>1
  <2>3. CASE h = four
    <3>1. AreaSize - node - node \in Nat /\ need <= AreaSize - node - node
      BY <1>1, <1>2, <1>3, <1>4
    <3> QED BY <1>11, <2>3, <3>1
  <2>4. CASE h = eight
    <3>1. AreaSize - node - node - node \in Nat /\ need <= AreaSize - node - node - node
      BY <1>1, <1>2, <1>3, <1>4
    <3> QED BY <1>12, <2>4, <3>1
  <2> QED BY <1>8, <2>1, <2>2, <2>3, <2>4
<1>14. h.held \in SUBSET Blocks /\ HeapList(h.list, g, h.held) /\ h.list \in Seq(Segment)
       /\ HasFree(h.list, room)
  BY <1>13 DEF HeapWith, HeapList
<1>15. Fitting(h.list, need) # 0 BY <1>2, <1>13, <1>14, RoomIsFound
<1>16. bytes \in Requests \cup {NodeBytes} OBVIOUS
<1>17. /\ HeapList(Allocated(h.list, need), g, h.held \cup {Block(h.list, bytes, need)})
       /\ h.held \cup {Block(h.list, bytes, need)} \in SUBSET Blocks
  BY <1>2, <1>14, <1>15, <1>16, AllocHolds
<1> QED BY <1>7, <1>8, <1>9, <1>17 DEF KHeapInv

\* One segment only is where the block of kfree is.
LEMMA SegmentFound ==
    ASSUME NEW list \in Seq(Segment), SegsApart(list), NEW k \in 1 .. Len(list), NEW at,
           list[k].at = at
    PROVE  /\ {j \in 1 .. Len(list) : list[j].at = at} = {k}
           /\ Min({k}) = k
<1>1. {j \in 1 .. Len(list) : list[j].at = at} = {k} BY AtIsUnique
<1>2. k \in Nat BY LenProperties
<1>3. Min({k}) = k BY <1>2 DEF Min
<1> QED BY <1>1, <1>3

\* The list with the segment k free.
SegmentFreed(list, k, l) ==
    /\ l \in Seq(Segment) /\ SegsApart(l) /\ CoalescedBut(l, {k - 1, k})
    /\ \A u \in Nat : Covers(l, u) <=> Covers(list, u)
    /\ UsedIn(l) = UsedIn(list) \ {list[k]}

LEMMA FreedIs ==
    ASSUME NEW list \in Seq(Segment), SegsApart(list), NEW k \in 1 .. Len(list), list[k].used,
           CoalescedBut(list, {}), NEW l, l = [list EXCEPT ![k].used = FALSE]
    PROVE  SegmentFreed(list, k, l)
<1> DEFINE x == [list[k] EXCEPT !.used = FALSE]
<1>1. /\ Len(list) \in Nat /\ DOMAIN list = 1 .. Len(list) /\ list[k] \in Segment
  BY LenProperties, SegmentIs
<1>2. x \in Segment /\ x.at = list[k].at /\ x.size = list[k].size /\ ~x.used
  BY <1>1 DEF Segment
<1>3. l = [list EXCEPT ![k] = x] OBVIOUS
<1> HIDE DEF x
<1>4. l[k] = x /\ \A j \in 1 .. Len(list) : j # k => l[j] = list[j] BY <1>1, <1>3
<1>5. l \in Seq(Segment) /\ Len(l) = Len(list)
  <2>1. \A j \in 1 .. Len(list) : l[j] \in Segment
    <3>1. \A j \in 1 .. Len(list) : list[j] \in Segment BY ElementOfSeq
    <3> QED BY <1>2, <1>4, <3>1
  <2>2. l \in [1 .. Len(list) -> Segment] BY <1>1, <1>3, <2>1
  <2>3. l \in Seq(Segment) BY <1>1, <2>2, SeqDef
  <2> QED BY <1>1, <2>2, <2>3, LenProperties
<1>6. \A j \in 1 .. Len(list) : l[j].at = list[j].at /\ SegEnd(l[j]) = SegEnd(list[j])
  <2>1. SegEnd(x) = SegEnd(list[k]) BY <1>2 DEF SegEnd
  <2> QED BY <1>2, <1>4, <2>1
<1>7. SegsApart(l) BY <1>5, <1>6 DEF SegsApart
<1>8. \A u \in Nat : Covers(l, u) <=> Covers(list, u) BY <1>5, <1>6 DEF Covers
<1>9. CoalescedBut(l, {k - 1, k})
  <2> SUFFICES ASSUME NEW j \in 1 .. Len(l) - 1, j # k - 1, j # k
               PROVE  ~Combinable(l[j], l[j + 1])
    BY DEF CoalescedBut
  <2>1. j \in 1 .. Len(list) - 1 /\ j \in 1 .. Len(list) /\ j + 1 \in 1 .. Len(list) /\ j + 1 # k
    BY <1>1, <1>5
  <2>2. l[j] = list[j] /\ l[j + 1] = list[j + 1] BY <1>4, <2>1
  <2>3. ~Combinable(list[j], list[j + 1]) BY <2>1 DEF CoalescedBut
  <2> QED BY <2>2, <2>3
<1>10. UsedIn(l) = UsedIn(list) \ {list[k]}
  <2>1. ASSUME NEW j \in 1 .. Len(l), l[j].used PROVE l[j] \in UsedIn(list) \ {list[k]}
    <3>1. j # k BY <1>2, <1>4, <2>1
    <3>2. j \in 1 .. Len(list) /\ l[j] = list[j] BY <1>4, <1>5, <3>1
    <3>3. list[j] # list[k] BY <3>1, <3>2, AtIsUnique
    <3> QED BY <2>1, <3>2, <3>3 DEF UsedIn
  <2>2. ASSUME NEW j \in 1 .. Len(list), list[j].used, list[j] # list[k]
        PROVE  list[j] \in UsedIn(l)
    <3>1. j # k BY <2>2
    <3>2. j \in 1 .. Len(l) /\ l[j] = list[j] BY <1>4, <1>5, <3>1
    <3> QED BY <2>2, <3>2 DEF UsedIn
  <2>3. UsedIn(l) \subseteq UsedIn(list) \ {list[k]} BY <2>1 DEF UsedIn
  <2>4. UsedIn(list) \ {list[k]} \subseteq UsedIn(l) BY <2>2 DEF UsedIn
  <2> QED BY <2>3, <2>4
<1> QED BY <1>5, <1>7, <1>8, <1>9, <1>10 DEF SegmentFreed

LEMMA KFreeKeeps ==
    ASSUME KHeapAssumption, KHeapInv, NEW block \in live, KFree(block)
    PROVE  KHeapInv'
<1> DEFINE used == UsedIn(segs)
<1>1. segs \in Seq(Segment) /\ SegsApart(segs) /\ CoalescedBut(segs, {}) /\ CallersHold(used, live)
  BY DEF KHeapInv, HeapList
<1>2. PICK k \in 1 .. Len(segs) : segs[k].used /\ segs[k].at = block.at
  <2>1. PICK s \in used : s.at = block.at
    <3> HIDE DEF used
    <3> QED BY <1>1 DEF CallersHold
  <2> QED BY <2>1 DEF UsedIn
<1>3. SelectInSeq(segs, LAMBDA seg : seg.at = block.at) = k
  <2>1. /\ {j \in 1 .. Len(segs) : segs[j].at = block.at} = {k}
        /\ Min({k}) = k
    BY <1>1, <1>2, SegmentFound
  <2> QED BY <2>1 DEF SelectInSeq
<1> DEFINE l == [segs EXCEPT ![k].used = FALSE]
           t == Combine(l, k)
<1>4. segs' = t /\ live' = live \ {block} /\ given' = given BY <1>3 DEF KFree
<1>11. l = [segs EXCEPT ![k].used = FALSE] OBVIOUS
<1> HIDE DEF l
<1>5. /\ l \in Seq(Segment) /\ SegsApart(l) /\ CoalescedBut(l, {k - 1, k})
      /\ \A u \in Nat : Covers(l, u) <=> Covers(segs, u)
      /\ UsedIn(l) = used \ {segs[k]}
  <2>1. SegmentFreed(segs, k, l) BY <1>1, <1>2, <1>11, FreedIs
  <2> QED BY <2>1 DEF SegmentFreed
<1>6. SameHeap(t, l) /\ CoalescedBut(t, {})
  <2>1. k \in Int OBVIOUS
  <2> QED BY <1>5, <2>1, CombineKeeps
<1> HIDE DEF t
<1>7. CallersHold(used \ {segs[k]}, live \ {block})
  <2> DEFINE rest == used \ {segs[k]}
  <2>1. ASSUME NEW s \in used, s.at = segs[k].at PROVE s = segs[k]
    <3>1. PICK j \in 1 .. Len(segs) : s = segs[j] BY DEF UsedIn
    <3>2. j = k BY <1>1, <2>1, <3>1, AtIsUnique
    <3> QED BY <3>1, <3>2
  <2> HIDE DEF used
  <2>2. ASSUME NEW b \in live \ {block}
        PROVE  \E s \in rest : s.at = b.at /\ s.size >= Need(b.bytes)
    <3>1. PICK s \in used : s.at = b.at /\ s.size >= Need(b.bytes) BY <1>1 DEF CallersHold
    <3>2. b.at # block.at BY <1>1 DEF CallersHold
    <3> QED BY <1>2, <3>1, <3>2
  <2>3. \A b, c \in live \ {block} : b.at = c.at => b = c BY <1>1 DEF CallersHold
  <2>4. ASSUME NEW s \in rest PROVE \E b \in live \ {block} : b.at = s.at
    <3>1. PICK b \in live : b.at = s.at BY <1>1 DEF CallersHold
    <3>2. b # block BY <1>2, <2>1, <3>1
    <3> QED BY <3>1, <3>2
  <2> QED BY <2>2, <2>3, <2>4 DEF CallersHold
<1>8. CallersHold(UsedIn(t), live \ {block}) BY <1>5, <1>6, <1>7 DEF SameHeap
<1>9. \A u \in Nat : Covers(t, u) <=> u \in MemoryOf(given)
  BY <1>5, <1>6 DEF SameHeap, KHeapInv, HeapList
<1>10. HeapList(t, given, live \ {block}) BY <1>6, <1>8, <1>9 DEF SameHeap, HeapList
<1> QED BY <1>4, <1>10 DEF KHeapInv

LEMMA KHeapInitInv ==
    ASSUME KHeapAssumption, KHeapInit
    PROVE  KHeapInv
<1> DEFINE x == [at |-> Base, size |-> BaseSize, used |-> FALSE]
<1>1. segs = <<x>> /\ live = {} /\ given = {} BY DEF KHeapInit
<1>2. x \in Segment /\ ~x.used /\ x.at = Base /\ SegEnd(x) = Base + BaseSize
  BY DEF KHeapAssumption, Segment, SegEnd
<1> HIDE DEF x
<1>3. segs \in Seq(Segment) /\ Len(segs) = 1 /\ segs[1] = x BY <1>1, <1>2
<1>4. SegsApart(segs) /\ CoalescedBut(segs, {}) BY <1>3 DEF SegsApart, CoalescedBut
<1>5. UsedIn(segs) = {} BY <1>2, <1>3 DEF UsedIn
<1>6. \A u \in Nat : Covers(segs, u) <=> u \in MemoryOf(given)
  <2> SUFFICES ASSUME NEW u \in Nat PROVE Covers(segs, u) <=> u \in MemoryOf(given) OBVIOUS
  <2>1. Covers(segs, u) <=> Base <= u /\ u < Base + BaseSize BY <1>2, <1>3 DEF Covers
  <2>2. u \in MemoryOf(given) <=> u \in Base .. Base + BaseSize - 1 BY <1>1 DEF MemoryOf
  <2>3. u \in Base .. Base + BaseSize - 1 <=> Base <= u /\ u < Base + BaseSize
    BY DEF KHeapAssumption
  <2> QED BY <2>1, <2>2, <2>3
<1>7. CallersHold(UsedIn(segs), live) BY <1>1, <1>5 DEF CallersHold
<1> QED BY <1>1, <1>3, <1>4, <1>6, <1>7 DEF KHeapInv, HeapList

\* KHeap: the segments are the heap's memory, coalesced, and what is used of them is what
\* the callers hold.  (init_kheap, kmalloc, kfree, do_combine)
THEOREM KHeapInvariant ==
    ASSUME KHeapAssumption
    PROVE  KHeapSpec => []KHeapInv
<1>1. KHeapInit => KHeapInv BY KHeapInitInv
<1>2. KHeapInv /\ [KHeapNext]_kheapVars => KHeapInv'
  <2> SUFFICES ASSUME KHeapInv, [KHeapNext]_kheapVars PROVE KHeapInv' OBVIOUS
  <2>1. CASE UNCHANGED kheapVars
    <3>1. segs' = segs /\ live' = live /\ given' = given BY <2>1 DEF kheapVars
    <3> QED BY <3>1 DEF KHeapInv
  <2>2. CASE KHeapNext BY <2>2, KMallocKeeps, KMallocGrowsKeeps, KFreeKeeps DEF KHeapNext
  <2> QED BY <2>1, <2>2
<1> QED BY <1>1, <1>2, PTL DEF KHeapSpec

\* KHeap: after every kmalloc, kfree and growth the segments describe the heap's memory:
\* they share none and are all of it, every caller has a segment of his own that is long
\* enough, nothing is used by nobody and nothing free in pieces, for any sizes of the
\* requests, of the header and of the areas, and wherever the areas lie.
\* (kmalloc, kfree, do_combine)
THEOREM SegmentsDescribeHeapCorrect ==
    ASSUME KHeapAssumption
    PROVE  KHeapSpec => []SegmentsDescribeHeap
<1>1. KHeapInv => SegmentsDescribeHeap
  <2> SUFFICES ASSUME KHeapInv PROVE SegmentsDescribeHeap OBVIOUS
  <2>1. segs \in Seq(Segment) /\ SegsApart(segs) /\ DOMAIN segs = 1 .. Len(segs)
    BY LenProperties DEF KHeapInv, HeapList
  <2>2. Whole
    <3>1. ASSUME NEW i \in DOMAIN segs, NEW j \in DOMAIN segs, i # j
          PROVE  Units(segs[i]) \cap Units(segs[j]) = {}
      <4>1. SegEnd(segs[i]) <= segs[j].at \/ SegEnd(segs[j]) <= segs[i].at
        BY <2>1, <3>1 DEF SegsApart
      <4>2. /\ segs[i].at \in Nat /\ SegEnd(segs[i]) \in Nat /\ segs[j].at \in Nat
            /\ SegEnd(segs[j]) \in Nat
        BY <2>1, SegmentIs
      <4> QED BY <4>1, <4>2 DEF Units
    <3>2. ASSUME NEW i \in DOMAIN segs
          PROVE  /\ Units(segs[i]) \subseteq Nat
                 /\ \A u \in Nat : u \in Units(segs[i]) <=> segs[i].at <= u /\ u < SegEnd(segs[i])
      <4>1. segs[i].at \in Nat /\ SegEnd(segs[i]) \in Nat BY <2>1, SegmentIs
      <4> QED BY <4>1 DEF Units
    <3>3. MemoryOf(given) \subseteq Nat
      <4> SUFFICES ASSUME NEW u \in MemoryOf(given) PROVE u \in Nat OBVIOUS
      <4>1. CASE u \in Base .. Base + BaseSize - 1 BY <4>1 DEF KHeapAssumption
      <4>2. CASE \E a \in given : u \in a .. a + AreaSize - 1
        <5>1. PICK a \in given : u \in a .. a + AreaSize - 1 BY <4>2
        <5>2. a \in Nat BY DEF KHeapInv, KHeapAssumption
        <5> QED BY <5>1, <5>2 DEF KHeapAssumption
      <4> QED BY <4>1, <4>2 DEF MemoryOf
    <3>4. UNION {Units(segs[i]) : i \in DOMAIN segs} = MemoryOf(given)
      <4>1. ASSUME NEW i \in DOMAIN segs, NEW u \in Units(segs[i]) PROVE u \in MemoryOf(given)
        <5>1. u \in Nat /\ Covers(segs, u) BY <2>1, <3>2 DEF Covers
        <5> QED BY <5>1 DEF KHeapInv, HeapList
      <4>2. ASSUME NEW u \in MemoryOf(given) PROVE \E i \in DOMAIN segs : u \in Units(segs[i])
        <5>1. u \in Nat BY <3>3
        <5>2. Covers(segs, u) BY <5>1 DEF KHeapInv, HeapList
        <5> QED BY <2>1, <3>2, <5>1, <5>2 DEF Covers
      <4> QED BY <4>1, <4>2
    <3>5. HeapMemory = MemoryOf(given) BY DEF HeapMemory, MemoryOf
    <3> QED BY <3>1, <3>4, <3>5 DEF Whole
  <2>3. LiveIsUsed
    <3>1. CallersHold(UsedIn(segs), live) BY DEF KHeapInv, HeapList
    <3>2. ASSUME NEW b \in live
          PROVE  \E i \in DOMAIN segs :
                     segs[i].used /\ segs[i].at = b.at /\ segs[i].size >= Need(b.bytes)
      <4>1. PICK s \in UsedIn(segs) : s.at = b.at /\ s.size >= Need(b.bytes)
        BY <3>1 DEF CallersHold
      <4> QED BY <2>1, <4>1 DEF UsedIn
    <3>3. ASSUME NEW i \in DOMAIN segs, segs[i].used PROVE \E b \in live : b.at = segs[i].at
      <4>1. segs[i] \in UsedIn(segs) BY <2>1, <3>3 DEF UsedIn
      <4> QED BY <3>1, <4>1 DEF CallersHold
    <3>4. \A b, c \in live : b.at = c.at => b = c BY <3>1 DEF CallersHold
    <3> QED BY <3>2, <3>3, <3>4 DEF LiveIsUsed
  <2>4. Coalesced BY DEF KHeapInv, HeapList, CoalescedBut, Coalesced
  <2> QED BY <2>2, <2>3, <2>4 DEF SegmentsDescribeHeap
<1> QED BY <1>1, KHeapInvariant, PTL
---------------------------------------------------------------------------
(* The heap of a module. *)

Chunk == [size : Nat, next : Nat \cup {Null}]

\* The chunks that are free, with the head of their list.
ListOf(cs, held) == DOMAIN cs \ held

HeaderTypes(cs, held) ==
    /\ DOMAIN cs \subseteq Nat /\ ListStart \in DOMAIN cs /\ cs \in [DOMAIN cs -> Chunk]
    /\ held \subseteq DOMAIN cs \ {ListStart}

\* No chunk ends behind the next.
ChunksApart(cs) ==
    \A a, b \in DOMAIN cs : a # ListStart /\ a < b => a + cs[a].size <= b

\* The list rises and holds free chunks only; none is behind two others.
ListRises(cs, held) ==
    \A a \in ListOf(cs, held) :
        cs[a].next # Null => cs[a].next \in ListOf(cs, held) /\ a < cs[a].next

ListIsOne(cs, held) ==
    \A a, b \in ListOf(cs, held) : cs[a].next = cs[b].next /\ cs[a].next # Null => a = b

GoodHeap(cs, held) ==
    /\ HeaderTypes(cs, held) /\ ChunksApart(cs)
    /\ ListRises(cs, held) /\ ListIsOne(cs, held)
    /\ \A a \in held : cs[a].next = Null

MallocInv == ~ overrun => GoodHeap(chunks, allocated)

\* The list is the least set its pointers stay in.
LEMMA FreeIsListed ==
    ASSUME GoodHeap(chunks, allocated)
    PROVE  FreeChunks \cup {ListStart} \subseteq ListOf(chunks, allocated)
<1> DEFINE C == ListOf(chunks, allocated)
<1>1. C \in SUBSET DOMAIN chunks /\ ListStart \in C
  BY DEF GoodHeap, HeaderTypes, ListOf
<1>2. NextsIn(C) BY DEF NextsIn, GoodHeap, ListRises
<1> QED BY <1>1, <1>2 DEF FreeChunks

LEMMA MallocInitInv == ASSUME MallocAssumption PROVE MallocInit => MallocInv
<1> SUFFICES ASSUME MallocInit PROVE GoodHeap(chunks, allocated) BY DEF MallocInv
<1>1. /\ DOMAIN chunks = {0, 1} /\ chunks[0] = [size |-> 0, next |-> 1]
      /\ chunks[1] = [size |-> HeapSize - 1, next |-> Null] /\ allocated = {}
  BY DEF MallocInit, ListStart
<1>2. HeapSize \in Nat /\ HeapSize > 1 /\ Null \notin Nat
  BY DEF MallocAssumption
<1>3. HeaderTypes(chunks, allocated)
  <2>1. chunks[0] \in Chunk /\ chunks[1] \in Chunk BY <1>1, <1>2 DEF Chunk
  <2>2. chunks = [a \in {0, 1} |-> chunks[a]] BY <1>1 DEF MallocInit, ListStart
  <2>3. chunks \in [DOMAIN chunks -> Chunk] BY <1>1, <2>1, <2>2
  <2> QED BY <1>1, <2>3 DEF HeaderTypes, ListStart
<1>4. ChunksApart(chunks) BY <1>1 DEF ChunksApart, ListStart
<1>5. ListOf(chunks, allocated) = {0, 1} BY <1>1 DEF ListOf
<1>6. ListRises(chunks, allocated) /\ ListIsOne(chunks, allocated)
  BY <1>1, <1>2, <1>5 DEF ListRises, ListIsOne
<1> QED BY <1>1, <1>3, <1>4, <1>6 DEF GoodHeap

\* A chunk that is not split is unlinked.
LEMMA UnlinkedWhole ==
    ASSUME MallocAssumption, GoodHeap(chunks, allocated), NEW last \in ListOf(chunks, allocated),
           NEW a, chunks[last].next = a, a # Null,
           NEW cs, cs = [chunks EXCEPT ![last].next = chunks[a].next, ![a].next = Null]
    PROVE  GoodHeap(cs, allocated \cup {a})
<1>1. /\ HeaderTypes(chunks, allocated) /\ ChunksApart(chunks)
      /\ ListRises(chunks, allocated) /\ ListIsOne(chunks, allocated)
      /\ \A x \in allocated : chunks[x].next = Null
  BY DEF GoodHeap
<1>2. Null \notin Nat /\ DOMAIN chunks \subseteq Nat /\ ListStart = 0
  BY <1>1 DEF MallocAssumption, HeaderTypes, ListStart
<1>3. a \in ListOf(chunks, allocated) /\ last < a BY <1>1 DEF ListRises
<1>4. a \in DOMAIN chunks /\ last \in DOMAIN chunks /\ a # last /\ a # ListStart
  BY <1>2, <1>3 DEF ListOf
<1>5. chunks[a] \in Chunk /\ chunks[last] \in Chunk BY <1>1, <1>4 DEF HeaderTypes
<1>6. /\ DOMAIN cs = DOMAIN chunks
      /\ cs[a] = [chunks[a] EXCEPT !.next = Null]
      /\ cs[last] = [chunks[last] EXCEPT !.next = chunks[a].next]
      /\ \A x \in DOMAIN chunks : x # a /\ x # last => cs[x] = chunks[x]
      /\ cs = [x \in DOMAIN chunks |-> cs[x]]
  BY <1>1, <1>4 DEF HeaderTypes
<1>7. /\ \A x \in DOMAIN chunks : cs[x].size = chunks[x].size
      /\ cs[a].next = Null /\ cs[last].next = chunks[a].next
      /\ \A x \in DOMAIN chunks : x # a /\ x # last => cs[x].next = chunks[x].next
  BY <1>5, <1>6 DEF Chunk
<1>8. HeaderTypes(cs, allocated \cup {a})
  <2>1. cs[a] \in Chunk /\ cs[last] \in Chunk BY <1>5, <1>6 DEF Chunk
  <2>2. \A x \in DOMAIN chunks : cs[x] \in Chunk BY <1>1, <1>6, <2>1 DEF HeaderTypes
  <2>3. cs \in [DOMAIN cs -> Chunk] BY <1>6, <2>2
  <2> QED BY <1>1, <1>4, <1>6, <2>3 DEF HeaderTypes
<1>9. ChunksApart(cs) BY <1>1, <1>6, <1>7 DEF ChunksApart
<1>10. ListOf(cs, allocated \cup {a}) = ListOf(chunks, allocated) \ {a}
  BY <1>6 DEF ListOf
<1>11. \A x \in ListOf(chunks, allocated) : x \in DOMAIN chunks /\ (x # last => chunks[x].next # a)
  BY <1>1, <1>3, <1>4 DEF ListIsOne, ListOf
<1>12. ListRises(cs, allocated \cup {a})
  <2> SUFFICES ASSUME NEW x \in ListOf(chunks, allocated), x # a, cs[x].next # Null
               PROVE  cs[x].next \in ListOf(chunks, allocated) /\ cs[x].next # a /\ x < cs[x].next
    BY <1>10 DEF ListRises
  <2>1. CASE x = last
    <3>1. chunks[a].next \in ListOf(chunks, allocated) /\ a < chunks[a].next
      BY <1>1, <1>3, <1>7, <2>1 DEF ListRises
    <3>2. chunks[a].next \in Nat /\ last \in Nat /\ a \in Nat BY <1>2, <1>4, <3>1 DEF ListOf
    <3> QED BY <1>3, <1>7, <2>1, <3>1, <3>2
  <2>2. CASE x # last BY <1>1, <1>7, <1>11, <2>2 DEF ListRises
  <2> QED BY <2>1, <2>2
<1>13. ListIsOne(cs, allocated \cup {a})
  <2> SUFFICES ASSUME NEW x \in ListOf(chunks, allocated), NEW y \in ListOf(chunks, allocated),
                      x # a, y # a, cs[x].next = cs[y].next, cs[x].next # Null
               PROVE  x = y
    BY <1>10 DEF ListIsOne
  <2>1. \A z \in ListOf(chunks, allocated) : z # a => cs[z].next = IF z = last THEN chunks[a].next ELSE chunks[z].next
    BY <1>7, <1>11
  <2>2. \A u, v \in ListOf(chunks, allocated) :
            chunks[u].next = chunks[v].next /\ chunks[u].next # Null => u = v
    BY <1>1 DEF ListIsOne
  <2>3. CASE x = last /\ y # last
    <3>1. chunks[a].next = chunks[y].next /\ chunks[a].next # Null BY <2>1, <2>3
    <3> QED BY <1>3, <2>2, <3>1
  <2>4. CASE x # last /\ y = last
    <3>1. chunks[x].next = chunks[a].next /\ chunks[x].next # Null BY <2>1, <2>4
    <3> QED BY <1>3, <2>2, <3>1
  <2>5. CASE x # last /\ y # last
    <3>1. chunks[x].next = chunks[y].next /\ chunks[x].next # Null BY <2>1, <2>5
    <3> QED BY <2>2, <3>1
  <2> QED BY <2>3, <2>4, <2>5
<1>14. \A x \in allocated \cup {a} : cs[x].next = Null
  BY <1>1, <1>7 DEF HeaderTypes, ListOf
<1> QED BY <1>8, <1>9, <1>12, <1>13, <1>14 DEF GoodHeap

\* A chunk is split, and its remainder, which ends before the chunk behind it, takes its
\* place in the list.
LEMMA SplitOff ==
    ASSUME MallocAssumption, GoodHeap(chunks, allocated), NEW last \in ListOf(chunks, allocated),
           NEW a, chunks[last].next = a, a # Null,
           NEW need \in Nat, chunks[a].size - need >= 1,
           \A b \in DOMAIN chunks : a < b => ChunkEnd(a) < b,
           NEW cs,
           cs = [WithChunk(a + 1 + need, [size |-> chunks[a].size - need, next |-> chunks[a].next])
                    EXCEPT ![last].next = a + 1 + need, ![a] = [size |-> need, next |-> Null]]
    PROVE  GoodHeap(cs, allocated \cup {a})
<1> DEFINE at == a + 1 + need
           left == chunks[a].size - need
           rest == [size |-> left, next |-> chunks[a].next]
<1>1. /\ HeaderTypes(chunks, allocated) /\ ChunksApart(chunks)
      /\ ListRises(chunks, allocated) /\ ListIsOne(chunks, allocated)
      /\ \A x \in allocated : chunks[x].next = Null
  BY DEF GoodHeap
<1>2. Null \notin Nat /\ DOMAIN chunks \subseteq Nat /\ ListStart = 0 /\ ListStart \in DOMAIN chunks
  BY <1>1 DEF MallocAssumption, HeaderTypes, ListStart
<1>3. a \in ListOf(chunks, allocated) /\ last < a BY <1>1 DEF ListRises
<1>4. /\ a \in DOMAIN chunks /\ last \in DOMAIN chunks /\ a # last /\ a # ListStart
      /\ a \in Nat /\ last \in Nat
  BY <1>2, <1>3 DEF ListOf
<1>5. chunks[a] \in Chunk /\ chunks[last] \in Chunk BY <1>1, <1>4 DEF HeaderTypes
<1>6. chunks[a].size \in Nat /\ left \in Nat /\ left >= 1 /\ chunks[a].next \in Nat \cup {Null}
  BY <1>5 DEF Chunk
<1>7. \A b \in DOMAIN chunks : a < b => at + left <= b /\ at < b
  <2> SUFFICES ASSUME NEW b \in DOMAIN chunks, a < b PROVE at + left <= b /\ at < b OBVIOUS
  <2>1. a + chunks[a].size < b /\ b \in Nat BY <1>2 DEF ChunkEnd
  <2> QED BY <1>4, <1>6, <2>1
<1>8. at \in Nat /\ at > a /\ at \notin DOMAIN chunks /\ at # Null
  <2>1. at \in Nat /\ at > a BY <1>4
  <2> QED BY <1>2, <1>7, <2>1
<1>9. /\ DOMAIN cs = DOMAIN chunks \cup {at}
      /\ cs[at] = rest
      /\ cs[a] = [size |-> need, next |-> Null]
      /\ cs[last] = [chunks[last] EXCEPT !.next = at]
      /\ \A x \in DOMAIN chunks : x # a /\ x # last => cs[x] = chunks[x]
      /\ cs = [x \in DOMAIN chunks \cup {at} |-> cs[x]]
  <2> HIDE DEF at, rest
  <2>1. WithChunk(at, rest) = [x \in DOMAIN chunks \cup {at} |-> IF x = at THEN rest ELSE chunks[x]]
    BY DEF WithChunk
  <2>2. cs = [WithChunk(at, rest) EXCEPT ![last].next = at, ![a] = [size |-> need, next |-> Null]]
    BY DEF at, rest, left
  <2> DEFINE with == WithChunk(at, rest)
  <2>3. /\ DOMAIN with = DOMAIN chunks \cup {at} /\ with[at] = rest
        /\ \A x \in DOMAIN chunks : with[x] = chunks[x]
        /\ with = [x \in DOMAIN chunks \cup {at} |-> with[x]]
    BY <1>8, <2>1
  <2>4. cs = [with EXCEPT ![last].next = at, ![a] = [size |-> need, next |-> Null]] BY <2>2
  <2> HIDE DEF with
  <2>5. /\ DOMAIN cs = DOMAIN with /\ cs = [x \in DOMAIN with |-> cs[x]]
        /\ \A x \in DOMAIN with : x # a /\ x # last => cs[x] = with[x]
    BY <2>3, <2>4
  <2>6. cs[a] = [size |-> need, next |-> Null] /\ cs[last] = [with[last] EXCEPT !.next = at]
    BY <1>4, <2>3, <2>4
  <2>7. cs[at] = rest
    <3>1. at \in DOMAIN with /\ at # a /\ at # last BY <1>4, <1>8, <2>3
    <3> QED BY <2>3, <2>5, <3>1
  <2>8. cs[last] = [chunks[last] EXCEPT !.next = at] BY <1>4, <2>3, <2>6
  <2>9. \A x \in DOMAIN chunks : x # a /\ x # last => cs[x] = chunks[x] BY <2>3, <2>5
  <2>10. DOMAIN cs = DOMAIN chunks \cup {at} /\ cs = [x \in DOMAIN chunks \cup {at} |-> cs[x]]
    BY <2>3, <2>5
  <2> QED BY <2>6, <2>7, <2>8, <2>9, <2>10
<1>10. /\ cs[at].size = left /\ cs[at].next = chunks[a].next
       /\ cs[a].size = need /\ cs[a].next = Null
       /\ cs[last].size = chunks[last].size /\ cs[last].next = at
       /\ \A x \in DOMAIN chunks : x # a /\ x # last => cs[x].size = chunks[x].size
                                                        /\ cs[x].next = chunks[x].next
  <2> HIDE DEF at, left
  <2> QED BY <1>5, <1>9 DEF Chunk
<1> HIDE DEF at, left
<1>11. at = a + 1 + need /\ left = chunks[a].size - need BY DEF at, left
<1>12. HeaderTypes(cs, allocated \cup {a})
  <2>1. rest \in Chunk /\ cs[a] \in Chunk BY <1>6, <1>9 DEF Chunk
  <2>2. cs[last] \in Chunk BY <1>5, <1>8, <1>9 DEF Chunk
  <2> HIDE DEF rest
  <2>3. \A x \in DOMAIN cs : cs[x] \in Chunk BY <1>1, <1>9, <2>1, <2>2 DEF HeaderTypes
  <2>4. cs \in [DOMAIN cs -> Chunk] BY <1>9, <2>3
  <2> QED BY <1>1, <1>2, <1>4, <1>8, <1>9, <2>4 DEF HeaderTypes
<1>13. \A x \in DOMAIN chunks : x \in Nat /\ chunks[x].size \in Nat
                                /\ (x # a => cs[x].size = chunks[x].size)
  <2>1. \A x \in DOMAIN chunks : chunks[x].size \in Nat BY <1>1 DEF HeaderTypes, Chunk
  <2> QED BY <1>2, <1>10, <2>1
<1>14. ChunksApart(cs)
  <2> SUFFICES ASSUME NEW x \in DOMAIN cs, NEW y \in DOMAIN cs, x # ListStart, x < y
               PROVE  x + cs[x].size <= y
    BY DEF ChunksApart
  <2>1. CASE x = at
    <3>1. y \in DOMAIN chunks /\ a < y BY <1>4, <1>8, <1>9, <1>13, <2>1
    <3> QED BY <1>7, <1>10, <2>1, <3>1
  <2>2. CASE x = a
    <3>1. a + need <= at BY <1>4, <1>11
    <3>2. y = at \/ at < y BY <1>7, <1>9, <2>2
    <3> QED BY <1>4, <1>8, <1>9, <1>10, <1>11, <1>13, <2>2, <3>1, <3>2
  <2>3. CASE x \in DOMAIN chunks /\ x # a
    <3>1. cs[x].size = chunks[x].size BY <1>13, <2>3
    <3>2. CASE y \in DOMAIN chunks BY <1>1, <2>3, <3>1, <3>2 DEF ChunksApart
    <3>3. CASE y = at
      <4>1. x < a
        <5>1. ~ a < x BY <1>7, <1>8, <1>13, <2>3, <3>3
        <5> QED BY <1>4, <1>13, <2>3, <5>1
      <4>2. x + chunks[x].size <= a BY <1>1, <1>4, <2>3, <4>1 DEF ChunksApart
      <4> QED BY <1>4, <1>8, <1>13, <2>3, <3>1, <3>3, <4>2
    <3> QED BY <1>9, <3>2, <3>3
  <2> QED BY <1>9, <2>1, <2>2, <2>3
<1>15. ListOf(cs, allocated \cup {a}) = (ListOf(chunks, allocated) \ {a}) \cup {at}
  BY <1>1, <1>8, <1>9 DEF ListOf, HeaderTypes
<1>16. \A x \in ListOf(chunks, allocated) : x \in DOMAIN chunks /\ (x # last => chunks[x].next # a)
  BY <1>1, <1>3, <1>4 DEF ListIsOne, ListOf
<1>17. chunks[a].next # Null => chunks[a].next \in ListOf(chunks, allocated) /\ a < chunks[a].next
  BY <1>1, <1>3 DEF ListRises
<1>18. ListRises(cs, allocated \cup {a})
  <2> SUFFICES ASSUME NEW x \in (ListOf(chunks, allocated) \ {a}) \cup {at}, cs[x].next # Null
               PROVE  /\ cs[x].next \in (ListOf(chunks, allocated) \ {a}) \cup {at}
                      /\ x < cs[x].next
    BY <1>15 DEF ListRises
  <2>1. CASE x = at
    <3>1. cs[x].next = chunks[a].next BY <1>10, <2>1
    <3>2. chunks[a].next \in ListOf(chunks, allocated) /\ a < chunks[a].next BY <1>17, <3>1
    <3>3. at < chunks[a].next BY <1>7, <3>2 DEF ListOf
    <3>4. chunks[a].next # a BY <1>4, <3>2
    <3> QED BY <2>1, <3>1, <3>2, <3>3, <3>4
  <2>2. CASE x = last BY <1>3, <1>4, <1>8, <1>10, <2>2
  <2>3. CASE x # at /\ x # last
    <3>1. x \in ListOf(chunks, allocated) /\ x # a BY <2>3
    <3>2. cs[x].next = chunks[x].next /\ chunks[x].next # a BY <1>10, <1>16, <2>3, <3>1
    <3> QED BY <1>1, <3>1, <3>2 DEF ListRises
  <2> QED BY <2>1, <2>2, <2>3
<1>19. ListIsOne(cs, allocated \cup {a})
  <2> SUFFICES ASSUME NEW x \in (ListOf(chunks, allocated) \ {a}) \cup {at},
                      NEW y \in (ListOf(chunks, allocated) \ {a}) \cup {at},
                      cs[x].next = cs[y].next, cs[x].next # Null
               PROVE  x = y
    BY <1>15 DEF ListIsOne
  <2>1. \A z \in ListOf(chunks, allocated) \ {a} :
            /\ z # last => cs[z].next = chunks[z].next
            /\ z = last => cs[z].next = at
            /\ z # at
    BY <1>8, <1>10, <1>16
  <2>2. \A z \in ListOf(chunks, allocated) \ {a} : z # last => cs[z].next # at
    <3>1. \A z \in ListOf(chunks, allocated) : chunks[z].next # at
      BY <1>1, <1>8, <1>16 DEF ListRises
    <3> QED BY <2>1, <3>1
  <2>3. cs[at].next = chunks[a].next /\ cs[at].next # at
    <3>1. chunks[a].next # at BY <1>8, <1>17 DEF ListOf
    <3> QED BY <1>10, <3>1
  <2>4. \A u, v \in ListOf(chunks, allocated) :
            chunks[u].next = chunks[v].next /\ chunks[u].next # Null => u = v
    BY <1>1 DEF ListIsOne
  <2>5. CASE x = at /\ y # at
    <3>1. y # last BY <2>1, <2>3, <2>5
    <3>2. chunks[a].next = chunks[y].next /\ chunks[a].next # Null BY <2>1, <2>3, <2>5, <3>1
    <3> QED BY <1>3, <2>4, <2>5, <3>2
  <2>6. CASE x # at /\ y = at
    <3>1. x # last BY <2>1, <2>3, <2>6
    <3>2. chunks[a].next = chunks[x].next /\ chunks[a].next # Null BY <2>1, <2>3, <2>6, <3>1
    <3> QED BY <1>3, <2>4, <2>6, <3>2
  <2>7. CASE x # at /\ y # at
    <3>1. x \in ListOf(chunks, allocated) \ {a} /\ y \in ListOf(chunks, allocated) \ {a} BY <2>7
    <3>2. x = last <=> y = last BY <2>1, <2>2, <3>1
    <3> QED BY <2>1, <2>4, <3>1, <3>2
  <2> QED BY <2>5, <2>6, <2>7
<1>20. \A x \in allocated \cup {a} : cs[x].next = Null
  <2>1. \A x \in allocated : x # a /\ x # last /\ x \in DOMAIN chunks
    BY <1>1, <1>3 DEF ListOf, HeaderTypes
  <2> QED BY <1>1, <1>10, <2>1
<1> QED BY <1>12, <1>14, <1>18, <1>19, <1>20 DEF GoodHeap

LEMMA MallocKeeps ==
    ASSUME MallocAssumption, GoodHeap(chunks, allocated), NEW n \in MallocSizes, Malloc(n)
    PROVE  MallocInv'
<1>1. PICK last \in FreeChunks \cup {ListStart} :
          /\ First(chunks[last].next, LargeEnough(n))
          /\ chunks' = TakenOut(chunks[last].next, last, Fixed(n))
          /\ allocated' = allocated \cup {chunks[last].next}
          /\ overrun' = Overruns(chunks[last].next, Fixed(n))
  BY DEF Malloc
<1> DEFINE a == chunks[last].next
<1>2. last \in ListOf(chunks, allocated) BY <1>1, FreeIsListed
<1>3. a \in DOMAIN chunks BY <1>1 DEF First, LargeEnough, FreeChunks
<1>4. a # Null /\ a \in Nat /\ DOMAIN chunks \subseteq Nat /\ chunks[a].size \in Nat
  BY <1>3 DEF GoodHeap, HeaderTypes, MallocAssumption, Chunk
<1>5. Fixed(n) \in Nat BY DEF MallocAssumption, Fixed
<1> SUFFICES ASSUME ~ overrun' PROVE GoodHeap(chunks', allocated') BY DEF MallocInv
<1>6. CASE Splits(chunks[a].size, Fixed(n))
  <2>1. ~ Overruns(a, Fixed(n)) BY <1>1
  <2>2. ASSUME NEW b \in DOMAIN chunks, a < b PROVE ChunkEnd(a) < b
    <3>1. ~ b <= ChunkEnd(a) BY <1>6, <2>1, <2>2 DEF Overruns
    <3> QED BY <1>4, <3>1 DEF ChunkEnd
  <2>3. chunks[a].size - Fixed(n) >= 1 BY <1>6 DEF Splits
  <2>4. chunks' = [WithChunk(a + 1 + Fixed(n), [size |-> chunks[a].size - Fixed(n), next |-> chunks[a].next])
                      EXCEPT ![last].next = a + 1 + Fixed(n), ![a] = [size |-> Fixed(n), next |-> Null]]
    BY <1>1, <1>6 DEF TakenOut, Remainder
  <2> HIDE DEF a
  <2>5. chunks[last].next = a /\ allocated' = allocated \cup {a} BY <1>1 DEF a
  <2>6. GoodHeap(chunks', allocated \cup {a})
    BY <1>2, <1>4, <1>5, <2>2, <2>3, <2>4, <2>5, SplitOff
  <2> QED BY <2>5, <2>6
<1>7. CASE ~ Splits(chunks[a].size, Fixed(n))
  <2>1. chunks' = [chunks EXCEPT ![last].next = chunks[a].next, ![a].next = Null]
    BY <1>1, <1>7 DEF TakenOut
  <2> QED BY <1>1, <1>2, <1>4, <2>1, UnlinkedWhole
<1> QED BY <1>6, <1>7

\* A chunk that takes in the one behind it keeps apart from the others.
LEMMA MergedKeeps ==
    ASSUME MallocAssumption, NEW cs, NEW g, GoodHeap(cs, g), NEW last \in ListOf(cs, g)
    PROVE  GoodHeap(Merged(cs, last), g) /\ last \in ListOf(Merged(cs, last), g)
<1> DEFINE nxt == cs[last].next
           new == Merged(cs, last)
<1>1. CASE ~(last # ListStart /\ nxt # Null /\ last + cs[last].size = nxt)
  BY <1>1 DEF Merged
<1>2. CASE last # ListStart /\ nxt # Null /\ last + cs[last].size = nxt
  <2>1. /\ HeaderTypes(cs, g) /\ ChunksApart(cs) /\ ListRises(cs, g) /\ ListIsOne(cs, g)
        /\ \A x \in g : cs[x].next = Null
    BY DEF GoodHeap
  <2>2. Null \notin Nat /\ DOMAIN cs \subseteq Nat /\ ListStart = 0 /\ ListStart \in DOMAIN cs
    BY <2>1 DEF MallocAssumption, HeaderTypes, ListStart
  <2>3. nxt \in ListOf(cs, g) /\ last < nxt BY <1>2, <2>1 DEF ListRises
  <2>4. last \in DOMAIN cs /\ nxt \in DOMAIN cs /\ last # nxt /\ nxt # ListStart /\ nxt \notin g
        /\ last \in Nat /\ nxt \in Nat
    BY <2>2, <2>3 DEF ListOf
  <2>5. cs[last] \in Chunk /\ cs[nxt] \in Chunk BY <2>1, <2>4 DEF HeaderTypes
  <2>6. new = [x \in DOMAIN cs \ {nxt} |->
                  IF x = last THEN [size |-> cs[last].size + cs[nxt].size, next |-> cs[nxt].next]
                  ELSE cs[x]]
    BY <1>2 DEF Merged
  <2> HIDE DEF new, nxt
  <2>7. /\ DOMAIN new = DOMAIN cs \ {nxt}
        /\ new[last] = [size |-> cs[last].size + cs[nxt].size, next |-> cs[nxt].next]
        /\ \A x \in DOMAIN new : x # last => new[x] = cs[x]
        /\ new = [x \in DOMAIN new |-> new[x]]
    BY <2>4, <2>6
  <2>8. new[last].size = cs[last].size + cs[nxt].size /\ new[last].next = cs[nxt].next
    BY <2>7
  <2>9. HeaderTypes(new, g)
    <3>1. new[last] \in Chunk BY <2>5, <2>7 DEF Chunk
    <3>2. \A x \in DOMAIN new : new[x] \in Chunk BY <2>1, <2>7, <3>1 DEF HeaderTypes
    <3>3. new \in [DOMAIN new -> Chunk] BY <2>7, <3>2
    <3> QED BY <2>1, <2>4, <2>7, <3>3 DEF HeaderTypes
  <2>10. ChunksApart(new)
    <3> SUFFICES ASSUME NEW x \in DOMAIN new, NEW y \in DOMAIN new, x # ListStart, x < y
                 PROVE  x + new[x].size <= y
      BY DEF ChunksApart
    <3>1. x \in DOMAIN cs /\ y \in DOMAIN cs /\ y # nxt /\ y \in Nat BY <2>2, <2>7
    <3>2. CASE x # last BY <2>1, <2>7, <3>1, <3>2 DEF ChunksApart
    <3>3. CASE x = last
      <4>1. nxt <= y
        <5>1. last + cs[last].size <= y BY <1>2, <2>1, <3>1, <3>3 DEF ChunksApart
        <5> QED BY <1>2, <5>1 DEF nxt
      <4>2. nxt < y BY <2>4, <3>1, <4>1
      <4>3. nxt + cs[nxt].size <= y BY <2>1, <2>4, <3>1, <4>2 DEF ChunksApart
      <4>4. last + cs[last].size = nxt BY <1>2 DEF nxt
      <4>5. cs[last].size \in Nat /\ cs[nxt].size \in Nat BY <2>5 DEF Chunk
      <4> QED BY <2>4, <2>8, <3>1, <3>3, <4>3, <4>4, <4>5
    <3> QED BY <3>2, <3>3
  <2>11. ListOf(new, g) = ListOf(cs, g) \ {nxt} BY <2>7 DEF ListOf
  <2>12. \A x \in ListOf(cs, g) \ {nxt} :
             /\ new[x].next = IF x = last THEN cs[nxt].next ELSE cs[x].next
             /\ x # last => cs[x].next # nxt
    <3>1. \A x \in ListOf(cs, g) : x # last => cs[x].next # nxt
      BY <1>2, <2>1 DEF ListIsOne, nxt
    <3>2. \A x \in ListOf(cs, g) \ {nxt} : x \in DOMAIN new BY <2>11 DEF ListOf
    <3> QED BY <2>7, <2>8, <3>1, <3>2
  <2>13. cs[nxt].next # Null => cs[nxt].next \in ListOf(cs, g) /\ nxt < cs[nxt].next
    BY <2>1, <2>3 DEF ListRises
  <2>14. ListRises(new, g)
    <3> SUFFICES ASSUME NEW x \in ListOf(cs, g) \ {nxt}, new[x].next # Null
                 PROVE  new[x].next \in ListOf(cs, g) \ {nxt} /\ x < new[x].next
      BY <2>11 DEF ListRises
    <3>1. CASE x = last
      <4>1. new[x].next = cs[nxt].next BY <2>12, <3>1
      <4>2. cs[nxt].next \in Nat BY <2>2, <2>13, <4>1 DEF ListOf
      <4> QED BY <2>3, <2>4, <2>13, <3>1, <4>1, <4>2
    <3>2. CASE x # last BY <2>1, <2>12, <3>2 DEF ListRises
    <3> QED BY <3>1, <3>2
  <2>15. ListIsOne(new, g)
    <3> SUFFICES ASSUME NEW x \in ListOf(cs, g) \ {nxt}, NEW y \in ListOf(cs, g) \ {nxt},
                        new[x].next = new[y].next, new[x].next # Null
                 PROVE  x = y
      BY <2>11 DEF ListIsOne
    <3> QED BY <2>1, <2>3, <2>12 DEF ListIsOne
  <2>16. \A x \in g : new[x].next = Null
    <3>1. \A x \in g : x \in DOMAIN new /\ x # last BY <2>1, <2>4, <2>7 DEF HeaderTypes, ListOf
    <3> QED BY <2>1, <2>7, <3>1
  <2>17. last \in ListOf(new, g) BY <2>4, <2>11
  <2> QED BY <2>9, <2>10, <2>14, <2>15, <2>16, <2>17 DEF GoodHeap, new
<1> QED BY <1>1, <1>2

\* A chunk that is given back takes its place in the list.
LEMMA LinkedKeeps ==
    ASSUME MallocAssumption, GoodHeap(chunks, allocated), NEW a \in allocated,
           NEW last \in ListOf(chunks, allocated), Between(last, a),
           NEW cs, cs = [chunks EXCEPT ![a].next = chunks[last].next, ![last].next = a]
    PROVE  GoodHeap(cs, allocated \ {a}) /\ last \in ListOf(cs, allocated \ {a})
<1> DEFINE nxt == chunks[last].next
<1>1. /\ HeaderTypes(chunks, allocated) /\ ChunksApart(chunks)
      /\ ListRises(chunks, allocated) /\ ListIsOne(chunks, allocated)
      /\ \A x \in allocated : chunks[x].next = Null
  BY DEF GoodHeap
<1>2. Null \notin Nat /\ DOMAIN chunks \subseteq Nat BY <1>1 DEF MallocAssumption, HeaderTypes
<1>3. last < a /\ nxt # Null /\ a < nxt BY DEF Between
<1>4. /\ a \in DOMAIN chunks /\ a # ListStart /\ a \notin ListOf(chunks, allocated)
      /\ last \in DOMAIN chunks /\ a # last
  BY <1>1 DEF HeaderTypes, ListOf
<1>5. nxt \in ListOf(chunks, allocated) /\ nxt # a BY <1>1, <1>3, <1>4 DEF ListRises
<1>6. chunks[a] \in Chunk /\ chunks[last] \in Chunk /\ a \in Nat /\ nxt \in Nat
  BY <1>1, <1>2, <1>4, <1>5 DEF HeaderTypes, ListOf
<1> HIDE DEF nxt
<1>7. /\ DOMAIN cs = DOMAIN chunks
      /\ cs[a] = [chunks[a] EXCEPT !.next = nxt]
      /\ cs[last] = [chunks[last] EXCEPT !.next = a]
      /\ \A x \in DOMAIN chunks : x # a /\ x # last => cs[x] = chunks[x]
      /\ cs = [x \in DOMAIN chunks |-> cs[x]]
  BY <1>1, <1>4 DEF HeaderTypes, nxt
<1>8. /\ \A x \in DOMAIN chunks : cs[x].size = chunks[x].size
      /\ cs[a].next = nxt /\ cs[last].next = a
      /\ \A x \in DOMAIN chunks : x # a /\ x # last => cs[x].next = chunks[x].next
  BY <1>6, <1>7 DEF Chunk
<1>9. HeaderTypes(cs, allocated \ {a})
  <2>1. cs[a] \in Chunk /\ cs[last] \in Chunk BY <1>6, <1>7 DEF Chunk
  <2>2. \A x \in DOMAIN chunks : cs[x] \in Chunk BY <1>1, <1>7, <2>1 DEF HeaderTypes
  <2>3. cs \in [DOMAIN cs -> Chunk] BY <1>7, <2>2
  <2> QED BY <1>1, <1>7, <2>3 DEF HeaderTypes
<1>10. ChunksApart(cs) BY <1>1, <1>7, <1>8 DEF ChunksApart
<1>11. ListOf(cs, allocated \ {a}) = ListOf(chunks, allocated) \cup {a} BY <1>4, <1>7 DEF ListOf
<1>12. \A x \in ListOf(chunks, allocated) : x \in DOMAIN chunks /\ x # a /\ chunks[x].next # a
  BY <1>1, <1>2, <1>4, <1>6 DEF ListRises, ListOf, MallocAssumption
<1>13. ListRises(cs, allocated \ {a})
  <2> SUFFICES ASSUME NEW x \in ListOf(chunks, allocated) \cup {a}, cs[x].next # Null
               PROVE  /\ cs[x].next \in ListOf(chunks, allocated) \cup {a}
                      /\ x < cs[x].next
    BY <1>11 DEF ListRises
  <2>1. CASE x = a BY <1>3, <1>5, <1>8, <2>1 DEF nxt
  <2>2. CASE x = last BY <1>3, <1>8, <2>2
  <2>3. CASE x # a /\ x # last BY <1>1, <1>8, <1>12, <2>3 DEF ListRises
  <2> QED BY <2>1, <2>2, <2>3
<1>14. ListIsOne(cs, allocated \ {a})
  <2> SUFFICES ASSUME NEW x \in ListOf(chunks, allocated) \cup {a},
                      NEW y \in ListOf(chunks, allocated) \cup {a},
                      cs[x].next = cs[y].next, cs[x].next # Null
               PROVE  x = y
    BY <1>11 DEF ListIsOne
  <2>1. \A z \in ListOf(chunks, allocated) :
            /\ z # last => cs[z].next = chunks[z].next /\ chunks[z].next # nxt
            /\ chunks[z].next # a
    BY <1>1, <1>3, <1>8, <1>12 DEF ListIsOne, nxt
  <2>2. \A u, v \in ListOf(chunks, allocated) :
            chunks[u].next = chunks[v].next /\ chunks[u].next # Null => u = v
    BY <1>1 DEF ListIsOne
  <2>3. cs[a].next = nxt /\ cs[last].next = a /\ nxt # a BY <1>5, <1>8
  <2>4. CASE x = a BY <2>1, <2>3, <2>4
  <2>5. CASE y = a BY <2>1, <2>3, <2>5
  <2>6. CASE x # a /\ y # a
    <3>1. x = last <=> y = last BY <2>1, <2>3, <2>6
    <3> QED BY <2>1, <2>2, <2>6, <3>1
  <2> QED BY <2>4, <2>5, <2>6
<1>15. \A x \in allocated \ {a} : cs[x].next = Null
  BY <1>1, <1>8 DEF HeaderTypes, ListOf
<1>16. last \in ListOf(cs, allocated \ {a}) BY <1>11
<1> QED BY <1>9, <1>10, <1>13, <1>14, <1>15, <1>16 DEF GoodHeap

LEMMA FreeKeeps ==
    ASSUME MallocAssumption, GoodHeap(chunks, allocated), NEW a \in allocated, Free(a)
    PROVE  GoodHeap(chunks', allocated')
<1>1. PICK last \in FreeChunks \cup {ListStart} :
          /\ First(last, {b \in FreeChunks \cup {ListStart} : Between(b, a)})
          /\ chunks' = Merged(Merged([chunks EXCEPT ![a].next = chunks[last].next,
                                                    ![last].next = a], last), last)
          /\ allocated' = allocated \ {a}
  BY DEF Free
<1> DEFINE linked == [chunks EXCEPT ![a].next = chunks[last].next, ![last].next = a]
<1>2. last \in ListOf(chunks, allocated) /\ Between(last, a) BY <1>1, FreeIsListed DEF First
<1>3. GoodHeap(linked, allocated \ {a}) /\ last \in ListOf(linked, allocated \ {a})
  BY <1>2, LinkedKeeps
<1> HIDE DEF linked
<1> DEFINE once == Merged(linked, last)
<1>4. GoodHeap(once, allocated \ {a}) /\ last \in ListOf(once, allocated \ {a})
  BY <1>3, MergedKeeps
<1> HIDE DEF once
<1>5. GoodHeap(Merged(once, last), allocated \ {a}) BY <1>4, MergedKeeps
<1> QED BY <1>1, <1>5 DEF once, linked

\* What free loses is not found again.
LEMMA FreeTopmostKeeps ==
    ASSUME GoodHeap(chunks, allocated), NEW a \in allocated, FreeTopmost(a)
    PROVE  GoodHeap(chunks', allocated')
<1>1. /\ chunks' = [b \in DOMAIN chunks \ {a} |-> chunks[b]] /\ allocated' = allocated \ {a}
  BY DEF FreeTopmost
<1>2. DOMAIN chunks' = DOMAIN chunks \ {a} /\ \A b \in DOMAIN chunks' : chunks'[b] = chunks[b]
  BY <1>1
<1>3. /\ HeaderTypes(chunks, allocated) /\ ChunksApart(chunks)
      /\ ListRises(chunks, allocated) /\ ListIsOne(chunks, allocated)
      /\ \A x \in allocated : chunks[x].next = Null
  BY DEF GoodHeap
<1>4. ListOf(chunks', allocated') = ListOf(chunks, allocated)
      /\ ListOf(chunks, allocated) \subseteq DOMAIN chunks'
  BY <1>1, <1>2 DEF ListOf
<1>5. HeaderTypes(chunks', allocated')
  <2>1. a # ListStart BY <1>3 DEF HeaderTypes
  <2> QED BY <1>1, <1>2, <1>3, <2>1 DEF HeaderTypes
<1>6. ChunksApart(chunks') BY <1>2, <1>3 DEF ChunksApart
<1>7. ListRises(chunks', allocated') BY <1>2, <1>3, <1>4 DEF ListRises
<1>8. ListIsOne(chunks', allocated') BY <1>2, <1>3, <1>4 DEF ListIsOne
<1>9. \A x \in allocated' : chunks'[x].next = Null BY <1>1, <1>2, <1>3 DEF HeaderTypes
<1> QED BY <1>5, <1>6, <1>7, <1>8, <1>9 DEF GoodHeap

\* malloc and free keep the chunks apart and the list in order until a remainder reaches
\* into the chunk behind it.
THEOREM MallocInvariant == MallocSpec => []MallocInv
<1>1. MallocInit => MallocInv BY MallocAssumption, MallocInitInv
<1>2. MallocInv /\ [MallocNext]_mallocVars => MallocInv'
  <2> SUFFICES ASSUME MallocInv, [MallocNext]_mallocVars PROVE MallocInv' OBVIOUS
  <2>1. CASE UNCHANGED mallocVars BY <2>1 DEF mallocVars, MallocInv
  <2>2. CASE MallocNext
    <3>1. GoodHeap(chunks, allocated) BY <2>2 DEF MallocInv, MallocNext
    <3>2. CASE \E n \in MallocSizes : Malloc(n) BY <3>1, <3>2, MallocAssumption, MallocKeeps
    <3>3. CASE \E n \in MallocSizes : MallocFails(n) BY <2>1, <3>3 DEF MallocFails
    <3>4. CASE \E a \in allocated : Free(a)
      BY <3>1, <3>4, MallocAssumption, FreeKeeps DEF MallocInv
    <3>5. CASE \E a \in allocated : FreeTopmost(a) BY <3>1, <3>5, FreeTopmostKeeps DEF MallocInv
    <3> QED BY <2>2, <3>2, <3>3, <3>4, <3>5 DEF MallocNext
  <2> QED BY <2>1, <2>2
<1> QED BY <1>1, <1>2, PTL DEF MallocSpec

LEMMA ApartIsDisjoint == ASSUME MallocInv PROVE LiveDisjoint
<1> SUFFICES ASSUME ~ overrun
             PROVE  /\ \A x, y \in allocated : x < y => ChunkEnd(x) <= y
                    /\ FreeChunks \cap UNION {Extent(x) : x \in allocated} = {}
  BY DEF LiveDisjoint
<1>1. GoodHeap(chunks, allocated) BY DEF MallocInv
<1>2. /\ FreeChunks \subseteq DOMAIN chunks \ {ListStart} /\ FreeChunks \cap allocated = {}
  BY <1>1, FreeIsListed DEF FreeChunks, ListOf
<1>3. /\ allocated \subseteq DOMAIN chunks \ {ListStart} /\ DOMAIN chunks \subseteq Nat
      /\ \A x \in DOMAIN chunks : chunks[x].size \in Nat
  BY <1>1 DEF GoodHeap, HeaderTypes, Chunk
<1>4. ChunksApart(chunks) BY <1>1 DEF GoodHeap
<1>5. \A x, y \in allocated : x < y => ChunkEnd(x) <= y
  BY <1>3, <1>4 DEF ChunksApart, ChunkEnd
<1>6. ASSUME NEW f \in FreeChunks, NEW x \in allocated, f \in Extent(x) PROVE FALSE
  <2>1. f # x /\ f \in DOMAIN chunks /\ x \in DOMAIN chunks /\ x # ListStart BY <1>2, <1>3
  <2>2. f \in Nat /\ x \in Nat /\ chunks[x].size \in Nat BY <1>3, <2>1
  <2>3. x <= f /\ f <= x + chunks[x].size - 1 BY <1>6, <2>2 DEF Extent, ChunkEnd
  <2>4. x < f BY <2>1, <2>2, <2>3
  <2>5. x + chunks[x].size <= f BY <1>4, <2>1, <2>4 DEF ChunksApart
  <2> QED BY <2>2, <2>3, <2>5
<1> QED BY <1>5, <1>6

\* Until a remainder reaches into the chunk behind it, what malloc gives to two callers
\* shares no memory with one another or with the headers of what is free, whatever a module
\* allocates, how large it may be, and frees, in whatever order.
THEOREM LiveDisjointCorrect == MallocSpec => []LiveDisjoint
<1>1. MallocSpec => []MallocInv BY MallocInvariant
<1> QED BY <1>1, ApartIsDisjoint, PTL
---------------------------------------------------------------------------
(* Files on the boot disk, where they lie in the order they are loaded. *)

\* The entry of a cluster is not in front of that of one before it.
LEMMA SectorsRise ==
    ASSUME Fat32Assumption, NEW c \in Nat, NEW d \in Nat, c <= d
    PROVE  Sector(c) \in Nat /\ Sector(c) <= Sector(d)
<1> DEFINE e == EntriesPerSector
           p == c \div e
           q == d \div e
<1>1. e \in Nat \ {0} BY DEF Fat32Assumption
<1> HIDE DEF e
<1>2. p \in Nat /\ q \in Nat /\ e * p <= c /\ c < e * p + e /\ d < e * q + e BY <1>1, DivIs
<1> HIDE DEF p, q
<1>3. e * p < e * q + e BY <1>1, <1>2
<1>4. p <= q BY <1>1, <1>2, <1>3
<1> QED BY <1>2, <1>4 DEF Sector, e, p, q

\* FirstOf gives the least cluster of a set, or the end.
LEMMA FirstIs ==
    ASSUME NEW set, set \subseteq Clusters
    PROVE  IF set = {} THEN FirstOf(set) = EndMark
           ELSE FirstOf(set) \in set /\ \A c \in set : FirstOf(set) <= c
<1>1. CASE set = {} BY <1>1 DEF FirstOf
<1>2. CASE set # {}
  <2>1. set \subseteq Nat BY DEF Clusters
  <2>2. PICK x \in set : \A y \in set : ~(y < x) BY <1>2, <2>1, LeastNumber
  <2>3. \A y \in set : x <= y BY <2>1, <2>2
  <2>4. Min(set) \in set /\ \A y \in set : Min(set) <= y BY <2>2, <2>3 DEF Min
  <2> QED BY <1>2, <2>4 DEF FirstOf
<1> QED BY <1>1, <1>2

FatTypes ==
    /\ owner \in [Clusters -> Files \cup {Root, Nobody}] /\ buffer_start \in Nat
    /\ clus \in Clusters \cup {EndMark} /\ dst \in Seq(Clusters)
    /\ loaded \in {"loading", "true", "false"}

\* What has been read are the clusters of the file in front of clus, which is the
\* next of them, and whose entry is not in front of the buffer.
Reading ==
    /\ clus \in OwnedBy(file) \/ clus = EndMark
    /\ Ascending(dst, {c \in OwnedBy(file) : c < clus})
    /\ clus # EndMark => Sector(clus) >= buffer_start

FatInv == /\ FatTypes
          /\ loaded # "false" => Reading
          /\ loaded = "true"  => clus = EndMark
          /\ loaded = "false" => OwnedBy(file) = {}

\* Where a file begins nothing of it has been read.
LEMMA BeginsReading ==
    ASSUME Fat32Assumption, NEW f, clus = StartClus(f), file = f, dst = <<>>,
           StartClus(f) # EndMark => Sector(StartClus(f)) >= buffer_start
    PROVE  Reading /\ clus \in Clusters \cup {EndMark}
<1> DEFINE set == OwnedBy(f)
<1>1. set \subseteq Clusters BY DEF OwnedBy
<1>2. \A c \in set : c <= LastCluster BY <1>1 DEF Clusters, Fat32Assumption
<1> HIDE DEF set
<1>3. IF set = {} THEN clus = EndMark ELSE clus \in set /\ \A c \in set : clus <= c
  BY <1>1, FirstIs DEF StartClus, set
<1>4. {c \in set : c < clus} = {}
  <2>1. \A c \in set : c \in Nat BY <1>1 DEF Clusters
  <2>2. ASSUME NEW c \in set PROVE ~(c < clus)
    <3>1. clus \in Nat /\ clus <= c /\ c \in Nat BY <1>3, <2>1
    <3> QED BY <3>1
  <2> QED BY <2>2
<1>5. Ascending(dst, {c \in set : c < clus}) BY <1>4 DEF Ascending
<1> QED BY <1>1, <1>3, <1>5 DEF Reading, set

LEMMA FatInitInv ==
    ASSUME Fat32Assumption, FatInit
    PROVE  FatInv
<1>1. /\ owner \in [Clusters -> Files \cup {Root, Nobody}] /\ buffer_start = 0 /\ file = Root
      /\ clus = StartClus(Root) /\ dst = <<>> /\ loaded = "loading"
  BY DEF FatInit
<1>2. StartClus(Root) # EndMark => Sector(StartClus(Root)) >= buffer_start
  <2>1. StartClus(Root) \in Nat \/ StartClus(Root) = EndMark BY FirstIs DEF StartClus, OwnedBy, Clusters
  <2> QED BY <1>1, <2>1, SectorsRise
<1>3. Reading /\ clus \in Clusters \cup {EndMark} BY <1>1, <1>2, BeginsReading
<1>4. dst \in Seq(Clusters) BY <1>1
<1> QED BY <1>1, <1>3, <1>4 DEF FatInv, FatTypes

LEMMA LoadFat32FileKeeps ==
    ASSUME Fat32Assumption, InOrder, FatInv, NEW f \in Files, LoadFat32File(f)
    PROVE  FatInv'
<1>1. /\ Ahead(f) /\ file' = f /\ clus' = StartClus(f) /\ dst' = <<>>
      /\ loaded' = (IF StartClus(f) = EndMark THEN "false" ELSE "loading")
      /\ owner' = owner /\ buffer_start' = buffer_start
  BY DEF LoadFat32File
<1>2. OwnedBy(f) \subseteq Clusters /\ OwnedBy(f)' = OwnedBy(f) BY <1>1 DEF OwnedBy
<1>3. IF OwnedBy(f) = {} THEN StartClus(f) = EndMark
      ELSE StartClus(f) \in OwnedBy(f) /\ \A c \in OwnedBy(f) : StartClus(f) <= c
  BY <1>2, FirstIs DEF StartClus
<1>4. \A c \in Clusters : c \in Nat /\ c < EndMark BY DEF Clusters, EndMark, Fat32Assumption
<1>5. Ascending(dst', {c \in OwnedBy(f) : c < clus'})
  <2>1. {c \in OwnedBy(f) : c < clus'} = {} BY <1>1, <1>2, <1>3, <1>4
  <2> QED BY <1>1, <2>1 DEF Ascending
<1>6. clus' \in OwnedBy(f) \/ clus' = EndMark BY <1>1, <1>3
<1>7. clus' # EndMark => Sector(clus') >= buffer_start' BY <1>1 DEF Ahead
<1>8. Reading' BY <1>1, <1>2, <1>5, <1>6, <1>7 DEF Reading, Ascending, EndMark, Sector
<1>9. dst' \in Seq(Clusters) /\ clus' \in Clusters \cup {EndMark} BY <1>1, <1>2, <1>6
<1>10. FatTypes' BY <1>1, <1>9 DEF FatTypes, FatInv, Clusters, EndMark
<1>11. loaded' = "false" => OwnedBy(f) = {} BY <1>1, <1>2, <1>3, <1>4
<1> QED BY <1>1, <1>2, <1>8, <1>10, <1>11 DEF FatInv

LEMMA LoadClusterKeeps ==
    ASSUME Fat32Assumption, FatInv, LoadCluster
    PROVE  FatInv'
<1>1. /\ loaded = "loading" /\ clus < EndMark /\ dst' = Append(dst, clus)
      /\ buffer_start' = BufferStart(clus) /\ clus' \in Entries(clus)
      /\ owner' = owner /\ file' = file /\ loaded' = loaded
  BY DEF LoadCluster
<1>2. /\ FatTypes /\ Reading /\ BufferSectors \in Nat \ {0} /\ LastCluster \in Nat
  BY <1>1 DEF FatInv, Fat32Assumption
<1>3. /\ clus \in OwnedBy(file) /\ clus \in Clusters /\ clus \in Nat /\ owner[clus] = file
      /\ Sector(clus) \in Nat /\ Sector(clus) >= buffer_start /\ buffer_start \in Nat
  <2>1. EndMark \in Nat BY <1>2 DEF EndMark
  <2>2. clus \in OwnedBy(file) /\ clus # EndMark BY <1>1, <1>2, <2>1 DEF Reading
  <2>3. clus \in Clusters /\ clus \in Nat /\ owner[clus] = file BY <2>2 DEF OwnedBy, Clusters
  <2>4. Sector(clus) \in Nat BY <2>3, SectorsRise
  <2> QED BY <1>2, <2>2, <2>3, <2>4 DEF Reading, FatTypes
\* The entry is in the buffer.
<1>4. BufferStart(clus) \in Nat /\ BufferStart(clus) <= Sector(clus) /\ clus' = Fat(clus)
  <2>1. /\ BufferStart(clus) \in Nat /\ BufferStart(clus) <= Sector(clus)
        /\ Sector(clus) <= BufferStart(clus) + BufferSectors - 1
    BY <1>2, <1>3 DEF BufferStart, Unbuffered
  <2>2. Sector(clus) \in BufferStart(clus) .. BufferStart(clus) + BufferSectors - 1
    BY <1>2, <1>3, <2>1
  <2> QED BY <1>1, <2>1, <2>2 DEF Entries
<1> DEFINE behind == {d \in OwnedBy(file) : d > clus}
<1>5. behind \subseteq Clusters BY DEF OwnedBy
<1>6. IF behind = {} THEN clus' = EndMark
      ELSE clus' \in behind /\ \A c \in behind : clus' <= c
  BY <1>3, <1>4, <1>5, FirstIs DEF Fat
<1>7. OwnedBy(file)' = OwnedBy(file) BY <1>1 DEF OwnedBy
<1>8. \A c \in OwnedBy(file) : c \in Nat /\ c < EndMark
  BY <1>2 DEF OwnedBy, Clusters, EndMark
<1>9. /\ {c \in OwnedBy(file) : c < clus'} = {c \in OwnedBy(file) : c < clus} \cup {clus}
      /\ clus' \in OwnedBy(file) \/ clus' = EndMark
  <2>1. CASE behind = {}
    <3>1. clus' = EndMark BY <1>6, <2>1
    <3>2. \A c \in OwnedBy(file) : c < clus \/ c = clus BY <1>3, <1>8, <2>1
    <3> QED BY <1>3, <1>8, <3>1, <3>2
  <2>2. CASE behind # {}
    <3>1. /\ clus' \in OwnedBy(file) /\ clus < clus'
          /\ \A c \in OwnedBy(file) : c > clus => clus' <= c
      BY <1>6, <2>2
    <3>2. ASSUME NEW c \in OwnedBy(file) PROVE c < clus' <=> c < clus \/ c = clus
      BY <1>3, <1>8, <3>1
    <3> QED BY <1>3, <3>1, <3>2
  <2> QED BY <2>1, <2>2
<1>10. Ascending(dst', {c \in OwnedBy(file) : c < clus} \cup {clus})
  <2> DEFINE set == {c \in OwnedBy(file) : c < clus}
             n == Len(dst)
  <2>1. /\ dst \in Seq(Clusters) /\ n \in Nat /\ DOMAIN dst = 1 .. n
        /\ dst' \in Seq(Clusters) /\ Len(dst') = n + 1 /\ DOMAIN dst' = 1 .. n + 1
        /\ \A i \in 1 .. n : dst'[i] = dst[i]
        /\ dst'[n + 1] = clus
    BY <1>1, <1>2, <1>3, AppendProperties, LenProperties DEF FatTypes
  <2>2. /\ {dst[i] : i \in 1 .. n} = set
        /\ \A i, j \in 1 .. n : i < j => dst[i] < dst[j]
    BY <1>2, <2>1 DEF Reading, Ascending
  <2>3. \A i \in 1 .. n : dst[i] < clus BY <2>2
  <2> HIDE DEF n, set
  <2>4. {dst'[i] : i \in 1 .. n + 1} = set \cup {clus}
    <3>1. ASSUME NEW i \in 1 .. n + 1 PROVE dst'[i] \in set \cup {clus}
      <4>1. CASE i \in 1 .. n BY <2>1, <2>2, <4>1
      <4>2. CASE i = n + 1 BY <2>1, <4>2
      <4> QED BY <2>1, <4>1, <4>2
    <3>2. ASSUME NEW c \in set PROVE \E i \in 1 .. n + 1 : dst'[i] = c
      <4>1. PICK i \in 1 .. n : dst[i] = c BY <2>2
      <4> QED BY <2>1, <4>1
    <3>3. n + 1 \in 1 .. n + 1 BY <2>1
    <3> QED BY <2>1, <3>1, <3>2, <3>3
  <2>5. ASSUME NEW i \in 1 .. n + 1, NEW j \in 1 .. n + 1, i < j PROVE dst'[i] < dst'[j]
    <3>1. i \in 1 .. n /\ (j \in 1 .. n \/ j = n + 1) BY <2>1, <2>5
    <3> QED BY <2>1, <2>2, <2>3, <2>5, <3>1
  <2> QED BY <2>1, <2>4, <2>5 DEF Ascending, set
<1> HIDE DEF behind
<1>11. clus' # EndMark => Sector(clus') >= buffer_start'
  <2> SUFFICES ASSUME clus' # EndMark PROVE Sector(clus') >= buffer_start' OBVIOUS
  <2>1. clus' \in OwnedBy(file) /\ clus < clus' BY <1>6, <1>9 DEF behind
  <2>2. clus' \in Nat BY <1>8, <2>1
  <2>3. Sector(clus) <= Sector(clus') /\ Sector(clus') \in Nat BY <1>3, <2>1, <2>2, SectorsRise
  <2> QED BY <1>1, <1>3, <1>4, <2>3
<1>12. Reading' BY <1>1, <1>7, <1>9, <1>10, <1>11 DEF Reading, Ascending, EndMark, Sector
<1>13. dst' \in Seq(Clusters) BY <1>1, <1>2, <1>3, AppendProperties DEF FatTypes
<1>14. clus' \in Clusters \cup {EndMark} BY <1>9 DEF OwnedBy
<1>15. FatTypes' BY <1>1, <1>2, <1>4, <1>13, <1>14 DEF FatTypes, Clusters, EndMark
<1> QED BY <1>1, <1>12, <1>15 DEF FatInv

LEMMA LoadEndsKeeps ==
    ASSUME FatInv, LoadEnds
    PROVE  FatInv'
BY DEF FatInv, LoadEnds, FatTypes, Reading, OwnedBy, Ascending, Clusters, EndMark, Sector

\* The inductive invariant of the files.
THEOREM FatInvariant ==
    ASSUME InOrder
    PROVE  FatSpec => []FatInv
<1>1. FatInit => FatInv BY Fat32Assumption, FatInitInv
<1>2. FatInv /\ [FatNext]_fatVars => FatInv'
  <2> SUFFICES ASSUME FatInv, [FatNext]_fatVars PROVE FatInv' OBVIOUS
  <2>1. CASE LoadCluster BY <2>1, Fat32Assumption, LoadClusterKeeps
  <2>2. CASE LoadEnds BY <2>2, LoadEndsKeeps
  <2>3. ASSUME NEW f \in Files, LoadFat32File(f) PROVE FatInv'
    BY <2>3, Fat32Assumption, LoadFat32FileKeeps
  <2>4. CASE UNCHANGED fatVars
    BY <2>4 DEF fatVars, FatInv, FatTypes, Reading, OwnedBy, Ascending, Clusters, EndMark, Sector
  <2> QED BY <2>1, <2>2, <2>3, <2>4 DEF FatNext
<1> QED BY <1>1, <1>2, PTL DEF FatSpec

\* What load_file says true of is the file, every cluster of it in order, for any
\* disk whose chains rise, any number of entries in a sector and of sectors in the
\* buffer, whatever files were loaded before, as long as they lie in the order in
\* which they are loaded.
\* (load_fat32_file, __load_file, get_next_clus)
THEOREM LoadsFileCorrect ==
    ASSUME InOrder
    PROVE  FatSpec => []LoadsFile
<1>1. FatInv => LoadsFile
  <2> SUFFICES ASSUME FatInv, loaded = "true" PROVE Ascending(dst, OwnedBy(file))
    BY DEF FatInv, LoadsFile
  <2>1. Ascending(dst, {c \in OwnedBy(file) : c < EndMark}) BY DEF FatInv, Reading
  <2>2. {c \in OwnedBy(file) : c < EndMark} = OwnedBy(file)
    BY Fat32Assumption DEF OwnedBy, Clusters, EndMark
  <2> QED BY <2>1, <2>2
<1> QED BY <1>1, FatInvariant, PTL
---------------------------------------------------------------------------
(* The parser of scan codes, for keys whose codes follow no E0. *)

KeyValues == {<<Pause>>} \cup (Plain \X {"normal", "shift"})

FlagSet == [e0 : BOOLEAN, e1 : BOOLEAN, stage : 0 .. 4, failed : BOOLEAN,
            NUMLOCK : BOOLEAN, CAPSLOCK : BOOLEAN, pushed : SUBSET Shifts]

KeyTypes == /\ wanted \in [keys : Seq(KeyValues), NUMLOCK : BOOLEAN, CAPSLOCK : BOOLEAN]
            /\ down \subseteq Plain

\* The last byte was no E0, nothing has failed, and the rest is as told.
FlagsAre(flags, e1, stage, num, caps, pushed) ==
    /\ flags \in FlagSet /\ ~flags.e0 /\ ~flags.failed
    /\ flags.e1 = e1 /\ flags.stage = stage
    /\ flags.NUMLOCK = num /\ flags.CAPSLOCK = caps /\ flags.pushed = pushed

Held == Shifts \cap down

Toggled(lock, on, k) == IF k = lock THEN ~on ELSE on

\* All is read: the flags are those of the keys that are held and of the lights.
Settled ==
    /\ codes = <<>> /\ out = wanted.keys
    /\ FlagsAre(key_state, FALSE, 0, wanted.NUMLOCK, wanted.CAPSLOCK, Held)

\* The make code of k is on its way.
Made(k) ==
    /\ codes = <<Make(k)>> /\ out = <<>> /\ wanted.keys = Wanted(k) /\ k \in down
    /\ \E pushed \in SUBSET Shifts :
          /\ Held \ {k} \subseteq pushed /\ pushed \subseteq Held
          /\ FlagsAre(key_state, FALSE, 0, Toggled(NUMLOCK, wanted.NUMLOCK, k),
                      Toggled(CAPSLOCK, wanted.CAPSLOCK, k), pushed)

\* The break code of k is on its way.
Broken(k) ==
    /\ codes = <<Break(k)>> /\ out = <<>> /\ wanted.keys = <<>>
    /\ \E pushed \in SUBSET Shifts :
          /\ pushed \ {k} = Held
          /\ FlagsAre(key_state, FALSE, 0, wanted.NUMLOCK, wanted.CAPSLOCK, pushed)

PauseBytes == {pausebreak_codes[i] : i \in 1 .. 6}

\* Of the codes of Pause j have been read.
Pausing(j) ==
    /\ codes \in Seq(PauseBytes) /\ Len(codes) = 6 - j
    /\ \A i \in 1 .. 6 - j : codes[i] = pausebreak_codes[i + j]
    /\ out = <<>> /\ wanted.keys = << <<Pause>> >>
    /\ FlagsAre(key_state, j # 0, IF j = 0 THEN 0 ELSE j - 1,
                wanted.NUMLOCK, wanted.CAPSLOCK, Held)

KeysInv == /\ KeyTypes
           /\ \/ Settled
              \/ \E k \in Plain : Made(k) \/ Broken(k)
              \/ \E j \in 0 .. 5 : Pausing(j)

---------------------------------------------------------------------------
(* What a change of one flag leaves of such flags. *)

LEMMA PushedIs ==
    ASSUME NEW flags, NEW e1, NEW stage, NEW num, NEW caps, NEW pushed,
           FlagsAre(flags, e1, stage, num, caps, pushed), NEW set \in SUBSET Shifts
    PROVE  FlagsAre([flags EXCEPT !.pushed = set], e1, stage, num, caps, set)
BY DEF FlagsAre, FlagSet

LEMMA SequenceIs ==
    ASSUME NEW flags, NEW e1, NEW stage, NEW num, NEW caps, NEW pushed,
           FlagsAre(flags, e1, stage, num, caps, pushed), NEW on \in BOOLEAN
    PROVE  FlagsAre([flags EXCEPT !.e1 = on], on, stage, num, caps, pushed)
BY DEF FlagsAre, FlagSet

LEMMA SequenceGoesOn ==
    ASSUME NEW flags, NEW e1, NEW stage, NEW num, NEW caps, NEW pushed,
           FlagsAre(flags, e1, stage, num, caps, pushed), NEW j \in 0 .. 4
    PROVE  FlagsAre([flags EXCEPT !.stage = j, !.failed = FALSE], e1, j, num, caps, pushed)
<1> DEFINE r == [flags EXCEPT !.stage = j, !.failed = FALSE]
<1>1. flags \in FlagSet BY DEF FlagsAre
<1>2. r \in FlagSet BY <1>1 DEF FlagSet
<1>3. r.stage = j BY <1>1 DEF FlagSet
<1>4. r.failed = FALSE BY <1>1 DEF FlagSet
<1>5. /\ r.e0 = flags.e0 /\ r.e1 = flags.e1 /\ r.NUMLOCK = flags.NUMLOCK
      /\ r.CAPSLOCK = flags.CAPSLOCK /\ r.pushed = flags.pushed
  BY <1>1 DEF FlagSet
<1>6. FlagsAre(r, e1, j, num, caps, pushed)
  <2> HIDE DEF r
  <2> QED BY <1>2, <1>3, <1>4, <1>5 DEF FlagsAre
<1> QED BY <1>6

\* Whatever stage is reached and whatever has failed.
LEMMA SequenceEnds ==
    ASSUME NEW flags, NEW e1, NEW stage, NEW num, NEW caps, NEW pushed,
           FlagsAre(flags, e1, stage, num, caps, pushed), NEW j, NEW failed, NEW r,
           r = E1Over([flags EXCEPT !.stage = j, !.failed = failed])
    PROVE  FlagsAre(r, FALSE, 0, num, caps, pushed)
<1>1. flags \in FlagSet BY DEF FlagsAre
<1> DEFINE u == [flags EXCEPT !.stage = 0, !.failed = FALSE]
<1>2. r = [u EXCEPT !.e1 = FALSE] BY <1>1 DEF E1Over, FlagSet
<1>3. FlagsAre(u, e1, 0, num, caps, pushed)
  <2>1. 0 \in 0 .. 4 OBVIOUS
  <2> QED BY <2>1, SequenceGoesOn
<1> HIDE DEF u
<1>4. FlagsAre([u EXCEPT !.e1 = FALSE], FALSE, 0, num, caps, pushed)
  <2>1. FALSE \in BOOLEAN OBVIOUS
  <2> QED BY <1>3, <2>1, SequenceIs, Zenon
<1> QED BY <1>2, <1>4

---------------------------------------------------------------------------
(* What the bytes of a key and of Pause are read as. *)

ShiftColumn(k, num, caps, pushed) ==
    pushed # {} \/ (k \in Letters /\ caps) \/ (k \in Pads /\ num)

LEMMA ParsesMake ==
    ASSUME KeyParserAssumption, NEW k \in Plain, NEW num, NEW caps,
           NEW pushed \in SUBSET Shifts, FlagsAre(key_state, FALSE, 0, num, caps, pushed)
    PROVE  IF k \in Shifts
           THEN /\ Parsed(Make(k)).key = NoKey
                /\ FlagsAre(Parsed(Make(k)).flags, FALSE, 0, num, caps, pushed \cup {k})
           ELSE /\ Parsed(Make(k)).key = KEYMAP(k, IF ShiftColumn(k, num, caps, pushed)
                                                   THEN "shift" ELSE "normal")
                /\ Parsed(Make(k)).flags = key_state
<1>1. Make(k) # E0 /\ Make(k) # E1 BY DEF KeyParserAssumption, Make, E0, E1
<1>2. ~Make(k).break /\ Make(k).code = k BY DEF Make
<1>3. /\ ~key_state.e1 /\ ~key_state.e0 /\ key_state.pushed = pushed
      /\ key_state.CAPSLOCK = caps /\ key_state.NUMLOCK = num
  BY DEF FlagsAre
<1> DEFINE column == IF ShiftColumn(k, num, caps, pushed) THEN "shift" ELSE "normal"
<1>4. Parsed(Make(k)) = Pushes(k, column)
  <2>1. CASE pushed # {}
    <3>1. Parsed(Make(k)) = Pushes(k, "shift")
      BY <1>1, <1>2, <1>3, <2>1 DEF Parsed, do_shift
    <3> QED BY <2>1, <3>1 DEF ShiftColumn
  <2>2. CASE pushed = {}
    <3>1. Parsed(Make(k)) = do_normal(Make(k)) BY <1>3, <2>2 DEF Parsed
    <3>2. do_normal(Make(k)) = Pushes(k, IF (k \in Letters /\ caps) \/ (k \in Pads /\ num)
                                         THEN "shift" ELSE "normal")
      BY <1>1, <1>2, <1>3 DEF do_normal
    <3> QED BY <2>2, <3>1, <3>2 DEF ShiftColumn
  <2> QED BY <2>1, <2>2
<1>5. CASE k \in Shifts
  <2>1. Pushes(k, column) = Gives([key_state EXCEPT !.pushed = @ \cup {k}], NoKey)
    BY <1>5 DEF Pushes
  <2>2. /\ Parsed(Make(k)).key = NoKey
        /\ Parsed(Make(k)).flags = [key_state EXCEPT !.pushed = pushed \cup {k}]
    BY <1>3, <1>4, <2>1 DEF Gives
  <2>3. pushed \cup {k} \in SUBSET Shifts BY <1>5
  <2>4. FlagsAre([key_state EXCEPT !.pushed = pushed \cup {k}], FALSE, 0,
                 num, caps, pushed \cup {k})
    BY <2>3, PushedIs, Zenon
  <2> QED BY <1>5, <2>2, <2>4
<1>6. CASE k \notin Shifts
  <2>1. Pushes(k, column) = Gives(key_state, KEYMAP(k, column)) BY <1>6 DEF Pushes
  <2> QED BY <1>4, <1>6, <2>1 DEF Gives
<1> QED BY <1>5, <1>6

LEMMA ParsesBreak ==
    ASSUME KeyParserAssumption, NEW k \in Plain, NEW num, NEW caps,
           NEW pushed \in SUBSET Shifts, FlagsAre(key_state, FALSE, 0, num, caps, pushed)
    PROVE  /\ Parsed(Break(k)).key = NoKey
           /\ FlagsAre(Parsed(Break(k)).flags, FALSE, 0, num, caps, pushed \ {k})
<1>1. Break(k) # E0 /\ Break(k) # E1 BY DEF KeyParserAssumption, Make, Break, E0, E1
<1>2. Break(k).break /\ Break(k).code = k BY DEF Break
<1>3. ~key_state.e1 /\ ~key_state.e0 /\ key_state.pushed = pushed BY DEF FlagsAre
<1>4. CASE pushed # {}
  <2>1. Parsed(Break(k)) = Gives(ShiftReleased(k), NoKey)
    BY <1>1, <1>2, <1>3, <1>4 DEF Parsed, do_shift
  <2>2. ShiftReleased(k) = [key_state EXCEPT !.pushed = pushed \ {k}]
    BY <1>3 DEF ShiftReleased
  <2>3. Parsed(Break(k)).key = NoKey /\ Parsed(Break(k)).flags = ShiftReleased(k)
    BY <2>1 DEF Gives
  <2>4. pushed \ {k} \in SUBSET Shifts OBVIOUS
  <2>5. FlagsAre([key_state EXCEPT !.pushed = pushed \ {k}], FALSE, 0, num, caps, pushed \ {k})
    BY <2>4, PushedIs, Zenon
  <2> QED BY <2>2, <2>3, <2>5
<1>5. CASE pushed = {}
  <2>1. Parsed(Break(k)) = Gives(key_state, NoKey)
    BY <1>1, <1>2, <1>3, <1>5 DEF Parsed, do_normal
  <2>2. Parsed(Break(k)).key = NoKey /\ Parsed(Break(k)).flags = key_state
    BY <2>1 DEF Gives
  <2>3. pushed \ {k} = pushed BY <1>5
  <2> QED BY <2>2, <2>3
<1> QED BY <1>4, <1>5

LEMMA ParsesPause ==
    ASSUME NEW num, NEW caps, NEW pushed, NEW j \in 0 .. 5,
           FlagsAre(key_state, j # 0, IF j = 0 THEN 0 ELSE j - 1, num, caps, pushed)
    PROVE  LET parsed == Parsed(pausebreak_codes[j + 1])
           IN  IF j < 5 THEN parsed.key = NoKey /\ FlagsAre(parsed.flags, TRUE, j, num, caps, pushed)
               ELSE parsed.key = <<Pause>> /\ FlagsAre(parsed.flags, FALSE, 0, num, caps, pushed)
<1> DEFINE byte == pausebreak_codes[j + 1]
<1>1. CASE j = 0
  <2>1. byte = E1 BY <1>1 DEF pausebreak_codes
  <2>2. E1 # E0 /\ ~E1.break BY DEF E0, E1, Make
  <2>3. FlagsAre(key_state, FALSE, 0, num, caps, pushed)
    <3>1. (j # 0) = FALSE BY <1>1
    <3> QED BY <1>1, <3>1
  <2>4. ~key_state.e1 /\ ~key_state.e0 BY <2>3 DEF FlagsAre
  <2>5. Parsed(E1) = Gives([key_state EXCEPT !.e1 = TRUE], NoKey)
    <3>1. do_shift(E1) = Gives([key_state EXCEPT !.e1 = TRUE], NoKey)
      BY <2>2 DEF do_shift
    <3>2. do_normal(E1) = Gives([key_state EXCEPT !.e1 = TRUE], NoKey)
      BY <2>2 DEF do_normal
    <3> QED BY <2>4, <3>1, <3>2 DEF Parsed
  <2>6. Parsed(E1).key = NoKey /\ Parsed(E1).flags = [key_state EXCEPT !.e1 = TRUE]
    BY <2>5 DEF Gives
  <2>7. FlagsAre([key_state EXCEPT !.e1 = TRUE], TRUE, 0, num, caps, pushed)
    <3>1. TRUE \in BOOLEAN OBVIOUS
    <3> QED BY <2>3, <3>1, SequenceIs, Zenon
  <2>8. FlagsAre(Parsed(E1).flags, TRUE, j, num, caps, pushed) BY <1>1, <2>6, <2>7
  <2>9. j < 5 BY <1>1
  <2> HIDE DEF byte
  <2> QED BY <2>1, <2>6, <2>8, <2>9 DEF byte
<1>2. CASE j # 0
  <2>1. FlagsAre(key_state, TRUE, j - 1, num, caps, pushed)
    <3>1. (j # 0) = TRUE BY <1>2
    <3> QED BY <1>2, <3>1
  <2>2. key_state.e1 /\ key_state.stage = j - 1 BY <2>1 DEF FlagsAre
  <2>3. key_state.failed = FALSE BY <2>1 DEF FlagsAre, FlagSet
  <2>4. key_state.stage + 1 = j BY <1>2, <2>2
  <2> DEFINE flags == [key_state EXCEPT !.stage = j, !.failed = FALSE]
  <2>5. [key_state EXCEPT !.stage = j, !.failed = @ \/ byte # pausebreak_codes[j + 1]] = flags
    BY <2>3
  <2>6. flags.failed = FALSE
    <3>1. key_state \in FlagSet BY <2>1 DEF FlagsAre
    <3> QED BY <3>1 DEF FlagSet
  <2>7. j < 5 => FlagsAre(flags, TRUE, j, num, caps, pushed)
    <3> HAVE j < 5
    <3>1. j \in 0 .. 4 OBVIOUS
    <3> QED BY <2>1, <3>1, SequenceGoesOn
  <2>8. FlagsAre(E1Over(flags), FALSE, 0, num, caps, pushed) BY <2>1, SequenceEnds
  <2> HIDE DEF flags
  <2>9. Parsed(byte) = IF j < 5 THEN Gives(flags, NoKey) ELSE Gives(E1Over(flags), <<Pause>>)
    BY <2>2, <2>4, <2>5, <2>6 DEF Parsed, do_e1
  <2> HIDE DEF byte
  <2>10. ASSUME j < 5
         PROVE  Parsed(byte).key = NoKey /\ FlagsAre(Parsed(byte).flags, TRUE, j, num, caps, pushed)
    <3>1. Parsed(byte).key = NoKey /\ Parsed(byte).flags = flags BY <2>9, <2>10 DEF Gives
    <3> QED BY <2>7, <2>10, <3>1
  <2>11. ASSUME ~(j < 5)
         PROVE  Parsed(byte).key = <<Pause>> /\ FlagsAre(Parsed(byte).flags, FALSE, 0, num, caps, pushed)
    <3>1. Parsed(byte).key = <<Pause>> /\ Parsed(byte).flags = E1Over(flags)
      BY <2>9, <2>11 DEF Gives
    <3> QED BY <2>8, <3>1
  <2> QED BY <2>10, <2>11 DEF byte
<1> QED BY <1>1, <1>2

---------------------------------------------------------------------------
(* The steps. *)

\* irq_handler has taken the byte and got the key.
LEMMA HandlerDoes ==
    ASSUME irq_handler, NEW byte, byte = Head(codes)
    PROVE  /\ codes' = Tail(codes) /\ UNCHANGED <<down, wanted>>
           /\ LET parsed == Parsed(byte)
              IN  /\ parsed.key = <<CAPSLOCK>> =>
                         /\ key_state' = [parsed.flags EXCEPT !.CAPSLOCK = ~@] /\ out' = out
                  /\ parsed.key = <<NUMLOCK>> /\ CAPSLOCK # NUMLOCK =>
                         /\ key_state' = [parsed.flags EXCEPT !.NUMLOCK = ~@] /\ out' = out
                  /\ parsed.key \notin {<<CAPSLOCK>>, <<NUMLOCK>>} =>
                         /\ key_state' = parsed.flags
                         /\ out' = IF parsed.key = NoKey THEN out ELSE Append(out, parsed.key)
<1> DEFINE key == Parsed(byte).key
           flags == Parsed(byte).flags
<1>1. /\ key_state' = IF key = <<CAPSLOCK>> THEN [flags EXCEPT !.CAPSLOCK = ~@]
                      ELSE IF key = <<NUMLOCK>> THEN [flags EXCEPT !.NUMLOCK = ~@]
                      ELSE flags
      /\ out' = IF key \in {NoKey, <<CAPSLOCK>>, <<NUMLOCK>>} THEN out ELSE Append(out, key)
      /\ codes' = Tail(codes) /\ UNCHANGED <<down, wanted>>
  BY DEF irq_handler
<1>2. <<CAPSLOCK>> = <<NUMLOCK>> => CAPSLOCK = NUMLOCK OBVIOUS
<1> HIDE DEF key, flags
<1>3. key = <<CAPSLOCK>> =>
          key_state' = [flags EXCEPT !.CAPSLOCK = ~@] /\ out' = out
  BY <1>1
<1>4. key = <<NUMLOCK>> /\ CAPSLOCK # NUMLOCK =>
          key_state' = [flags EXCEPT !.NUMLOCK = ~@] /\ out' = out
  BY <1>1, <1>2
<1>5. key \notin {<<CAPSLOCK>>, <<NUMLOCK>>} =>
          /\ key_state' = flags
          /\ out' = IF key = NoKey THEN out ELSE Append(out, key)
  BY <1>1
<1> QED BY <1>1, <1>3, <1>4, <1>5 DEF key, flags

LEMMA KeysDiffer ==
    ASSUME KeyParserAssumption
    PROVE  /\ NoKey \notin {<<CAPSLOCK>>, <<NUMLOCK>>}
           /\ <<Pause>> \notin {NoKey, <<CAPSLOCK>>, <<NUMLOCK>>}
           /\ \A k, column : <<k, column>> \notin {NoKey, <<CAPSLOCK>>, <<NUMLOCK>>}
<1>1. /\ "none" \notin Locks /\ Pause \notin Locks /\ Pause # "none"
  BY DEF KeyParserAssumption, Plain
<1>2. \A x, y : <<x>> = <<y>> => x = y OBVIOUS
<1>3. \A x, k, column : <<k, column>> # <<x>> OBVIOUS
<1> QED BY <1>1, <1>2, <1>3 DEF NoKey, Locks

LEMMA MakeKeeps ==
    ASSUME KeyParserAssumption, E0Keys = {}, KeyTypes, NEW k \in Plain, Made(k), irq_handler
    PROVE  KeysInv'
<1>1. PICK pushed \in SUBSET Shifts :
          /\ Held \ {k} \subseteq pushed /\ pushed \subseteq Held
          /\ FlagsAre(key_state, FALSE, 0, Toggled(NUMLOCK, wanted.NUMLOCK, k),
                      Toggled(CAPSLOCK, wanted.CAPSLOCK, k), pushed)
  BY DEF Made
<1>2. codes = <<Make(k)>> /\ out = <<>> /\ wanted.keys = Wanted(k) /\ k \in down BY DEF Made
<1>3. Head(codes) = Make(k) /\ Tail(codes) = <<>> BY <1>2
<1>4. codes' = <<>> /\ UNCHANGED <<down, wanted>> BY <1>3, HandlerDoes
<1> DEFINE num  == wanted.NUMLOCK
           caps == wanted.CAPSLOCK
           key  == Parsed(Make(k)).key
           flags == Parsed(Make(k)).flags
<1>5. num \in BOOLEAN /\ caps \in BOOLEAN BY DEF KeyTypes
<1>6. out' = wanted.keys /\ FlagsAre(key_state', FALSE, 0, num, caps, Held)
  <2>1. CASE k \in Shifts
    <3>1. k \notin Locks BY <2>1 DEF KeyParserAssumption
    <3>2. Toggled(NUMLOCK, num, k) = num /\ Toggled(CAPSLOCK, caps, k) = caps
      BY <3>1 DEF Toggled, Locks
    <3>3. key = NoKey /\ FlagsAre(flags, FALSE, 0, num, caps, pushed \cup {k})
      BY <1>1, <2>1, <3>2, ParsesMake
    <3>4. pushed \cup {k} = Held BY <1>1, <1>2, <2>1 DEF Held
    <3>5. key_state' = flags /\ out' = out BY <1>3, <3>3, HandlerDoes, KeysDiffer
    <3>6. Wanted(k) = <<>> BY <2>1 DEF Wanted
    <3> QED BY <1>2, <3>3, <3>4, <3>5, <3>6
  <2>2. CASE k \notin Shifts
    <3>1. pushed = Held BY <1>1, <2>2 DEF Held
    <3> DEFINE column == IF ShiftColumn(k, Toggled(NUMLOCK, num, k), Toggled(CAPSLOCK, caps, k), pushed)
                         THEN "shift" ELSE "normal"
    <3>2. key = KEYMAP(k, column) /\ flags = key_state BY <1>1, <2>2, ParsesMake
    <3>3. column # "e0" OBVIOUS
    <3>4. CASE k = CAPSLOCK
      <4>1. key = <<CAPSLOCK>> BY <3>2, <3>3, <3>4 DEF KEYMAP, Locks
      <4>2. key_state' = [key_state EXCEPT !.CAPSLOCK = ~@] /\ out' = out
        BY <1>3, <3>2, <4>1, HandlerDoes
      <4>3. Toggled(NUMLOCK, num, k) = num /\ Toggled(CAPSLOCK, caps, k) = ~caps
        BY <3>4 DEF Toggled, KeyParserAssumption
      <4>4. FlagsAre(key_state, FALSE, 0, num, ~caps, pushed) BY <1>1, <4>3
      <4>5. FlagsAre(key_state', FALSE, 0, num, caps, pushed)
        <5> HIDE DEF num, caps
        <5>1. FlagsAre([key_state EXCEPT !.CAPSLOCK = ~@], FALSE, 0, num, caps, pushed)
          BY <1>5, <4>4 DEF FlagsAre, FlagSet
        <5> QED BY <4>2, <5>1
      <4>6. Wanted(k) = <<>> BY <3>4 DEF Wanted, Locks
      <4> QED BY <1>2, <3>1, <4>2, <4>5, <4>6
    <3>5. CASE k = NUMLOCK
      <4>1. key = <<NUMLOCK>> BY <3>2, <3>3, <3>5 DEF KEYMAP, Locks
      <4>2. key_state' = [key_state EXCEPT !.NUMLOCK = ~@] /\ out' = out
        BY <1>3, <3>2, <4>1, HandlerDoes DEF KeyParserAssumption
      <4>3. Toggled(NUMLOCK, num, k) = ~num /\ Toggled(CAPSLOCK, caps, k) = caps
        BY <3>5 DEF Toggled, KeyParserAssumption
      <4>4. FlagsAre(key_state, FALSE, 0, ~num, caps, pushed) BY <1>1, <4>3
      <4>5. FlagsAre(key_state', FALSE, 0, num, caps, pushed)
        <5> HIDE DEF num, caps
        <5>1. FlagsAre([key_state EXCEPT !.NUMLOCK = ~@], FALSE, 0, num, caps, pushed)
          BY <1>5, <4>4 DEF FlagsAre, FlagSet
        <5> QED BY <4>2, <5>1
      <4>6. Wanted(k) = <<>> BY <3>5 DEF Wanted, Locks
      <4> QED BY <1>2, <3>1, <4>2, <4>5, <4>6
    <3>6. CASE k \notin Locks
      <4>1. key = <<k, column>> BY <2>2, <3>2, <3>3, <3>6 DEF KEYMAP
      <4>2. Toggled(NUMLOCK, num, k) = num /\ Toggled(CAPSLOCK, caps, k) = caps
        BY <3>6 DEF Toggled, Locks
      <4>3. key_state' = key_state /\ out' = << <<k, column>> >>
        <5>1. key \notin {NoKey, <<CAPSLOCK>>, <<NUMLOCK>>} BY <4>1, KeysDiffer
        <5>2. key_state' = flags /\ out' = Append(out, key)
          <6> HIDE DEF column
          <6>1. /\ key_state' = flags
                /\ out' = IF key = NoKey THEN out ELSE Append(out, key)
            BY <1>3, <5>1, HandlerDoes
          <6> QED BY <5>1, <6>1
        <5> QED BY <1>2, <3>2, <4>1, <5>2
      <4>4. k # Pause BY DEF KeyParserAssumption
      <4>5. Wanted(k) = << <<k, column>> >>
        BY <2>2, <3>1, <3>6, <4>2, <4>4 DEF Wanted, ShiftColumn, Held
      <4> QED BY <1>1, <1>2, <3>1, <4>2, <4>3, <4>5
    <3> QED BY <3>4, <3>5, <3>6 DEF Locks
  <2> QED BY <2>1, <2>2
<1>7. Settled' BY <1>4, <1>6 DEF Settled, Held
<1> QED BY <1>4, <1>7 DEF KeysInv, KeyTypes

LEMMA BreakKeeps ==
    ASSUME KeyParserAssumption, KeyTypes, NEW k \in Plain, Broken(k), irq_handler
    PROVE  KeysInv'
<1>1. PICK pushed \in SUBSET Shifts :
          /\ pushed \ {k} = Held
          /\ FlagsAre(key_state, FALSE, 0, wanted.NUMLOCK, wanted.CAPSLOCK, pushed)
  BY DEF Broken
<1>2. codes = <<Break(k)>> /\ out = <<>> /\ wanted.keys = <<>> BY DEF Broken
<1>3. Head(codes) = Break(k) /\ Tail(codes) = <<>> BY <1>2
<1>4. codes' = <<>> /\ UNCHANGED <<down, wanted>> BY <1>3, HandlerDoes
<1>5. /\ Parsed(Break(k)).key = NoKey
      /\ FlagsAre(Parsed(Break(k)).flags, FALSE, 0, wanted.NUMLOCK, wanted.CAPSLOCK, Held)
  BY <1>1, ParsesBreak
<1>6. key_state' = Parsed(Break(k)).flags /\ out' = out
  BY <1>3, <1>5, HandlerDoes, KeysDiffer
<1>7. Settled' BY <1>2, <1>4, <1>5, <1>6 DEF Settled, Held
<1> QED BY <1>4, <1>7 DEF KeysInv, KeyTypes

LEMMA PauseKeeps ==
    ASSUME KeyParserAssumption, KeyTypes, NEW j \in 0 .. 5, Pausing(j), irq_handler
    PROVE  KeysInv'
<1>1. /\ codes \in Seq(PauseBytes) /\ Len(codes) = 6 - j
      /\ \A i \in 1 .. 6 - j : codes[i] = pausebreak_codes[i + j]
      /\ out = <<>> /\ wanted.keys = << <<Pause>> >>
      /\ FlagsAre(key_state, j # 0, IF j = 0 THEN 0 ELSE j - 1,
                  wanted.NUMLOCK, wanted.CAPSLOCK, Held)
  BY DEF Pausing
<1> DEFINE byte == pausebreak_codes[j + 1]
           parsed == Parsed(byte)
<1>2. codes # <<>> BY <1>1
<1>3. Head(codes) = byte /\ Tail(codes) \in Seq(PauseBytes) /\ Len(Tail(codes)) = 5 - j
  <2>1. Head(codes) = codes[1] BY <1>1, <1>2
  <2>2. codes[1] = pausebreak_codes[1 + j]
    <3>1. 1 \in 1 .. 6 - j OBVIOUS
    <3> QED BY <1>1, <3>1
  <2>3. 1 + j = j + 1 OBVIOUS
  <2> QED BY <1>1, <1>2, <2>1, <2>2, <2>3
<1>4. ASSUME NEW i \in 1 .. 5 - j PROVE Tail(codes)[i] = pausebreak_codes[i + (j + 1)]
  <2>1. Tail(codes)[i] = codes[i + 1] BY <1>1, <1>2
  <2>2. i + 1 \in 1 .. 6 - j /\ (i + 1) + j = i + (j + 1) OBVIOUS
  <2> QED BY <1>1, <2>1, <2>2
<1>5. codes' = Tail(codes) /\ UNCHANGED <<down, wanted>> BY HandlerDoes
<1>6. IF j < 5 THEN /\ parsed.key = NoKey
                    /\ FlagsAre(parsed.flags, TRUE, j, wanted.NUMLOCK, wanted.CAPSLOCK, Held)
      ELSE /\ parsed.key = <<Pause>>
           /\ FlagsAre(parsed.flags, FALSE, 0, wanted.NUMLOCK, wanted.CAPSLOCK, Held)
  BY <1>1, ParsesPause
<1>7. parsed.key \in {NoKey, <<Pause>>} BY <1>6
<1>8. /\ key_state' = parsed.flags
      /\ out' = IF parsed.key = NoKey THEN out ELSE Append(out, parsed.key)
  <2>1. parsed.key \notin {<<CAPSLOCK>>, <<NUMLOCK>>} BY <1>7, KeysDiffer
  <2> QED BY <1>3, <2>1, HandlerDoes
<1>9. KeyTypes' BY <1>5 DEF KeyTypes
<1>10. Held' = Held BY <1>5 DEF Held
<1>11. CASE j < 5
  <2>1. out' = <<>> BY <1>1, <1>6, <1>8, <1>11
  <2> DEFINE n == j + 1
  <2>2. n \in 0 .. 5 /\ n # 0 /\ n - 1 = j /\ 6 - n = 5 - j BY <1>11
  <2>3. FlagsAre(key_state', n # 0, IF n = 0 THEN 0 ELSE n - 1,
                 wanted.NUMLOCK, wanted.CAPSLOCK, Held)
    <3>1. (n # 0) = TRUE /\ (IF n = 0 THEN 0 ELSE n - 1) = j BY <2>2
    <3> HIDE DEF n
    <3> QED BY <1>6, <1>8, <1>11, <3>1
  <2>4. Pausing(n)'
    <3> HIDE DEF n
    <3>1. codes' \in Seq(PauseBytes) /\ Len(codes') = 6 - n BY <1>3, <1>5, <2>2
    <3>2. \A i \in 1 .. 6 - n : codes'[i] = pausebreak_codes[i + n]
      BY <1>4, <1>5, <2>2 DEF n
    <3> QED BY <1>1, <1>5, <1>10, <2>1, <2>3, <3>1, <3>2 DEF Pausing
  <2> HIDE DEF n
  <2> QED BY <1>9, <2>2, <2>4 DEF KeysInv
<1>12. CASE ~(j < 5)
  <2>1. j = 5 BY <1>12
  <2>2. codes' = <<>> BY <1>3, <1>5, <2>1
  <2>3. out' = << <<Pause>> >>
    <3>1. parsed.key = <<Pause>> /\ parsed.key # NoKey BY <1>6, <1>12, KeysDiffer
    <3> QED BY <1>1, <1>8, <3>1
  <2>4. FlagsAre(key_state', FALSE, 0, wanted.NUMLOCK, wanted.CAPSLOCK, Held)
    BY <1>6, <1>8, <1>12
  <2>5. Settled' BY <1>1, <1>5, <1>10, <2>2, <2>3, <2>4 DEF Settled
  <2> QED BY <1>9, <2>5 DEF KeysInv
<1> QED BY <1>11, <1>12

LEMMA PressKeeps ==
    ASSUME KeyParserAssumption, E0Keys = {}, KeysInv, NEW k \in Plain \cup {Pause}, Press(k)
    PROVE  KeysInv'
<1>1. codes = <<>> BY DEF Press
<1>2. Settled /\ KeyTypes
  <2>1. KeyTypes BY DEF KeysInv
  <2>2. \A i \in Plain : ~Made(i) /\ ~Broken(i) BY <1>1 DEF Made, Broken
  <2>3. \A j \in 0 .. 5 : ~Pausing(j) BY <1>1 DEF Pausing
  <2> QED BY <2>1, <2>2, <2>3 DEF KeysInv
<1>3. FlagsAre(key_state, FALSE, 0, wanted.NUMLOCK, wanted.CAPSLOCK, Held)
  BY <1>2 DEF Settled
<1>4. UNCHANGED key_state /\ out' = <<>> BY DEF Press
<1>5. Pause \notin Plain BY DEF KeyParserAssumption
<1>6. /\ wanted'.keys = Wanted(k)
      /\ wanted'.CAPSLOCK = Toggled(CAPSLOCK, wanted.CAPSLOCK, k)
      /\ wanted'.NUMLOCK = Toggled(NUMLOCK, wanted.NUMLOCK, k)
  BY <1>2 DEF KeyTypes, Press, Toggled
<1>7. wanted.NUMLOCK \in BOOLEAN /\ wanted.CAPSLOCK \in BOOLEAN BY <1>2 DEF KeyTypes
<1>8. Wanted(k) \in Seq(KeyValues)
  <2> DEFINE column == IF \/ Shifts \cap down # {}
                          \/ k \in Letters /\ wanted.CAPSLOCK
                          \/ k \in Pads /\ wanted.NUMLOCK
                       THEN "shift" ELSE "normal"
  <2>1. k # Pause => <<k, column>> \in KeyValues BY DEF KeyValues
  <2>2. Wanted(k) \in {<<>>, << <<Pause>> >>, << <<k, column>> >>} BY DEF Wanted
  <2>3. k = Pause => Wanted(k) \in {<<>>, << <<Pause>> >>} BY DEF Wanted
  <2>4. <<Pause>> \in KeyValues BY DEF KeyValues
  <2>5. <<>> \in Seq(KeyValues) /\ \A x \in KeyValues : <<x>> \in Seq(KeyValues) OBVIOUS
  <2> HIDE DEF column
  <2>6. CASE Wanted(k) = <<>> BY <2>5, <2>6
  <2>7. CASE Wanted(k) = << <<Pause>> >> BY <2>4, <2>5, <2>7
  <2>8. CASE k # Pause /\ Wanted(k) = << <<k, column>> >> BY <2>1, <2>5, <2>8
  <2> QED BY <2>2, <2>3, <2>6, <2>7, <2>8
<1>9. KeyTypes'
  <2>1. wanted' \in [keys : Seq(KeyValues), NUMLOCK : BOOLEAN, CAPSLOCK : BOOLEAN]
    BY <1>2, <1>7, <1>8 DEF KeyTypes, Press
  <2>2. down' \subseteq Plain BY <1>2, <1>5 DEF KeyTypes, Press
  <2> QED BY <2>1, <2>2 DEF KeyTypes
<1>10. CASE k = Pause
  <2>1. codes' = pausebreak_codes /\ down' = down BY <1>10 DEF Press
  <2>2. k \notin Shifts \cup Locks BY <1>5, <1>10 DEF Plain
  <2>3. wanted'.keys = << <<Pause>> >> BY <1>6, <1>10, <2>2 DEF Wanted
  <2>4. /\ wanted'.NUMLOCK = wanted.NUMLOCK /\ wanted'.CAPSLOCK = wanted.CAPSLOCK
    BY <1>6, <2>2 DEF Toggled, Locks
  <2>5. Held' = Held BY <2>1 DEF Held
  <2>6. pausebreak_codes \in Seq(PauseBytes) /\ Len(pausebreak_codes) = 6
    <3> DEFINE f == pausebreak_codes
    <3>1. Len(f) = 6 /\ f \in Seq({f[1], f[2], f[3], f[4], f[5], f[6]})
      BY DEF pausebreak_codes
    <3>2. \A i \in 1 .. 6 : f[i] \in PauseBytes BY DEF PauseBytes
    <3> QED BY <3>1, <3>2
  <2>7. FlagsAre(key_state', 0 # 0, IF 0 = 0 THEN 0 ELSE 0 - 1,
                 wanted'.NUMLOCK, wanted'.CAPSLOCK, Held')
    <3>1. (0 # 0) = FALSE OBVIOUS
    <3> QED BY <1>3, <1>4, <2>4, <2>5, <3>1
  <2>8. \A i \in 1 .. 6 - 0 : pausebreak_codes[i] = pausebreak_codes[i + 0] OBVIOUS
  <2>9. Pausing(0)' BY <1>4, <2>1, <2>3, <2>6, <2>7, <2>8 DEF Pausing
  <2> QED BY <1>9, <2>9 DEF KeysInv
<1>11. CASE k \in Plain
  <2>1. k # Pause BY <1>5, <1>11
  <2>2. codes' = <<Make(k)>> /\ down' = down \cup {k} BY <2>1 DEF Press
  <2>3. Wanted(k)' = Wanted(k)
    <3>1. CASE k \in Shifts \cup Locks BY <3>1 DEF Wanted
    <3>2. CASE k \notin Shifts \cup Locks
      <4>1. Shifts \cap down' = Shifts \cap down BY <2>2, <3>2
      <4>2. wanted'.NUMLOCK = wanted.NUMLOCK /\ wanted'.CAPSLOCK = wanted.CAPSLOCK
        BY <1>6, <3>2 DEF Toggled, Locks
      <4> QED BY <4>1, <4>2 DEF Wanted
    <3> QED BY <3>1, <3>2
  <2>4. Held \in SUBSET Shifts /\ Held' \ {k} \subseteq Held /\ Held \subseteq Held'
    BY <2>2 DEF Held
  <2>5. /\ Toggled(NUMLOCK, wanted'.NUMLOCK, k) = wanted.NUMLOCK
        /\ Toggled(CAPSLOCK, wanted'.CAPSLOCK, k) = wanted.CAPSLOCK
    BY <1>6, <1>7 DEF Toggled
  <2>6. FlagsAre(key_state', FALSE, 0, Toggled(NUMLOCK, wanted'.NUMLOCK, k),
                 Toggled(CAPSLOCK, wanted'.CAPSLOCK, k), Held)
    BY <1>3, <1>4, <2>5
  <2>7. Made(k)' BY <1>4, <1>6, <2>2, <2>3, <2>4, <2>6 DEF Made
  <2> QED BY <1>9, <1>11, <2>7 DEF KeysInv
<1> QED BY <1>10, <1>11

LEMMA ReleaseKeeps ==
    ASSUME E0Keys = {}, KeysInv, NEW k \in down, Release(k)
    PROVE  KeysInv'
<1>1. codes = <<>> BY DEF Release
<1>2. Settled /\ KeyTypes
  <2>1. KeyTypes BY DEF KeysInv
  <2>2. \A i \in Plain : ~Made(i) /\ ~Broken(i) BY <1>1 DEF Made, Broken
  <2>3. \A j \in 0 .. 5 : ~Pausing(j) BY <1>1 DEF Pausing
  <2> QED BY <2>1, <2>2, <2>3 DEF KeysInv
<1>3. FlagsAre(key_state, FALSE, 0, wanted.NUMLOCK, wanted.CAPSLOCK, Held)
  BY <1>2 DEF Settled
<1>4. /\ UNCHANGED key_state /\ out' = <<>> /\ codes' = <<Break(k)>> /\ down' = down \ {k}
  BY DEF Release
<1>5. /\ wanted'.keys = <<>> /\ wanted'.NUMLOCK = wanted.NUMLOCK
      /\ wanted'.CAPSLOCK = wanted.CAPSLOCK
  BY <1>2 DEF KeyTypes, Release
<1>6. KeyTypes'
  <2>1. <<>> \in Seq(KeyValues) OBVIOUS
  <2>2. wanted' \in [keys : Seq(KeyValues), NUMLOCK : BOOLEAN, CAPSLOCK : BOOLEAN]
    BY <1>2, <2>1 DEF KeyTypes, Release
  <2> QED BY <1>2, <1>4, <2>2 DEF KeyTypes
<1>7. Held \in SUBSET Shifts /\ Held \ {k} = Held' BY <1>4 DEF Held
<1>8. FlagsAre(key_state', FALSE, 0, wanted'.NUMLOCK, wanted'.CAPSLOCK, Held)
  BY <1>3, <1>4, <1>5
<1>9. Broken(k)' BY <1>4, <1>5, <1>7, <1>8 DEF Broken
<1>10. k \in Plain BY <1>2 DEF KeyTypes
<1> QED BY <1>6, <1>9, <1>10 DEF KeysInv

LEMMA KeysInitInv == KeysInit => KeysInv
<1> SUFFICES ASSUME KeysInit PROVE KeysInv OBVIOUS
<1>1. /\ key_state = NORMAL /\ codes = <<>> /\ out = <<>> /\ down = {}
      /\ wanted = [keys |-> <<>>, NUMLOCK |-> FALSE, CAPSLOCK |-> FALSE]
  BY DEF KeysInit
<1>2. KeyTypes
  <2>1. <<>> \in Seq(KeyValues) OBVIOUS
  <2> QED BY <1>1, <2>1 DEF KeyTypes
<1>3. /\ wanted.keys = <<>> /\ wanted.NUMLOCK = FALSE /\ wanted.CAPSLOCK = FALSE
  BY <1>1
<1>4. Held = {} BY <1>1 DEF Held
<1>5. FlagsAre(NORMAL, FALSE, 0, FALSE, FALSE, {})
  <2>1. NORMAL \in FlagSet BY DEF NORMAL, FlagSet
  <2>2. /\ NORMAL.e0 = FALSE /\ NORMAL.failed = FALSE /\ NORMAL.e1 = FALSE
        /\ NORMAL.stage = 0 /\ NORMAL.NUMLOCK = FALSE /\ NORMAL.CAPSLOCK = FALSE
        /\ NORMAL.pushed = {}
    BY DEF NORMAL
  <2> QED BY <2>1, <2>2 DEF FlagsAre
<1>6. Settled BY <1>1, <1>3, <1>4, <1>5 DEF Settled
<1> QED BY <1>2, <1>6 DEF KeysInv

\* The inductive invariant of the parser.
THEOREM KeysInvariant ==
    ASSUME E0Keys = {}
    PROVE  KeysSpec => []KeysInv
<1>1. KeysInv /\ [KeysNext]_keysVars => KeysInv'
  <2> SUFFICES ASSUME KeysInv, [KeysNext]_keysVars PROVE KeysInv' OBVIOUS
  <2>1. ASSUME irq_handler PROVE KeysInv'
    <3>1. codes # <<>> BY <2>1 DEF irq_handler
    <3>2. KeyTypes /\ ~Settled BY <3>1 DEF KeysInv, Settled
    <3>3. \/ \E k \in Plain : Made(k) \/ Broken(k)
          \/ \E j \in 0 .. 5 : Pausing(j)
      BY <3>2 DEF KeysInv
    <3> QED BY <2>1, <3>2, <3>3, KeyParserAssumption, MakeKeeps, BreakKeeps, PauseKeeps
  <2>2. ASSUME NEW k \in Plain \cup {Pause}, Press(k) PROVE KeysInv'
    BY <2>2, KeyParserAssumption, PressKeeps
  <2>3. ASSUME NEW k \in down, Release(k) PROVE KeysInv' BY <2>3, ReleaseKeeps
  <2>4. CASE UNCHANGED keysVars
    BY <2>4 DEF keysVars, KeysInv, KeyTypes, Settled, Made, Broken, Pausing, Wanted, Held
  <2> QED BY <2>1, <2>2, <2>3, <2>4 DEF KeysNext
<1> QED BY <1>1, KeysInitInv, PTL DEF KeysSpec

\* Every press is read as the key it stands for, with the shift keys held and the
\* locks set, whatever is pressed, held and repeated in whatever order, Pause
\* included, as long as no key has codes that follow an E0.
\* (irq_handler, do_normal, do_shift, do_e1)
THEOREM ParsesAsTypedCorrect ==
    ASSUME E0Keys = {}
    PROVE  KeysSpec => []ParsesAsTyped
<1>1. KeysInv => ParsesAsTyped
  <2> SUFFICES ASSUME KeysInv, codes = <<>> PROVE Settled BY DEF ParsesAsTyped, Settled
  <2>1. \A i \in Plain : ~Made(i) /\ ~Broken(i) BY DEF Made, Broken
  <2>2. \A j \in 0 .. 5 : ~Pausing(j) BY DEF Pausing
  <2> QED BY <2>1, <2>2 DEF KeysInv
<1> QED BY <1>1, KeysInvariant, PTL
---------------------------------------------------------------------------
(* Interrupts and system calls: entries leave no trace but what they are for. *)

\* An entry that has not returned.
Call == [what : {"irq", "syscall", "exception"}, irq : 0 .. 15,
         pc   : {"entered", "masked", "acked", "handled", "called", "done"},
         on   : Stacks, flag : BOOLEAN]

\* What the 8259s have in service when they have presented a line.
InService(irq) == {irq} \cup (IF irq >= 8 THEN {2} ELSE {})

\* The context a thread has got to is its own; what it has got to is kept for each
\* that does not run, and the empty thread can always run.
ContextsSaved ==
    /\ \A t \in AllThreads : real[t].thread = t /\ real[t].pgd = t
    /\ \A t \in AllThreads \ {current} : state[t] # "gone" => saved[t] = real[t]
    /\ state[EmptyThread] \in {"running", "ready"}

\* No handler runs.
Idle == /\ cpu = real[current] /\ isr = {} /\ imr = enabled .. 15 /\ ~entered_handler

\* What has come in is in service until send_eoi, and masked until the end.
LinesOf(c) ==
    IF c.what = "irq"
    THEN /\ c.irq \notin {8} \cup enabled .. 15
         /\ isr = IF c.pc \in {"entered", "masked"} THEN InService(c.irq) ELSE {}
         /\ imr = (enabled .. 15) \cup (IF c.pc \in {"masked", "acked", "handled"} THEN {c.irq} ELSE {})
    ELSE isr = {} /\ imr = enabled .. 15

\* A handler runs with interrupts off, on the kernel's page table, and the context
\* of the current thread lies where the entry pushed it.
Busy(c) == /\ cpu = InKernel /\ ~IF_flag /\ frame[c.on] = real[current]
           /\ ~c.flag /\ LinesOf(c)
           /\ c.pc = "done" \/ c.what = "exception" => ~entered_handler
           /\ c.what # "irq" /\ c.pc = "entered" => current \in Threads

IntInv == /\ InterruptsTypeOK /\ ContextsSaved
          /\ overwritten => faulted # {}
          /\ \/ calls = <<>> /\ Idle
             \/ \E c \in Call : calls = <<c>> /\ Busy(c)
---------------------------------------------------------------------------
(* The interrupt controllers. *)

\* The most urgent line of a set of one.
LEMMA MinOfOne ==
    ASSUME NEW i \in Int
    PROVE  Min({i}) = i
BY DEF Min

\* send_eoi ends what was taken into service, on both controllers, if the line
\* is not 8.
LEMMA EoiEnds ==
    ASSUME NEW irq \in 0 .. 15, irq # 8, isr = InService(irq)
    PROVE  send_eoi(irq) = {}
<1>1. CASE irq < 8
  <2>1. isr = {irq} /\ isr \cap 0 .. 7 = {irq} BY <1>1 DEF InService
  <2>2. EndOf(0 .. 7, isr) = {} BY <2>1, MinOfOne DEF EndOf
  <2> QED BY <1>1, <2>2 DEF send_eoi
<1>2. CASE irq > 8
  <2>1. isr = {irq, 2} /\ isr \cap 8 .. 15 = {irq} BY <1>2 DEF InService
  <2>2. EndOf(8 .. 15, isr) = {2} BY <1>2, <2>1, MinOfOne DEF EndOf
  <2>3. {2} \cap 0 .. 7 = {2} OBVIOUS
  <2>4. EndOf(0 .. 7, {2}) = {} BY <2>3, MinOfOne DEF EndOf
  <2> QED BY <1>2, <2>2, <2>4 DEF send_eoi
<1> QED BY <1>1, <1>2

\* What the innermost handler sets when it is the only one.
LEMMA CallMoves ==
    ASSUME NEW c \in Call, NEW to, calls = <<c>>
    PROVE  [calls EXCEPT ![1].pc = to] = <<[c EXCEPT !.pc = to]>>
OBVIOUS

\* c goes on to d.
Moves(c, d, what, from, to) ==
    /\ calls = <<c>> /\ Busy(c) /\ c.what = what /\ c.pc = from
    /\ calls' = <<d>> /\ d.what = what /\ d.irq = c.irq /\ d.on = c.on /\ d.flag = c.flag
    /\ d.pc = to
    /\ Irq = c.irq /\ On = c.on /\ Head(calls).flag = FALSE
    /\ UNCHANGED <<enabled, IF_flag, cpu, real, overwritten, faulted>>

\* From one of its places to the next.
LEMMA HandlerMoves ==
    ASSUME NEW what, NEW from,
           NEW to \in {"entered", "masked", "acked", "handled", "called", "done"},
           IntInv, Handler(what, from, to)
    PROVE  \E c, d \in Call : Moves(c, d, what, from, to)
<1>1. calls # <<>> BY DEF Handler
<1>2. PICK c \in Call : calls = <<c>> /\ Busy(c) BY <1>1 DEF IntInv
<1> DEFINE d == [c EXCEPT !.pc = to]
<1>3. Head(calls) = c BY <1>2
<1>4. calls' = <<d>> BY <1>2, CallMoves DEF Handler
<1>5. /\ d \in Call /\ d.what = c.what /\ d.irq = c.irq /\ d.on = c.on /\ d.flag = c.flag
      /\ d.pc = to
  BY DEF Call
<1>6. c.flag = FALSE BY <1>2 DEF Busy, Call
<1> HIDE DEF d
<1>7. Moves(c, d, what, from, to)
  BY <1>2, <1>3, <1>4, <1>5, <1>6 DEF Moves, Handler, Irq, On
<1> QED BY <1>5, <1>7

---------------------------------------------------------------------------
(* The switch. *)

ThreadTypes ==
    /\ frame \in [Stacks -> Context] /\ current \in AllThreads
    /\ state \in [AllThreads -> {"running", "ready", "waiting", "dying", "gone"}]
    /\ saved \in [AllThreads -> Context]

\* do_switch hands over: the context of the old thread is saved, and what the
\* entry will pop is where the new one has got to, on its own page table.
LEMMA SwitchKeeps ==
    ASSUME InterruptsAssumption, IntInv, NEW c \in Call, calls = <<c>>, Busy(c),
           AfterSyscall, UNCHANGED real
    PROVE  ThreadTypes' /\ ContextsSaved' /\ frame'[c.on] = real[current']
<1>1. /\ ThreadTypes /\ real \in [AllThreads -> Context] /\ c.on \in Stacks
      /\ frame[c.on] = real[current] /\ ContextsSaved /\ On = c.on
  BY DEF IntInv, InterruptsTypeOK, ThreadTypes, Call, Busy, On
<1>2. CASE UNCHANGED <<saved, frame, state, current>>
  BY <1>1, <1>2 DEF ThreadTypes, ContextsSaved
<1>3. CASE DoSwitch
  <2>1. PICK t \in Runnable :
          /\ saved' = [saved EXCEPT ![current] = frame[c.on]]
          /\ frame' = [frame EXCEPT ![c.on] = UpThread(t)]
          /\ state' = [state EXCEPT ![current] = DownState, ![t] = "running"]
          /\ current' = t
    BY <1>1, <1>3 DEF DoSwitch
  <2>2. t \in AllThreads /\ (t = EmptyThread \/ t = current \/ state[t] = "ready")
    BY <2>1 DEF Runnable, AllThreads
  <2>3. Registers(t) = real[t]
    <3>1. CASE t = current BY <1>1, <3>1 DEF Registers
    <3>2. CASE t # current
      <4>1. state[t] # "gone" BY <1>1, <2>2, <3>2 DEF ContextsSaved
      <4>2. saved[t] = real[t] BY <1>1, <2>2, <3>2, <4>1 DEF ContextsSaved
      <4> QED BY <3>2, <4>2 DEF Registers
    <3> QED BY <3>1, <3>2
  <2>4. UpThread(t) = real[t]
    <3>1. real[t] \in Context /\ real[t].pgd = t BY <1>1, <2>2 DEF ContextsSaved
    <3>2. \A r \in Context : r.pgd = t => [r EXCEPT !.pgd = t] = r BY DEF Context
    <3> QED BY <2>3, <3>1, <3>2 DEF UpThread
  <2>5. DownState \in {"running", "ready", "waiting", "dying", "gone"}
    BY <1>1 DEF DownState, ThreadTypes
  <2>6. ThreadTypes' BY <1>1, <2>1, <2>2, <2>4, <2>5 DEF ThreadTypes
  <2>7. frame'[c.on] = real[current'] BY <1>1, <2>1, <2>4 DEF ThreadTypes
  <2>8. ASSUME NEW u \in AllThreads, u # t, state'[u] # "gone" PROVE saved'[u] = real[u]
    <3>1. CASE u = current BY <1>1, <2>1, <3>1 DEF ThreadTypes
    <3>2. CASE u # current
      <4>1. state'[u] = state[u] /\ saved'[u] = saved[u] BY <1>1, <2>1, <2>8, <3>2 DEF ThreadTypes
      <4> QED BY <1>1, <2>8, <3>2, <4>1 DEF ContextsSaved
    <3> QED BY <3>1, <3>2
  <2>9. state'[EmptyThread] \in {"running", "ready"}
    <3>1. EmptyThread \in AllThreads BY DEF AllThreads
    <3>2. EmptyThread = current => DownState \in {"running", "ready"}
      BY <1>1 DEF ContextsSaved, DownState
    <3> QED BY <1>1, <2>1, <2>2, <3>1, <3>2 DEF ThreadTypes, ContextsSaved
  <2>10. ContextsSaved' BY <1>1, <2>1, <2>8, <2>9 DEF ContextsSaved
  <2> QED BY <2>6, <2>7, <2>10
<1> QED BY <1>2, <1>3 DEF AfterSyscall

\* A message wakes a thread that waits and does nothing else to the threads.
LEMMA WakeKeeps ==
    ASSUME InterruptsAssumption, IntInv, NEW c \in Call, calls = <<c>>, Busy(c),
           normal_irq_handler, UNCHANGED real
    PROVE  ThreadTypes' /\ ContextsSaved' /\ frame'[c.on] = real[current']
<1>1. /\ ThreadTypes /\ real \in [AllThreads -> Context]
      /\ frame[c.on] = real[current] /\ ContextsSaved /\ UNCHANGED <<saved, frame, current>>
  BY DEF IntInv, InterruptsTypeOK, ThreadTypes, Busy, normal_irq_handler
<1>2. CASE UNCHANGED state BY <1>1, <1>2 DEF ThreadTypes, ContextsSaved
<1>3. CASE \E t \in Threads : state[t] = "waiting" /\ state' = [state EXCEPT ![t] = "ready"]
  <2>1. PICK t \in Threads : state[t] = "waiting" /\ state' = [state EXCEPT ![t] = "ready"]
    BY <1>3
  <2>2. t \in AllThreads /\ t # EmptyThread /\ EmptyThread \in AllThreads
    BY DEF AllThreads, InterruptsAssumption
  <2>3. ThreadTypes' BY <1>1, <2>1, <2>2 DEF ThreadTypes
  <2>4. \A u \in AllThreads : state'[u] # "gone" => state[u] # "gone"
    BY <1>1, <2>1, <2>2 DEF ThreadTypes
  <2>5. state'[EmptyThread] = state[EmptyThread] BY <1>1, <2>1, <2>2 DEF ThreadTypes
  <2>6. ContextsSaved' BY <1>1, <2>4, <2>5 DEF ContextsSaved
  <2> QED BY <1>1, <2>3, <2>6
<1> QED BY <1>2, <1>3 DEF normal_irq_handler
---------------------------------------------------------------------------
(* The entries. *)

\* The processor pushes the context of the thread it runs.
LEMMA Entered ==
    ASSUME InterruptsAssumption, IntInv, calls = <<>>,
           NEW what \in {"irq", "syscall", "exception"}, NEW irq \in 0 .. 15, Enter(what, irq)
    PROVE  /\ \E c \in Call :
                 /\ calls' = <<c>> /\ c.what = what /\ c.irq = irq /\ c.pc = "entered"
                 /\ ~c.flag /\ frame'[c.on] = real[current]
           /\ frame' \in [Stacks -> Context] /\ cpu' = InKernel /\ cpu' \in Context
           /\ IF_flag' = FALSE /\ overwritten' \in BOOLEAN
           /\ what # "exception" => overwritten' = overwritten
<1> DEFINE on == PushedOn(what)
           c == [what |-> what, irq |-> irq, pc |-> "entered", on |-> on, flag |-> entered_handler]
<1>1. /\ Idle /\ cpu \in Context /\ frame \in [Stacks -> Context]
      /\ overwritten \in BOOLEAN /\ entered_handler \in BOOLEAN
  BY DEF IntInv, InterruptsTypeOK
<1>2. on \in Stacks BY DEF PushedOn, Stacks
<1>3. what # "exception" => on = "ist1" BY DEF PushedOn, Gate
<1>4. InKernel \in Context BY DEF InKernel, Context, InterruptsAssumption
<1> HIDE DEF on
<1>5. c \in Call BY <1>1, <1>2 DEF Call
<1>6. /\ frame' = [frame EXCEPT ![on] = cpu] /\ calls' = <<c>> \o calls /\ cpu' = InKernel
      /\ IF_flag' = (IF_flag /\ Gate(what).type # "GATE_INTERRUPT")
      /\ overwritten' = (overwritten \/ (on = "rsp0" /\ state[InitThread] # "gone"))
  BY DEF Enter, on
<1>7. calls' = <<c>> BY <1>6
<1>8. frame'[c.on] = real[current] /\ frame' \in [Stacks -> Context]
  BY <1>1, <1>2, <1>6 DEF Idle
<1>9. ~c.flag BY <1>1 DEF Idle
<1>10. IF_flag' = FALSE BY <1>6 DEF Gate
<1>11. overwritten' \in BOOLEAN /\ (what # "exception" => overwritten' = overwritten)
  BY <1>1, <1>3, <1>6
<1> QED BY <1>4, <1>5, <1>6, <1>7, <1>8, <1>9, <1>10, <1>11

\* With interrupts on no handler runs.
LEMMA OnMeansIdle ==
    ASSUME IntInv, IF_flag
    PROVE  calls = <<>> /\ Idle
BY DEF IntInv, Busy

\* Nor when a thread runs, which is the current one then.
LEMMA ThreadMeansIdle ==
    ASSUME InterruptsAssumption, IntInv, NEW t \in AllThreads, cpu.thread = t
    PROVE  calls = <<>> /\ Idle /\ t = current
<1>1. ~ (cpu = InKernel) BY DEF InKernel, InterruptsAssumption, AllThreads
<1>2. calls = <<>> /\ Idle BY <1>1 DEF IntInv, Busy
<1>3. real[current].thread = current BY DEF IntInv, InterruptsTypeOK, ContextsSaved
<1> QED BY <1>2, <1>3 DEF Idle

LEMMA TakeIrqStep ==
    ASSUME InterruptsAssumption, 8 \notin Lines, IntInv, NEW irq \in Lines, TakeIrq(irq)
    PROVE  IntInv'
<1>1. calls = <<>> /\ Idle BY OnMeansIdle DEF TakeIrq
<1>2. irq \in 0 .. 15 /\ irq # 8 BY DEF InterruptsAssumption
<1>3. PICK c \in Call : /\ calls' = <<c>> /\ c.what = "irq" /\ c.irq = irq /\ c.pc = "entered"
                        /\ ~c.flag /\ frame'[c.on] = real[current]
  BY <1>1, <1>2, Entered DEF TakeIrq
<1>4. /\ frame' \in [Stacks -> Context] /\ cpu' = InKernel /\ cpu' \in Context
      /\ IF_flag' = FALSE /\ overwritten' = overwritten
  BY <1>1, <1>2, Entered DEF TakeIrq
<1>5. /\ irr' = irr \ {irq} /\ isr' = isr \cup {irq} \cup (IF irq >= 8 THEN {2} ELSE {})
      /\ irq \notin imr /\ UNCHANGED <<imr, enabled, kernVars, real, faulted>>
  BY DEF TakeIrq, Acknowledged, Presented
<1>6. isr' = InService(irq) /\ imr' = enabled' .. 15 /\ irq \notin enabled' .. 15
  BY <1>1, <1>5 DEF Idle, InService
<1>7. InterruptsTypeOK'
  <2>1. isr' \subseteq 0 .. 15 BY <1>2, <1>6 DEF InService
  <2> QED BY <1>4, <1>5, <2>1 DEF IntInv, InterruptsTypeOK, kernVars
<1>8. ContextsSaved' BY <1>5 DEF IntInv, ContextsSaved, kernVars
<1>9. LinesOf(c)' BY <1>2, <1>3, <1>6 DEF LinesOf
<1>10. Busy(c)' BY <1>3, <1>4, <1>5, <1>9 DEF Busy, kernVars
<1> QED BY <1>3, <1>4, <1>5, <1>7, <1>8, <1>10 DEF IntInv

LEMMA EnterSyscallStep ==
    ASSUME InterruptsAssumption, IntInv, NEW t \in Threads, EnterSyscall(t)
    PROVE  IntInv'
<1>1. calls = <<>> /\ Idle /\ t = current BY ThreadMeansIdle DEF EnterSyscall, GoesOn, AllThreads
<1>2. PICK c \in Call : /\ calls' = <<c>> /\ c.what = "syscall" /\ c.pc = "entered"
                        /\ ~c.flag /\ frame'[c.on] = real[current]
  BY <1>1, Entered DEF EnterSyscall
<1>3. /\ frame' \in [Stacks -> Context] /\ cpu' = InKernel /\ cpu' \in Context
      /\ IF_flag' = FALSE /\ overwritten' = overwritten
      /\ UNCHANGED <<picVars, enabled, kernVars, real, faulted>>
  BY <1>1, Entered DEF EnterSyscall
<1>4. InterruptsTypeOK' BY <1>3 DEF IntInv, InterruptsTypeOK, kernVars, picVars
<1>5. ContextsSaved' BY <1>3 DEF IntInv, ContextsSaved, kernVars
<1>6. LinesOf(c)' BY <1>1, <1>2, <1>3 DEF LinesOf, Idle, picVars
<1>7. Busy(c)' BY <1>1, <1>2, <1>3, <1>6 DEF Busy, Idle, kernVars
<1> QED BY <1>2, <1>3, <1>4, <1>5, <1>7 DEF IntInv

LEMMA EnterExceptionStep ==
    ASSUME InterruptsAssumption, IntInv, NEW t \in Threads, EnterException(t)
    PROVE  IntInv'
<1>1. calls = <<>> /\ Idle /\ t = current BY ThreadMeansIdle DEF EnterException, AllThreads
<1>2. PICK c \in Call : /\ calls' = <<c>> /\ c.what = "exception" /\ c.pc = "entered"
                        /\ ~c.flag /\ frame'[c.on] = real[current]
  BY <1>1, Entered DEF EnterException
<1>3. /\ frame' \in [Stacks -> Context] /\ cpu' = InKernel /\ cpu' \in Context
      /\ IF_flag' = FALSE /\ overwritten' \in BOOLEAN
      /\ faulted' = faulted \cup {t} /\ t \in Faulting
      /\ UNCHANGED <<picVars, enabled, kernVars, real>>
  BY <1>1, Entered DEF EnterException
<1>4. InterruptsTypeOK' BY <1>3 DEF IntInv, InterruptsTypeOK, kernVars, picVars
<1>5. ContextsSaved' BY <1>3 DEF IntInv, ContextsSaved, kernVars
<1>6. LinesOf(c)' BY <1>1, <1>2, <1>3 DEF LinesOf, Idle, picVars
<1>7. Busy(c)' BY <1>1, <1>2, <1>3, <1>6 DEF Busy, Idle, kernVars
<1>8. faulted' # {} BY <1>3
<1> QED BY <1>2, <1>4, <1>5, <1>7, <1>8 DEF IntInv
---------------------------------------------------------------------------
(* The handlers of the interrupt lines. *)

LEMMA MaskLineStep ==
    ASSUME InterruptsAssumption, IntInv, MaskLine
    PROVE  IntInv'
<1>1. PICK c, d \in Call : Moves(c, d, "irq", "entered", "masked") BY HandlerMoves DEF MaskLine
<1>2. /\ calls = <<c>> /\ Busy(c) /\ c.what = "irq" /\ c.pc = "entered"
      /\ calls' = <<d>> /\ d.what = "irq" /\ d.irq = c.irq /\ d.on = c.on /\ d.flag = c.flag
      /\ d.pc = "masked" /\ Irq = c.irq /\ Head(calls).flag = FALSE
      /\ UNCHANGED <<enabled, IF_flag, cpu, real, overwritten, faulted>>
  BY <1>1 DEF Moves
<1>3. /\ entered_handler' = TRUE /\ imr' = imr \cup {c.irq}
      /\ UNCHANGED <<irr, isr, frame, do_schedule, current, state, saved>>
  BY <1>2 DEF MaskLine, disable_irq
<1>4. c.irq \in 0 .. 15 BY DEF Call
<1>5. InterruptsTypeOK' BY <1>2, <1>3, <1>4 DEF IntInv, InterruptsTypeOK
<1>6. ContextsSaved' BY <1>2, <1>3 DEF IntInv, ContextsSaved
<1>7. LinesOf(d)' BY <1>2, <1>3 DEF Busy, LinesOf
<1>8. Busy(d)' BY <1>2, <1>3, <1>7 DEF Busy
<1> QED BY <1>2, <1>5, <1>6, <1>8 DEF IntInv

LEMMA SendEoiStep ==
    ASSUME InterruptsAssumption, IntInv, SendEoi
    PROVE  IntInv'
<1>1. PICK c, d \in Call : Moves(c, d, "irq", "masked", "acked") BY HandlerMoves DEF SendEoi
<1>2. /\ calls = <<c>> /\ Busy(c) /\ c.what = "irq" /\ c.pc = "masked"
      /\ calls' = <<d>> /\ d.what = "irq" /\ d.irq = c.irq /\ d.on = c.on /\ d.flag = c.flag
      /\ d.pc = "acked" /\ Irq = c.irq /\ Head(calls).flag = FALSE
      /\ UNCHANGED <<enabled, IF_flag, cpu, real, overwritten, faulted>>
  BY <1>1 DEF Moves
<1>3. isr = InService(c.irq) /\ c.irq # 8 BY <1>2 DEF Busy, LinesOf
<1>4. c.irq \in 0 .. 15 BY DEF Call
<1>5. /\ isr' = {} /\ UNCHANGED <<imr, irr, frame, kernVars>>
  BY <1>2, <1>3, <1>4, EoiEnds DEF SendEoi
<1>6. InterruptsTypeOK' BY <1>2, <1>5 DEF IntInv, InterruptsTypeOK, kernVars
<1>7. ContextsSaved' BY <1>2, <1>5 DEF IntInv, ContextsSaved, kernVars
<1>8. LinesOf(d)' BY <1>2, <1>5 DEF Busy, LinesOf
<1>9. Busy(d)' BY <1>2, <1>5, <1>8 DEF Busy, kernVars
<1> QED BY <1>2, <1>6, <1>7, <1>9 DEF IntInv

LEMMA CallHandlerStep ==
    ASSUME InterruptsAssumption, IntInv, CallHandler
    PROVE  IntInv'
<1>1. PICK c, d \in Call : Moves(c, d, "irq", "acked", "handled") BY HandlerMoves DEF CallHandler
<1>2. /\ calls = <<c>> /\ Busy(c) /\ c.what = "irq" /\ c.pc = "acked"
      /\ calls' = <<d>> /\ d.what = "irq" /\ d.irq = c.irq /\ d.on = c.on /\ d.flag = c.flag
      /\ d.pc = "handled" /\ Irq = c.irq /\ Head(calls).flag = FALSE
      /\ UNCHANGED <<enabled, IF_flag, cpu, real, overwritten, faulted>>
  BY <1>1 DEF Moves
<1>3. UNCHANGED <<picVars, entered_handler, do_schedule>> BY DEF CallHandler
<1>4. ThreadTypes' /\ ContextsSaved' /\ frame'[c.on] = real[current']
  <2>1. AfterSyscall \/ normal_irq_handler BY DEF CallHandler, clock_int_handler
  <2> QED BY <1>2, <2>1, SwitchKeeps, WakeKeeps
<1>5. InterruptsTypeOK' BY <1>2, <1>3, <1>4 DEF IntInv, InterruptsTypeOK, ThreadTypes, picVars
<1>6. LinesOf(d)' BY <1>2, <1>3 DEF Busy, LinesOf, picVars
<1>7. Busy(d)' BY <1>2, <1>3, <1>4, <1>6 DEF Busy
<1> QED BY <1>2, <1>4, <1>5, <1>7 DEF IntInv

LEMMA UnmaskLineStep ==
    ASSUME InterruptsAssumption, IntInv, UnmaskLine
    PROVE  IntInv'
<1>1. PICK c, d \in Call : Moves(c, d, "irq", "handled", "done") BY HandlerMoves DEF UnmaskLine
<1>2. /\ calls = <<c>> /\ Busy(c) /\ c.what = "irq" /\ c.pc = "handled"
      /\ calls' = <<d>> /\ d.what = "irq" /\ d.irq = c.irq /\ d.on = c.on /\ d.flag = c.flag
      /\ d.pc = "done" /\ Irq = c.irq /\ Head(calls).flag = FALSE
      /\ UNCHANGED <<enabled, IF_flag, cpu, real, overwritten, faulted>>
  BY <1>1 DEF Moves
<1>3. /\ entered_handler' = FALSE /\ imr' = imr \ {c.irq}
      /\ UNCHANGED <<irr, isr, frame, do_schedule, current, state, saved>>
  BY <1>2 DEF UnmaskLine, enable_irq
<1>4. InterruptsTypeOK' BY <1>2, <1>3 DEF IntInv, InterruptsTypeOK
<1>5. ContextsSaved' BY <1>2, <1>3 DEF IntInv, ContextsSaved
<1>6. imr' = enabled .. 15 BY <1>2, <1>3 DEF Busy, LinesOf
<1>7. LinesOf(d)' BY <1>2, <1>3, <1>6 DEF Busy, LinesOf
<1>8. Busy(d)' BY <1>2, <1>3, <1>7 DEF Busy
<1> QED BY <1>2, <1>4, <1>5, <1>8 DEF IntInv
---------------------------------------------------------------------------
(* System calls and exceptions. *)

\* What a system call or an exception does to the current thread, or a system call
\* to one that waits, takes no context from it.
LEMMA StateKeeps ==
    ASSUME InterruptsAssumption, IntInv, NEW t \in Threads, NEW new \in {"ready", "waiting", "dying"},
           t = current \/ state[t] = "waiting",
           state' = [state EXCEPT ![t] = new], UNCHANGED <<current, saved>>,
           \A u \in AllThreads : /\ real'[u].thread = u /\ real'[u].pgd = u
                                 /\ u # current => real'[u] = real[u]
    PROVE  ContextsSaved' /\ state' \in [AllThreads -> {"running", "ready", "waiting", "dying", "gone"}]
<1>1. /\ state \in [AllThreads -> {"running", "ready", "waiting", "dying", "gone"}]
      /\ ContextsSaved
  BY DEF IntInv, InterruptsTypeOK
<1>2. t \in AllThreads /\ t # EmptyThread /\ EmptyThread \in AllThreads
  BY DEF AllThreads, InterruptsAssumption
<1>3. state'[EmptyThread] = state[EmptyThread] BY <1>1, <1>2
<1>4. \A u \in AllThreads \ {current} : state'[u] # "gone" => state[u] # "gone"
  BY <1>1, <1>2
<1> QED BY <1>1, <1>2, <1>3, <1>4 DEF ContextsSaved

LEMMA SyscallStep ==
    ASSUME InterruptsAssumption, IntInv, Syscall
    PROVE  IntInv'
<1>1. PICK c \in Call : calls = <<c>> /\ Busy(c) BY DEF Syscall, IntInv
<1>2. Head(calls) = c /\ On = c.on BY <1>1 DEF On
<1> DEFINE d == [c EXCEPT !.pc = "called"]
           value == real[current].step
<1>3. calls' = <<d>> BY <1>1, CallMoves DEF Syscall
<1>4. /\ d \in Call /\ d.what = c.what /\ d.irq = c.irq /\ d.on = c.on /\ d.flag = c.flag
      /\ d.pc = "called" /\ c.on \in Stacks
  BY DEF Call
<1> HIDE DEF d
<1>5. /\ c.what = "syscall" /\ c.pc = "entered" /\ entered_handler' = TRUE
      /\ frame' = [frame EXCEPT ![c.on].rax = value]
      /\ real' = [real EXCEPT ![current].rax = value]
      /\ UNCHANGED <<picVars, enabled, IF_flag, cpu, do_schedule, current, saved, overwritten, faulted>>
  BY <1>2 DEF Syscall
<1>6. /\ frame \in [Stacks -> Context] /\ real \in [AllThreads -> Context]
      /\ current \in AllThreads /\ current \in Threads /\ frame[c.on] = real[current]
      /\ ContextsSaved
  BY <1>1, <1>5 DEF IntInv, InterruptsTypeOK, Busy
<1>7. \A r \in Context, v \in 0 .. MaxSteps :
         LET n == [r EXCEPT !.rax = v] IN n \in Context /\ n.thread = r.thread /\ n.pgd = r.pgd
  BY DEF Context
<1>8. value \in 0 .. MaxSteps BY <1>6 DEF Context
<1>9. /\ frame' \in [Stacks -> Context] /\ real' \in [AllThreads -> Context]
      /\ frame'[c.on] = real'[current]
  BY <1>4, <1>5, <1>6, <1>7, <1>8
<1>10. \A u \in AllThreads : /\ real'[u].thread = u /\ real'[u].pgd = u
                             /\ u # current => real'[u] = real[u]
  BY <1>5, <1>6, <1>7, <1>8 DEF ContextsSaved
<1>11. ContextsSaved' /\ state' \in [AllThreads -> {"running", "ready", "waiting", "dying", "gone"}]
  <2>1. CASE state' = [state EXCEPT ![current] = "waiting"]
    BY <1>5, <1>6, <1>10, <2>1, StateKeeps
  <2>2. CASE state' = [state EXCEPT ![current] = "dying"]
    BY <1>5, <1>6, <1>10, <2>2, StateKeeps
  <2>3. CASE state' = state
    BY <1>5, <1>6, <1>10, <2>3 DEF ContextsSaved, IntInv, InterruptsTypeOK
  <2>4. CASE \E t \in Threads : state[t] = "waiting" /\ state' = [state EXCEPT ![t] = "ready"]
    BY <1>5, <1>6, <1>10, <2>4, StateKeeps
  <2>5. state' \in {[state EXCEPT ![current] = "waiting"], [state EXCEPT ![current] = "dying"],
                     state}
                    \cup {[state EXCEPT ![t] = "ready"] : t \in {u \in Threads : state[u] = "waiting"}}
    BY DEF Syscall
  <2> QED BY <2>1, <2>2, <2>3, <2>4, <2>5
<1>12. InterruptsTypeOK' BY <1>5, <1>9, <1>11 DEF IntInv, InterruptsTypeOK, picVars
<1>13. LinesOf(d)' BY <1>1, <1>4, <1>5 DEF Busy, LinesOf, picVars
<1>14. Busy(d)' BY <1>1, <1>4, <1>5, <1>9, <1>13 DEF Busy
<1> QED BY <1>3, <1>4, <1>5, <1>11, <1>12, <1>14 DEF IntInv

LEMMA EndSyscallStep ==
    ASSUME InterruptsAssumption, IntInv, EndSyscall
    PROVE  IntInv'
<1>1. PICK c, d \in Call : Moves(c, d, "syscall", "called", "done") BY HandlerMoves DEF EndSyscall
<1>2. /\ calls = <<c>> /\ Busy(c) /\ c.what = "syscall" /\ c.pc = "called"
      /\ calls' = <<d>> /\ d.what = "syscall" /\ d.irq = c.irq /\ d.on = c.on /\ d.flag = c.flag
      /\ d.pc = "done" /\ Head(calls).flag = FALSE
      /\ UNCHANGED <<enabled, IF_flag, cpu, real, overwritten, faulted>>
  BY <1>1 DEF Moves
<1>3. entered_handler' = FALSE /\ UNCHANGED <<picVars, do_schedule>> BY <1>2 DEF EndSyscall
<1>4. ThreadTypes' /\ ContextsSaved' /\ frame'[c.on] = real[current']
  <2>1. AfterSyscall BY <1>2 DEF EndSyscall
  <2> QED BY <1>2, <2>1, SwitchKeeps
<1>5. InterruptsTypeOK' BY <1>2, <1>3, <1>4 DEF IntInv, InterruptsTypeOK, ThreadTypes, picVars
<1>6. LinesOf(d)' BY <1>2, <1>3 DEF Busy, LinesOf, picVars
<1>7. Busy(d)' BY <1>2, <1>3, <1>4, <1>6 DEF Busy
<1> QED BY <1>2, <1>4, <1>5, <1>7 DEF IntInv

LEMMA ExceptionStep ==
    ASSUME InterruptsAssumption, IntInv, Exception
    PROVE  IntInv'
<1>1. PICK c, d \in Call : Moves(c, d, "exception", "entered", "called") BY HandlerMoves DEF Exception
<1>2. /\ calls = <<c>> /\ Busy(c) /\ c.what = "exception" /\ c.pc = "entered"
      /\ calls' = <<d>> /\ d.what = "exception" /\ d.irq = c.irq /\ d.on = c.on /\ d.flag = c.flag
      /\ d.pc = "called"
      /\ UNCHANGED <<enabled, IF_flag, cpu, real, overwritten, faulted>>
  BY <1>1 DEF Moves
<1>3. /\ state' = [state EXCEPT ![current] = "dying"]
      /\ UNCHANGED <<picVars, frame, entered_handler, do_schedule, current, saved>>
  BY DEF Exception
<1>4. current \in Threads BY <1>2 DEF Busy
<1>5. ContextsSaved' /\ state' \in [AllThreads -> {"running", "ready", "waiting", "dying", "gone"}]
  <2>1. \A u \in AllThreads : /\ real'[u].thread = u /\ real'[u].pgd = u
                              /\ u # current => real'[u] = real[u]
    BY <1>2 DEF IntInv, ContextsSaved
  <2>2. state' = [state EXCEPT ![current] = "dying"] /\ current' = current /\ saved' = saved
    BY <1>3
  <2> QED BY <1>4, <2>1, <2>2, StateKeeps
<1>6. InterruptsTypeOK' BY <1>2, <1>3, <1>5 DEF IntInv, InterruptsTypeOK, picVars
<1>7. LinesOf(d)' BY <1>2, <1>3 DEF Busy, LinesOf, picVars
<1>8. Busy(d)' BY <1>2, <1>3, <1>7 DEF Busy
<1> QED BY <1>2, <1>5, <1>6, <1>8 DEF IntInv

LEMMA EndExceptionStep ==
    ASSUME InterruptsAssumption, IntInv, EndException
    PROVE  IntInv'
<1>1. PICK c, d \in Call : Moves(c, d, "exception", "called", "done") BY HandlerMoves DEF EndException
<1>2. /\ calls = <<c>> /\ Busy(c) /\ c.what = "exception" /\ c.pc = "called"
      /\ calls' = <<d>> /\ d.what = "exception" /\ d.irq = c.irq /\ d.on = c.on /\ d.flag = c.flag
      /\ d.pc = "done"
      /\ UNCHANGED <<enabled, IF_flag, cpu, real, overwritten, faulted>>
  BY <1>1 DEF Moves
<1>3. AfterSyscall /\ UNCHANGED <<picVars, entered_handler, do_schedule>> BY DEF EndException
<1>4. ThreadTypes' /\ ContextsSaved' /\ frame'[c.on] = real[current']
  BY <1>2, <1>3, SwitchKeeps
<1>5. InterruptsTypeOK' BY <1>2, <1>3, <1>4 DEF IntInv, InterruptsTypeOK, ThreadTypes, picVars
<1>6. LinesOf(d)' BY <1>2, <1>3 DEF Busy, LinesOf, picVars
<1>7. Busy(d)' BY <1>2, <1>3, <1>4, <1>6 DEF Busy
<1> QED BY <1>2, <1>4, <1>5, <1>7 DEF IntInv
---------------------------------------------------------------------------
(* The end of an entry, and what happens between them. *)

LEMMA ReturnStep ==
    ASSUME InterruptsAssumption, IntInv, Return
    PROVE  IntInv'
<1>1. PICK c \in Call : calls = <<c>> /\ Busy(c) BY DEF Return, IntInv
<1>2. Head(calls) = c /\ Tail(calls) = <<>> BY <1>1
<1>3. /\ c.pc = "done" /\ cpu' = frame[c.on] /\ calls' = <<>> /\ IF_flag' = TRUE
      /\ UNCHANGED <<picVars, enabled, frame, kernVars, real, overwritten, faulted>>
  BY <1>2 DEF Return
<1>4. frame[c.on] \in Context BY DEF IntInv, InterruptsTypeOK, Call
<1>5. InterruptsTypeOK' BY <1>3, <1>4 DEF IntInv, InterruptsTypeOK, picVars, kernVars
<1>6. ContextsSaved' BY <1>3 DEF IntInv, ContextsSaved, kernVars
<1>7. isr = {} /\ imr = enabled .. 15
  BY <1>1, <1>3 DEF Busy, LinesOf
<1>8. Idle' BY <1>1, <1>3, <1>7 DEF Busy, Idle, picVars, kernVars
<1> QED BY <1>3, <1>5, <1>6, <1>8 DEF IntInv

LEMMA InitState ==
    ASSUME InterruptsAssumption, IntInit
    PROVE  IntInv
<1>1. InitThread \in AllThreads /\ EmptyThread \in AllThreads BY DEF InterruptsAssumption, AllThreads
<1>2. InKernel \in Context BY DEF InKernel, Context, InterruptsAssumption
<1>3. \A t \in AllThreads : Start(t) \in Context /\ Start(t).thread = t /\ Start(t).pgd = t
  BY DEF Start, Context, InterruptsAssumption
<1>4. InterruptsTypeOK
  <2>1. cpu \in Context /\ frame \in [Stacks -> Context] BY <1>1, <1>2, <1>3 DEF IntInit
  <2>2. saved \in [AllThreads -> Context] /\ real \in [AllThreads -> Context]
    BY <1>3 DEF IntInit
  <2>3. state \in [AllThreads -> {"running", "ready", "waiting", "dying", "gone"}] BY DEF IntInit
  <2>4. /\ imr \subseteq 0 .. 15 /\ irr \subseteq Lines /\ isr \subseteq 0 .. 15
        /\ enabled \in 0 .. 16 /\ faulted \subseteq Faulting /\ current \in AllThreads
        /\ IF_flag = FALSE /\ entered_handler = FALSE /\ do_schedule = FALSE
        /\ overwritten = FALSE
    BY <1>1 DEF IntInit
  <2>5. {IF_flag, entered_handler, do_schedule, overwritten} \subseteq BOOLEAN BY <2>4
  <2> QED BY <2>1, <2>2, <2>3, <2>4, <2>5 DEF InterruptsTypeOK
<1>5. ContextsSaved BY <1>1, <1>3 DEF IntInit, ContextsSaved
<1>6. Idle BY <1>1 DEF IntInit, Idle
<1> QED BY <1>4, <1>5, <1>6 DEF IntInit, IntInv

\* initialize() enables the lines and then interrupts.
LEMMA EnableLinesStep ==
    ASSUME InterruptsAssumption, IntInv, EnableLines
    PROVE  IntInv'
<1>1. /\ calls = <<>> /\ Idle /\ enabled \in 0 .. 16
      /\ UNCHANGED <<irr, isr, cpu, frame, calls, kernVars, real, overwritten, faulted>>
  BY DEF EnableLines, IntInv, InterruptsTypeOK
<1>2. \/ enabled < 16 /\ imr' = imr \ {enabled} /\ enabled' = enabled + 1 /\ UNCHANGED IF_flag
      \/ IF_flag' = TRUE /\ UNCHANGED <<imr, enabled>>
  BY DEF EnableLines, enable_irq
<1>3. imr' = enabled' .. 15 /\ enabled' \in 0 .. 16
  <2>1. imr = enabled .. 15 BY <1>1 DEF Idle
  <2>2. CASE enabled < 16 /\ imr' = imr \ {enabled} /\ enabled' = enabled + 1
    BY <1>1, <2>1, <2>2
  <2>3. CASE UNCHANGED <<imr, enabled>> BY <1>1, <2>1, <2>3
  <2> QED BY <1>2, <2>2, <2>3
<1>4. InterruptsTypeOK' BY <1>1, <1>2, <1>3 DEF IntInv, InterruptsTypeOK, kernVars
<1>5. ContextsSaved' BY <1>1 DEF IntInv, ContextsSaved, kernVars
<1>6. Idle' BY <1>1, <1>3 DEF Idle, kernVars
<1> QED BY <1>1, <1>4, <1>5, <1>6 DEF IntInv

\* A thread goes on.
LEMMA ExecuteStep ==
    ASSUME InterruptsAssumption, IntInv, NEW t \in AllThreads, Execute(t)
    PROVE  IntInv'
<1>1. calls = <<>> /\ Idle /\ t = current BY ThreadMeansIdle DEF Execute, GoesOn
<1>2. /\ cpu' = [cpu EXCEPT !.step = @ + 1] /\ real' = [real EXCEPT ![t].step = @ + 1]
      /\ cpu.step < MaxSteps
      /\ UNCHANGED <<picVars, enabled, IF_flag, frame, calls, kernVars, overwritten, faulted>>
  BY DEF Execute
<1>3. /\ real \in [AllThreads -> Context] /\ current \in AllThreads /\ cpu = real[current]
      /\ ContextsSaved /\ MaxSteps \in Nat
  BY <1>1 DEF IntInv, InterruptsTypeOK, Idle, InterruptsAssumption
<1>4. \A r \in Context : r.step < MaxSteps =>
         LET n == [r EXCEPT !.step = @ + 1] IN n \in Context /\ n.thread = r.thread /\ n.pgd = r.pgd
  BY <1>3 DEF Context
<1>5. /\ real' \in [AllThreads -> Context] /\ cpu' \in Context /\ cpu' = real'[current]
      /\ real'[current].thread = current /\ real'[current].pgd = current
      /\ \A u \in AllThreads : u # current => real'[u] = real[u]
  BY <1>1, <1>2, <1>3, <1>4 DEF ContextsSaved
<1>6. InterruptsTypeOK' BY <1>2, <1>5 DEF IntInv, InterruptsTypeOK, picVars, kernVars
<1>7. ContextsSaved' BY <1>2, <1>3, <1>5 DEF ContextsSaved, kernVars
<1>8. Idle' BY <1>1, <1>2, <1>5 DEF Idle, picVars, kernVars
<1> QED BY <1>1, <1>2, <1>6, <1>7, <1>8 DEF IntInv

\* What the invariant does not speak of: the lines that are raised, and whether
\* the scheduler has been started.
LEMMA OtherSteps ==
    ASSUME InterruptsAssumption, IntInv, irr' \subseteq Lines, do_schedule' \in BOOLEAN,
           UNCHANGED <<imr, isr, enabled, IF_flag, cpu, frame, calls, entered_handler, current, state,
                       saved, real, overwritten, faulted>>
    PROVE  IntInv'
<1>1. InterruptsTypeOK' BY DEF IntInv, InterruptsTypeOK
<1>2. ContextsSaved' BY DEF IntInv, ContextsSaved
<1>3. calls = <<>> /\ Idle => Idle' BY DEF Idle
<1>4. ASSUME NEW c \in Call, Busy(c) PROVE Busy(c)' BY <1>4 DEF Busy, LinesOf
<1> QED BY <1>1, <1>2, <1>3, <1>4 DEF IntInv
---------------------------------------------------------------------------
\* One entry at a time, its context where it was pushed, and the line that came
\* in masked and in service as far as its handler has come: for any threads, on
\* every line but 8, which send_eoi (init_int.c:85) takes for one of the master's.
THEOREM EntriesInvariant ==
    ASSUME InterruptsAssumption, 8 \notin Lines
    PROVE  IntSpec => []IntInv
<1>1. ASSUME IntInv, [IntNext]_intVars PROVE IntInv'
  <2>1. CASE EnableLines BY <1>1, <2>1, EnableLinesStep
  <2>2. CASE start_schedule
    BY <1>1, <2>2, OtherSteps DEF start_schedule, picVars, IntInv, InterruptsTypeOK
  <2>3. CASE MaskLine BY <1>1, <2>3, MaskLineStep
  <2>4. CASE SendEoi BY <1>1, <2>4, SendEoiStep
  <2>5. CASE CallHandler BY <1>1, <2>5, CallHandlerStep
  <2>6. CASE UnmaskLine BY <1>1, <2>6, UnmaskLineStep
  <2>7. CASE Syscall BY <1>1, <2>7, SyscallStep
  <2>8. CASE EndSyscall BY <1>1, <2>8, EndSyscallStep
  <2>9. CASE Exception BY <1>1, <2>9, ExceptionStep
  <2>10. CASE EndException BY <1>1, <2>10, EndExceptionStep
  <2>11. CASE Return BY <1>1, <2>11, ReturnStep
  <2>12. ASSUME NEW irq \in Lines, Raise(irq) PROVE IntInv'
    BY <1>1, <2>12, OtherSteps DEF Raise, kernVars, IntInv, InterruptsTypeOK
  <2>13. ASSUME NEW irq \in Lines, TakeIrq(irq) PROVE IntInv' BY <1>1, <2>13, TakeIrqStep
  <2>14. ASSUME NEW t \in AllThreads, ThreadStep(t) PROVE IntInv'
    BY <1>1, <2>14, ExecuteStep, EnterSyscallStep, EnterExceptionStep DEF ThreadStep
  <2>15. CASE UNCHANGED intVars
    BY <1>1, <2>15, OtherSteps DEF intVars, picVars, kernVars, IntInv, InterruptsTypeOK
  <2> QED BY <1>1, <2>1, <2>2, <2>3, <2>4, <2>5, <2>6, <2>7, <2>8, <2>9, <2>10, <2>11, <2>12,
             <2>13, <2>14, <2>15 DEF IntNext, HandlerStep
<1> QED BY <1>1, InitState, PTL DEF IntSpec

\* An interrupt, a system call or an exception leaves no trace but what it is for:
\* each thread goes on where it was with what it was given, on its own page table,
\* and no line is left masked or in service.  (int_handlers.S, do_switch,
\* general_irq_handler, send_eoi)
THEOREM EntriesCorrect ==
    ASSUME InterruptsAssumption, 8 \notin Lines
    PROVE  IntSpec => []EntriesLeaveNoTrace
<1>1. IntInv => EntriesLeaveNoTrace
  <2> SUFFICES ASSUME IntInv PROVE EntriesLeaveNoTrace OBVIOUS
  <2>1. ASSUME calls = <<>> PROVE Idle BY <2>1 DEF IntInv
  <2>2. real[current].thread = current BY DEF IntInv, InterruptsTypeOK, ContextsSaved
  <2>3. ContextsKept BY <2>1, <2>2 DEF IntInv, ContextsSaved, ContextsKept, Idle
  <2>4. NothingLeftInService BY <2>1 DEF NothingLeftInService, Idle
  <2> QED BY <2>3, <2>4 DEF EntriesLeaveNoTrace
<1> QED BY <1>1, EntriesInvariant, PTL
---------------------------------------------------------------------------
(* The lists of threads. *)

USE ThreadListAssumption

\* Who is in S leads nowhere else.
Closed(S) == \A p \in S : mem[p].next = NULL \/ mem[p].next \in S

Nexts(S) == {mem[p].next : p \in S} \ {NULL}

\* The first n rounds of the search from i.
ReachTo(n, f, i) == /\ f \in [0 .. n -> SUBSET Infos]
                    /\ f[0] = {i}
                    /\ \A k \in 1 .. n : f[k] = f[k - 1] \cup Nexts(f[k - 1])

LEMMA ReachExists ==
    ASSUME ThreadListTypeOK, NEW i \in Infos, NEW N \in Nat
    PROVE  \E f : ReachTo(N, f, i)
<1> DEFINE T == {n \in Nat : \E f : ReachTo(n, f, i)}
<1>1. 0 \in T
  <2>1. ReachTo(0, [k \in 0 .. 0 |-> {i}], i) BY DEF ReachTo
  <2> QED BY <2>1
<1>2. ASSUME NEW n \in Nat, n \in T PROVE n + 1 \in T
  <2>1. PICK f : ReachTo(n, f, i) BY <1>2
  <2> DEFINE g == [k \in 0 .. n + 1 |-> IF k <= n THEN f[k] ELSE f[n] \cup Nexts(f[n])]
  <2>2. f[n] \in SUBSET Infos BY <2>1 DEF ReachTo
  <2>3. Nexts(f[n]) \subseteq Infos BY <2>2 DEF Nexts, ThreadListTypeOK, ThreadInfo, Pointer
  <2>4. g \in [0 .. n + 1 -> SUBSET Infos] /\ g[0] = {i} BY <2>1, <2>2, <2>3 DEF ReachTo
  <2>5. ASSUME NEW k \in 1 .. n + 1 PROVE g[k] = g[k - 1] \cup Nexts(g[k - 1])
    <3>1. CASE k = n + 1 BY <3>1
    <3>2. CASE k \in 1 .. n
      <4>1. f[k] = f[k - 1] \cup Nexts(f[k - 1]) BY <2>1, <3>2 DEF ReachTo
      <4>2. g[k] = f[k] /\ g[k - 1] = f[k - 1] BY <3>2
      <4> QED BY <4>1, <4>2
    <3> HIDE DEF g
    <3>3. k = n + 1 \/ k \in 1 .. n OBVIOUS
    <3> QED BY <3>1, <3>2, <3>3
  <2> HIDE DEF g
  <2>6. ReachTo(n + 1, g, i) BY <2>4, <2>5 DEF ReachTo
  <2> QED BY <2>6
<1>3. Nat \subseteq T
  <2> HIDE DEF T
  <2> QED BY <1>1, <1>2, AllNumbers
<1> QED BY <1>3

\* A round that finds nobody new ends the search, and there are not more
\* rounds than places.
LEMMA ReachEnds ==
    ASSUME ThreadListTypeOK, NEW i \in Infos, NEW f,
           ReachTo(Cardinality(Infos), f, i)
    PROVE  /\ f[Cardinality(Infos)] \subseteq Infos /\ i \in f[Cardinality(Infos)]
           /\ Closed(f[Cardinality(Infos)])
           /\ \A S : i \in S /\ Closed(S) => f[Cardinality(Infos)] \subseteq S
<1> DEFINE N == Cardinality(Infos)
           T == {n \in Nat : n <= N =>
                    i \in f[n] /\ (Closed(f[n]) \/ n + 1 <= Cardinality(f[n]))}
<1>1. N \in Nat BY FS_CardinalityType
<1>2. /\ \A n \in 0 .. N : f[n] \in SUBSET Infos
      /\ f[0] = {i}
      /\ \A n \in 1 .. N : f[n] = f[n - 1] \cup Nexts(f[n - 1])
  BY DEF ReachTo
<1> HIDE DEF N
<1>3. 0 \in T
  <2>1. Cardinality({i}) = 1 BY FS_Singleton
  <2> QED BY <1>2, <2>1
<1>4. ASSUME NEW n \in Nat, n \in T, n + 1 <= N
      PROVE  i \in f[n + 1] /\ (Closed(f[n + 1]) \/ n + 1 + 1 <= Cardinality(f[n + 1]))
  <2>1. n + 1 \in 1 .. N /\ n \in 0 .. N /\ n + 1 \in 0 .. N /\ (n + 1) - 1 = n BY <1>1, <1>4
  <2>2. f[n + 1] = f[n] \cup Nexts(f[n]) BY <1>2, <2>1
  <2>3. i \in f[n] /\ (Closed(f[n]) \/ n + 1 <= Cardinality(f[n])) BY <1>1, <1>4
  <2>4. CASE Closed(f[n])
    <3>1. f[n + 1] = f[n] BY <2>2, <2>4 DEF Closed, Nexts
    <3> QED BY <2>3, <2>4, <3>1
  <2>5. CASE ~ Closed(f[n])
    <3>1. PICK p \in f[n] : mem[p].next # NULL /\ mem[p].next \notin f[n] BY <2>5 DEF Closed
    <3>2. f[n] \cup {mem[p].next} \subseteq f[n + 1] BY <2>2, <3>1 DEF Nexts
    <3>3. f[n] \subseteq Infos /\ f[n + 1] \subseteq Infos BY <1>2, <2>1
    <3>4. IsFiniteSet(f[n]) /\ IsFiniteSet(f[n + 1]) BY <3>3, FS_Subset
    <3>5. Cardinality(f[n] \cup {mem[p].next}) = Cardinality(f[n]) + 1
      <4> DEFINE Q == f[n]
                 x == mem[p].next
      <4>1. IsFiniteSet(Q) /\ x \notin Q BY <3>1, <3>4
      <4> HIDE DEF Q, x
      <4>2. Cardinality(Q \cup {x}) = Cardinality(Q) + 1 BY <4>1, FS_AddElement
      <4> QED BY <4>2 DEF Q, x
    <3>6. Cardinality(f[n] \cup {mem[p].next}) <= Cardinality(f[n + 1])
      BY <3>2, <3>4, FS_Subset
    <3>7. Cardinality(f[n]) \in Nat /\ Cardinality(f[n + 1]) \in Nat BY <3>4, FS_CardinalityType
    <3>8. n + 1 <= Cardinality(f[n]) BY <2>3, <2>5
    <3>9. n + 1 + 1 <= Cardinality(f[n + 1])
      <4> DEFINE c == Cardinality(f[n])
                 d == Cardinality(f[n + 1])
      <4>1. c \in Nat /\ d \in Nat /\ n + 1 <= c /\ c + 1 <= d BY <3>5, <3>6, <3>7, <3>8
      <4> HIDE DEF c, d
      <4>2. n + 1 + 1 <= d BY <4>1
      <4> QED BY <4>2 DEF d
    <3> QED BY <2>2, <2>3, <3>9
  <2> QED BY <2>4, <2>5
<1>5. ASSUME NEW n \in Nat, n \in T PROVE n + 1 \in T
  <2>1. CASE n + 1 <= N BY <1>4, <1>5, <2>1
  <2>2. CASE ~ (n + 1 <= N) BY <2>2
  <2> QED BY <2>1, <2>2
<1>6. Nat \subseteq T
  <2> HIDE DEF T
  <2> QED BY <1>3, <1>5, AllNumbers
<1>7. f[N] \subseteq Infos /\ i \in f[N] /\ Closed(f[N])
  <2>1. N \in T
    <3> HIDE DEF T
    <3> QED BY <1>1, <1>6
  <2>2. i \in f[N] /\ (Closed(f[N]) \/ N + 1 <= Cardinality(f[N])) BY <1>1, <2>1
  <2>3. f[N] \subseteq Infos BY <1>1, <1>2
  <2>4. Cardinality(f[N]) <= N BY <2>3, FS_Subset DEF N
  <2>5. Cardinality(f[N]) \in Nat
    <3>1. IsFiniteSet(f[N]) BY <2>3, FS_Subset
    <3> QED BY <3>1, FS_CardinalityType
  <2> QED BY <1>1, <2>2, <2>3, <2>4, <2>5
<1>8. ASSUME NEW S, i \in S, Closed(S) PROVE f[N] \subseteq S
  <2> DEFINE U == {n \in Nat : n <= N => f[n] \subseteq S}
  <2>1. 0 \in U BY <1>2, <1>8
  <2>2. ASSUME NEW n \in Nat, n \in U, n + 1 <= N PROVE f[n + 1] \subseteq S
    <3>1. n + 1 \in 1 .. N /\ (n + 1) - 1 = n BY <1>1, <2>2
    <3>2. f[n + 1] = f[n] \cup Nexts(f[n]) BY <1>2, <3>1
    <3>3. f[n] \subseteq S BY <1>1, <2>2
    <3> QED BY <1>8, <3>2, <3>3 DEF Closed, Nexts
  <2>3. \A n \in Nat : n \in U => n + 1 \in U BY <2>2
  <2>4. Nat \subseteq U
    <3> HIDE DEF U
    <3> QED BY <2>1, <2>3, AllNumbers
  <2>5. N \in U
    <3> HIDE DEF U
    <3> QED BY <1>1, <2>4
  <2> QED BY <1>1, <2>5
<1> QED BY <1>7, <1>8 DEF N

\* Path is the smallest closed set with i.
LEMMA PathIs ==
    ASSUME ThreadListTypeOK, NEW i \in Infos
    PROVE  /\ Path(i) \subseteq Infos /\ i \in Path(i) /\ Closed(Path(i))
           /\ \A S : i \in S /\ Closed(S) => Path(i) \subseteq S
<1> DEFINE N == Cardinality(Infos)
           Loop(f) == f = [n \in 0 .. N |-> IF n = 0 THEN {i}
                              ELSE f[n - 1] \cup ({mem[p].next : p \in f[n - 1]} \ {NULL})]
<1>1. N \in Nat BY FS_CardinalityType
<1>2. PICK f : ReachTo(N, f, i) BY <1>1, ReachExists
<1>3. Loop(f)
  <2> HIDE DEF N
  <2> QED BY <1>1, <1>2 DEF ReachTo, Nexts
<1>4. ASSUME NEW g, Loop(g) PROVE ReachTo(N, g, i)
  <2> DEFINE T == {n \in Nat : n <= N => g[n] \in SUBSET Infos}
  <2> HIDE DEF N
  <2>1. /\ DOMAIN g = 0 .. N /\ g = [n \in 0 .. N |-> g[n]] /\ g[0] = {i}
        /\ \A n \in 1 .. N : g[n] = g[n - 1] \cup Nexts(g[n - 1])
    BY <1>1, <1>4 DEF Nexts
  <2> HIDE DEF Loop
  <2>2. 0 \in T BY <2>1
  <2>3. ASSUME NEW n \in Nat, n \in T, n + 1 <= N PROVE g[n + 1] \in SUBSET Infos
    <3>1. n + 1 \in 1 .. N /\ (n + 1) - 1 = n BY <1>1, <2>3
    <3>2. g[n + 1] = g[n] \cup Nexts(g[n]) BY <2>1, <3>1
    <3>3. g[n] \subseteq Infos BY <1>1, <2>3
    <3> QED BY <3>2, <3>3 DEF Nexts, ThreadListTypeOK, ThreadInfo, Pointer
  <2>4. \A n \in Nat : n \in T => n + 1 \in T BY <2>3
  <2>5. Nat \subseteq T
    <3> HIDE DEF T
    <3> QED BY <2>2, <2>4, AllNumbers
  <2>6. \A n \in 0 .. N : g[n] \in SUBSET Infos
    <3>1. \A n \in 0 .. N : n \in Nat /\ n <= N BY <1>1
    <3> QED BY <2>5, <3>1
  <2> QED BY <2>1, <2>6 DEF ReachTo
<1>5. Path(i) = (CHOOSE g : Loop(g))[N] BY DEF Path
<1>6. Loop(CHOOSE g : Loop(g))
  <2> HIDE DEF Loop
  <2> QED BY <1>3
<1>7. PICK g : g = (CHOOSE h : Loop(h)) OBVIOUS
<1>8. ReachTo(N, g, i) /\ Path(i) = g[N]
  <2> HIDE DEF Loop
  <2> QED BY <1>4, <1>5, <1>6, <1>7
<1> QED BY <1>8, ReachEnds
---------------------------------------------------------------------------
(* The lists. *)

\* The first thread of a task lives and has nobody before it.
FirstsLive == \A k \in Tasks : /\ mem[threads[k]].used /\ mem[threads[k]].task = k
                               /\ mem[threads[k]].last = NULL

\* From a thread next leads to threads of its task.
NextsLive == \A i \in Infos : mem[i].used /\ mem[i].next # NULL =>
    mem[mem[i].next].used /\ mem[mem[i].next].task = mem[i].task

\* From the first thread next leads to all of the task.
AllReached == \A k \in Tasks : \A S \in SUBSET Infos :
    threads[k] \in S /\ Closed(S) => Living(k) \subseteq S

\* The stacks given out lie above the next one.
StacksBelow == \A i \in Infos : mem[i].used => mem[i].stack < stacks[mem[i].task]

ListInv == /\ ThreadListTypeOK /\ FirstsLive /\ NextsLive /\ DoublyLinked /\ AllReached
           /\ StacksBelow /\ StacksApart

\* The search from the first thread finds the threads of the task.
LEMMA PathIsLiving ==
    ASSUME ListInv, NEW k \in Tasks
    PROVE  Path(threads[k]) = Living(k)
<1>1. threads[k] \in Infos /\ ThreadListTypeOK BY DEF ListInv, ThreadListTypeOK
<1>2. Living(k) \subseteq Path(threads[k])
  BY <1>1, PathIs DEF ListInv, AllReached
<1>3. threads[k] \in Living(k) BY <1>1 DEF ListInv, FirstsLive, Living
<1>4. Closed(Living(k))
  BY DEF Closed, Living, ListInv, NextsLive, ThreadListTypeOK, ThreadInfo, Pointer
<1>5. Path(threads[k]) \subseteq Living(k) BY <1>1, <1>3, <1>4, PathIs
<1> QED BY <1>2, <1>5

\* All but the first have a living thread before them.
LEMMA LastLives ==
    ASSUME ListInv, NEW i \in Infos, mem[i].used, i # threads[mem[i].task]
    PROVE  /\ mem[i].last \in Infos /\ mem[mem[i].last].used
           /\ mem[mem[i].last].task = mem[i].task /\ mem[mem[i].last].next = i
           /\ mem[i].last # i
<1> DEFINE k == mem[i].task
           S == Living(k) \ {i}
<1>1. /\ k \in Tasks /\ mem \in [Infos -> ThreadInfo] /\ threads[k] \in Infos
      /\ FirstsLive /\ NextsLive /\ DoublyLinked /\ AllReached
  BY DEF ListInv, ThreadListTypeOK, ThreadInfo
<1>2. threads[k] \in S BY <1>1 DEF FirstsLive, Living
<1>3. i \in Living(k) /\ S \in SUBSET Infos /\ i \notin S BY DEF Living
<1>4. ~ Closed(S) BY <1>1, <1>2, <1>3 DEF AllReached
<1>5. PICK p \in S : mem[p].next # NULL /\ mem[p].next \notin S BY <1>4 DEF Closed
<1>6. p \in Infos /\ mem[p].used /\ mem[p].task = k BY <1>5 DEF Living
<1>7. mem[p].next \in Infos BY <1>1, <1>5, <1>6 DEF ThreadInfo, Pointer
<1>8. mem[p].next \in Living(k) BY <1>1, <1>5, <1>6, <1>7 DEF NextsLive, Living
<1>9. mem[p].next = i BY <1>5, <1>8
<1>10. mem[i].last = p /\ mem[p].next # p BY <1>1, <1>5, <1>6, <1>9 DEF DoublyLinked
<1> QED BY <1>6, <1>9, <1>10

LEMMA ListInitInv == ListInit => ListInv
<1> SUFFICES ASSUME ListInit PROVE ListInv OBVIOUS
<1>1. /\ FirstThread \in [Tasks -> Infos]
      /\ \A j, k \in Tasks : FirstThread[j] = FirstThread[k] => j = k
      /\ threads = FirstThread /\ stacks = [k \in Tasks |-> 1]
  BY DEF Injection, IsInjective, ListInit
<1>2. \A i \in Infos : i \in Range(FirstThread) <=> \E k \in Tasks : FirstThread[k] = i
  BY <1>1 DEF Range
<1> DEFINE TaskOf(i) == CHOOSE k \in Tasks : FirstThread[k] = i \/ i \notin Range(FirstThread)
<1>3. ASSUME NEW i \in Infos
      PROVE  TaskOf(i) \in Tasks /\ (i \in Range(FirstThread) => FirstThread[TaskOf(i)] = i)
  <2>1. \E k \in Tasks : FirstThread[k] = i \/ i \notin Range(FirstThread) BY <1>2
  <2> QED BY <2>1
<1>4. /\ mem = [i \in Infos |-> mem[i]]
      /\ \A i \in Infos : /\ mem[i] = [next |-> mem[i].next, last |-> mem[i].last,
                                       stack |-> mem[i].stack, used |-> mem[i].used,
                                       task |-> mem[i].task]
                          /\ mem[i].next = NULL /\ mem[i].last = NULL /\ mem[i].stack = 0
                          /\ mem[i].task = TaskOf(i)
                          /\ mem[i].used = (i \in Range(FirstThread))
  BY DEF ListInit
<1> HIDE DEF TaskOf
<1>5. ThreadListTypeOK
  <2>1. ASSUME NEW i \in Infos PROVE mem[i] \in ThreadInfo
    <3>1. /\ mem[i].next \in Pointer /\ mem[i].last \in Pointer /\ mem[i].task \in Tasks
          /\ mem[i].stack \in Nat
      BY <1>3, <1>4 DEF Pointer
    <3>2. mem[i].used \in BOOLEAN
      <4>1. mem[i].used = (i \in Range(FirstThread)) BY <1>4
      <4>2. CASE i \in Range(FirstThread)
        <5>1. mem[i].used = TRUE BY <4>1, <4>2, Zenon
        <5> QED BY <5>1
      <4>3. CASE i \notin Range(FirstThread)
        <5>1. (i \in Range(FirstThread)) = FALSE BY <4>3
        <5>2. mem[i].used = FALSE BY <4>1, <5>1, Zenon
        <5> QED BY <5>2
      <4> QED BY <4>2, <4>3
    <3>3. mem[i] = [next |-> mem[i].next, last |-> mem[i].last, stack |-> mem[i].stack,
                    used |-> mem[i].used, task |-> mem[i].task]
      BY <1>4
    <3> QED BY <3>1, <3>2, <3>3 DEF ThreadInfo
  <2>2. mem \in [Infos -> ThreadInfo] BY <1>4, <2>1
  <2> QED BY <1>1, <2>2 DEF ThreadListTypeOK
<1>6. ASSUME NEW i \in Infos, mem[i].used
      PROVE  i = FirstThread[mem[i].task] /\ mem[i].task \in Tasks
  <2>1. i \in Range(FirstThread) BY <1>4, <1>6
  <2> QED BY <1>3, <1>4, <2>1
<1>7. FirstsLive
  <2> SUFFICES ASSUME NEW k \in Tasks
               PROVE  /\ mem[threads[k]].used /\ mem[threads[k]].task = k
                      /\ mem[threads[k]].last = NULL
    BY DEF FirstsLive
  <2>1. FirstThread[k] \in Infos /\ FirstThread[k] \in Range(FirstThread) BY <1>1, <1>2
  <2>2. mem[FirstThread[k]].used /\ mem[FirstThread[k]].last = NULL BY <1>4, <2>1
  <2>3. mem[FirstThread[k]].task = k BY <1>1, <1>6, <2>1, <2>2
  <2> QED BY <1>1, <2>2, <2>3
<1>9. NextsLive /\ DoublyLinked BY <1>4 DEF NextsLive, DoublyLinked
<1>10. AllReached
  <2> SUFFICES ASSUME NEW k \in Tasks, NEW S \in SUBSET Infos, threads[k] \in S
               PROVE  Living(k) \subseteq S
    BY DEF AllReached
  <2> QED BY <1>1, <1>6 DEF Living
<1>11. StacksBelow BY <1>1, <1>4, <1>6 DEF StacksBelow
<1>12. StacksApart
  <2> SUFFICES ASSUME NEW i \in Infos, NEW j \in Infos, mem[i].used, mem[j].used,
                      mem[i].task = mem[j].task
               PROVE  i = j
    BY DEF StacksApart
  <2> QED BY <1>6
<1> QED BY <1>5, <1>7, <1>9, <1>10, <1>11, <1>12 DEF ListInv

\* __create_thread__: the new thread is behind the last of its task.
LEMMA CreateKeeps ==
    ASSUME ListInv, NEW task \in Tasks, CreateThread(task)
    PROVE  ListInv'
<1>1. /\ mem \in [Infos -> ThreadInfo] /\ threads \in [Tasks -> Infos]
      /\ stacks \in [Tasks -> 1 .. MaxStacks]
      /\ FirstsLive /\ NextsLive /\ DoublyLinked /\ AllReached /\ StacksBelow /\ StacksApart
      /\ threads' = threads /\ stacks' = [stacks EXCEPT ![task] = @ + 1]
      /\ stacks[task] < MaxStacks
  BY DEF ListInv, ThreadListTypeOK, CreateThread, NextStack
<1>2. PICK new \in FreePlaces, parent \in Infos :
        /\ IF new \in Path(threads[task]) THEN parent = new ELSE LastOf(task, parent)
        /\ mem' = Appended(parent, new, task)
  BY DEF CreateThread
<1>3. new \in Infos /\ ~ mem[new].used BY <1>2 DEF FreePlaces
<1>4. Path(threads[task]) = Living(task) BY PathIsLiving
<1>5. parent \in Living(task) /\ mem[parent].next = NULL
  BY <1>2, <1>3, <1>4 DEF Living, LastOf
<1>6. mem[parent].used /\ mem[parent].task = task /\ parent # new BY <1>3, <1>5 DEF Living
<1>7. /\ mem' \in [Infos -> ThreadInfo]
      /\ mem'[new] = [next |-> NULL, last |-> parent, task |-> task, stack |-> stacks[task],
                      used |-> TRUE]
      /\ mem'[parent] = [mem[parent] EXCEPT !.next = new]
      /\ \A i \in Infos : i # new /\ i # parent => mem'[i] = mem[i]
  <2>1. mem' = [[mem EXCEPT ![new] = NewInfo(task)] EXCEPT ![parent].next = new,
                                                          ![new].last = parent]
    BY <1>2 DEF Appended
  <2>2. stacks[task] \in Nat BY <1>1
  <2>3. NewInfo(task) \in ThreadInfo BY <2>2 DEF NewInfo, ThreadInfo, Pointer
  <2>4. parent \in Pointer /\ new \in Pointer BY <1>3 DEF Pointer
  <2>5. mem'[new] = [NewInfo(task) EXCEPT !.last = parent] BY <1>1, <1>3, <1>6, <2>1
  <2>6. mem'[parent] = [mem[parent] EXCEPT !.next = new] BY <1>1, <1>3, <1>6, <2>1
  <2>7. \A i \in Infos : i # new /\ i # parent => mem'[i] = mem[i] BY <1>1, <2>1
  <2>8. mem' \in [Infos -> ThreadInfo]
    <3>1. mem'[new] \in ThreadInfo BY <2>3, <2>4, <2>5 DEF ThreadInfo
    <3>2. mem'[parent] \in ThreadInfo
      <4>1. mem[parent] \in ThreadInfo BY <1>1
      <4> QED BY <2>4, <2>6, <4>1 DEF ThreadInfo
    <3>3. \A i \in Infos : mem'[i] \in ThreadInfo BY <1>1, <2>7, <3>1, <3>2
    <3>4. DOMAIN mem' = Infos /\ mem' = [i \in Infos |-> mem'[i]] BY <1>1, <2>1
    <3> QED BY <3>3, <3>4
  <2> QED BY <2>5, <2>6, <2>7, <2>8 DEF NewInfo
\* What is in each place, field by field.
<1>8. /\ \A i \in Infos : mem'[i].used <=> mem[i].used \/ i = new
      /\ \A i \in Infos : i # new => /\ mem'[i].task = mem[i].task
                                     /\ mem'[i].stack = mem[i].stack
                                     /\ mem'[i].last = mem[i].last
      /\ \A i \in Infos : i # new /\ i # parent => mem'[i].next = mem[i].next
      /\ mem'[parent].next = new
      /\ mem'[new].next = NULL /\ mem'[new].last = parent /\ mem'[new].task = task
      /\ mem'[new].stack = stacks[task]
  <2>1. mem[parent] \in ThreadInfo BY <1>1
  <2>2. /\ mem'[parent].used = mem[parent].used /\ mem'[parent].task = mem[parent].task
        /\ mem'[parent].stack = mem[parent].stack /\ mem'[parent].last = mem[parent].last
        /\ mem'[parent].next = new
    BY <1>7, <2>1 DEF ThreadInfo
  <2>3. ASSUME NEW i \in Infos PROVE mem'[i].used <=> mem[i].used \/ i = new
    <3>1. mem'[new].used BY <1>7
    <3>2. CASE i = new BY <3>1, <3>2
    <3>3. CASE i = parent BY <1>6, <2>2, <3>3
    <3>4. CASE i # new /\ i # parent BY <1>7, <3>4
    <3> QED BY <3>2, <3>3, <3>4
  <2>4. ASSUME NEW i \in Infos, i # new
        PROVE  /\ mem'[i].task = mem[i].task /\ mem'[i].stack = mem[i].stack
               /\ mem'[i].last = mem[i].last
    BY <1>7, <2>2, <2>4
  <2>5. \A i \in Infos : i # new /\ i # parent => mem'[i].next = mem[i].next BY <1>7
  <2>6. /\ mem'[new].next = NULL /\ mem'[new].last = parent /\ mem'[new].task = task
        /\ mem'[new].stack = stacks[task]
    BY <1>7
  <2> QED BY <2>2, <2>3, <2>4, <2>5, <2>6
<1>9. Living(task) \subseteq Infos /\ threads[task] \in Infos /\ new # threads[task]
  BY <1>1, <1>3 DEF Living, FirstsLive
<1>10. ThreadListTypeOK'
  <2>1. stacks[task] + 1 \in 1 .. MaxStacks BY <1>1
  <2>2. stacks' \in [Tasks -> 1 .. MaxStacks] BY <1>1, <2>1
  <2> QED BY <1>1, <1>7, <2>2 DEF ThreadListTypeOK
<1>11. FirstsLive'
  <2> SUFFICES ASSUME NEW k \in Tasks
               PROVE  /\ mem'[threads[k]].used /\ mem'[threads[k]].task = k
                      /\ mem'[threads[k]].last = NULL
    BY <1>1 DEF FirstsLive
  <2>1. /\ mem[threads[k]].used /\ mem[threads[k]].task = k
        /\ mem[threads[k]].last = NULL /\ threads[k] \in Infos /\ threads[k] # new
    BY <1>1, <1>3 DEF FirstsLive
  <2> QED BY <1>8, <2>1
\* Nobody alive is linked to the place of the new thread.
<1>12. ASSUME NEW i \in Infos, mem[i].used
       PROVE  mem[i].next # new /\ (mem[i].last # new \/ i = threads[mem[i].task])
  <2>1. mem[i].next # new BY <1>1, <1>3, <1>12 DEF NextsLive
  <2>2. CASE i # threads[mem[i].task]
    <3>1. mem[mem[i].last].used BY <1>12, <2>2, LastLives
    <3> QED BY <1>3, <2>1, <3>1
  <2> QED BY <2>1, <2>2
<1>13. ASSUME NEW i \in Infos, mem[i].used PROVE mem[i].last # new
  <2>1. mem[i].task \in Tasks BY <1>1 DEF ThreadInfo
  <2>2. CASE i = threads[mem[i].task] BY <1>1, <1>3, <2>1, <2>2 DEF FirstsLive
  <2> QED BY <1>12, <1>13, <2>2
<1>14. NextsLive'
  <2> SUFFICES ASSUME NEW i \in Infos, mem'[i].used, mem'[i].next # NULL
               PROVE  mem'[mem'[i].next].used /\ mem'[mem'[i].next].task = mem'[i].task
    BY DEF NextsLive
  <2>1. CASE i = parent BY <1>3, <1>6, <1>8, <2>1
  <2>2. CASE i # parent
    <3>1. i # new BY <1>8
    <3>2. mem[i].used /\ mem'[i].next = mem[i].next /\ mem'[i].task = mem[i].task
      BY <1>8, <2>2, <3>1
    <3>3. mem[mem[i].next].used /\ mem[mem[i].next].task = mem[i].task BY <1>1, <3>2 DEF NextsLive
    <3>4. mem[i].next \in Infos BY <1>1, <3>2 DEF ThreadInfo, Pointer
    <3>5. mem[i].next # new BY <1>12, <3>2
    <3> QED BY <1>8, <3>2, <3>3, <3>4, <3>5
  <2> QED BY <2>1, <2>2
<1>15. DoublyLinked'
  <2> SUFFICES ASSUME NEW i \in Infos, mem'[i].used
               PROVE  /\ mem'[i].next # NULL => mem'[i].next # i /\ mem'[mem'[i].next].last = i
                      /\ mem'[i].last # NULL => mem'[mem'[i].last].next = i
    BY DEF DoublyLinked
  <2>1. CASE i = new BY <1>8, <2>1
  <2>2. CASE i # new
    <3>1. mem[i].used /\ mem'[i].last = mem[i].last BY <1>8, <2>2
    <3>2. /\ mem[i].next # NULL => mem[i].next # i /\ mem[mem[i].next].last = i
          /\ mem[i].last # NULL => mem[mem[i].last].next = i
      BY <1>1, <3>1 DEF DoublyLinked
    <3>3. mem[i].next \in Pointer /\ mem[i].last \in Pointer BY <1>1 DEF ThreadInfo
    <3>4. mem[i].next # new /\ mem[i].last # new BY <1>12, <1>13, <3>1
    <3>5. ASSUME mem'[i].next # NULL PROVE mem'[i].next # i /\ mem'[mem'[i].next].last = i
      <4>1. CASE i = parent BY <1>6, <1>8, <4>1
      <4>2. CASE i # parent
        <5>1. mem'[i].next = mem[i].next BY <1>8, <2>2, <4>2
        <5>2. mem[i].next \in Infos BY <3>3, <3>5, <5>1 DEF Pointer
        <5> QED BY <1>8, <3>2, <3>4, <3>5, <5>1, <5>2
      <4> QED BY <4>1, <4>2
    <3>6. ASSUME mem[i].last # NULL PROVE mem'[mem[i].last].next = i
      <4>1. mem[i].last \in Infos /\ mem[mem[i].last].next = i BY <3>2, <3>3, <3>6 DEF Pointer
      <4>2. i \in Infos /\ i # NULL OBVIOUS
      <4>3. mem[i].last # parent BY <1>5, <4>1, <4>2
      <4> QED BY <1>8, <3>4, <4>1, <4>3
    <3> QED BY <3>1, <3>5, <3>6
  <2> QED BY <2>1, <2>2
<1>16. AllReached'
  <2> SUFFICES ASSUME NEW k \in Tasks, NEW S \in SUBSET Infos, threads[k] \in S, Closed(S)',
                      NEW i \in Infos, mem'[i].used, mem'[i].task = k
               PROVE  i \in S
    BY <1>1 DEF AllReached, Living
  <2> DEFINE T == S \cap Living(k)
  <2>1. threads[k] \in T /\ T \in SUBSET Infos BY <1>1 DEF FirstsLive, Living
  <2>2. Closed(T)
    <3> SUFFICES ASSUME NEW p \in T, mem[p].next # NULL PROVE mem[p].next \in T
      BY DEF Closed
    <3>1. p \in S /\ p \in Infos /\ mem[p].used /\ mem[p].task = k BY DEF Living
    <3>2. p # new /\ p # parent BY <1>3, <1>5, <3>1
    <3>3. mem'[p].next = mem[p].next BY <1>8, <3>1, <3>2
    <3>4. mem[p].next \in S BY <3>1, <3>3 DEF Closed
    <3>5. mem[mem[p].next].used /\ mem[mem[p].next].task = k BY <1>1, <3>1 DEF NextsLive
    <3> QED BY <3>4, <3>5 DEF Living
  <2>3. Living(k) \subseteq T BY <1>1, <2>1, <2>2 DEF AllReached
  <2>4. CASE i # new
    <3>1. i \in Living(k) BY <1>8, <2>4 DEF Living
    <3> QED BY <2>3, <3>1
  <2>5. CASE i = new
    <3>1. k = task BY <1>8, <2>5
    <3>2. parent \in S BY <1>5, <2>3, <3>1
    <3>3. mem'[parent].next = new /\ new # NULL BY <1>3, <1>8
    <3> QED BY <2>5, <3>2, <3>3 DEF Closed
  <2> QED BY <2>4, <2>5
<1>17. StacksBelow' /\ StacksApart'
  <2>1. ASSUME NEW i \in Infos, i # new, mem'[i].used
        PROVE  /\ mem[i].used /\ mem'[i].task = mem[i].task /\ mem'[i].stack = mem[i].stack
               /\ mem[i].task \in Tasks /\ mem[i].stack \in Nat
               /\ mem[i].stack < stacks[mem[i].task]
    <3>1. mem[i].used BY <1>8, <2>1
    <3>2. mem[i].task \in Tasks /\ mem[i].stack \in Nat BY <1>1 DEF ThreadInfo
    <3> QED BY <1>1, <1>8, <2>1, <3>1, <3>2 DEF StacksBelow
  <2>2. /\ \A k \in Tasks : stacks[k] \in Nat
        /\ stacks'[task] = stacks[task] + 1
        /\ \A k \in Tasks : k # task => stacks'[k] = stacks[k]
    BY <1>1
  <2>3. StacksBelow'
    <3> SUFFICES ASSUME NEW i \in Infos, mem'[i].used
                 PROVE  mem'[i].stack < stacks'[mem'[i].task]
      BY DEF StacksBelow
    <3>1. CASE i = new BY <1>8, <2>2, <3>1
    <3>2. CASE i # new /\ mem[i].task = task
      <4>1. mem[i].stack \in Nat /\ mem[i].stack < stacks[task] BY <2>1, <3>2
      <4>2. mem'[i].stack = mem[i].stack /\ mem'[i].task = task BY <2>1, <3>2
      <4> QED BY <2>2, <4>1, <4>2
    <3>3. CASE i # new /\ mem[i].task # task BY <2>1, <2>2, <3>3
    <3> QED BY <3>1, <3>2, <3>3
  <2>4. StacksApart'
    <3> SUFFICES ASSUME NEW i \in Infos, NEW j \in Infos, i # j, mem'[i].used, mem'[j].used,
                        mem'[i].task = mem'[j].task
                 PROVE  mem'[i].stack # mem'[j].stack
      BY DEF StacksApart
    <3>1. CASE i # new /\ j # new BY <1>1, <2>1, <3>1 DEF StacksApart
    <3>2. CASE i = new BY <1>8, <2>1, <2>2, <3>2
    <3>3. CASE j = new BY <1>8, <2>1, <2>2, <3>3
    <3> QED BY <3>1, <3>2, <3>3
  <2> QED BY <2>3, <2>4
<1> QED BY <1>10, <1>11, <1>14, <1>15, <1>16, <1>17 DEF ListInv

\* remove_thread: the neighbours of the thread are linked to each other.
LEMMA RemoveKeeps ==
    ASSUME ListInv, FirstDies = FALSE, NEW t \in Infos, RemoveThread(t)
    PROVE  ListInv'
<1> DEFINE l == mem[t].last
           n == mem[t].next
           k0 == mem[t].task
<1>1. /\ mem \in [Infos -> ThreadInfo] /\ threads \in [Tasks -> Infos]
      /\ stacks \in [Tasks -> 1 .. MaxStacks]
      /\ FirstsLive /\ NextsLive /\ DoublyLinked /\ AllReached /\ StacksBelow /\ StacksApart
      /\ threads' = threads /\ stacks' = stacks
      /\ mem[t].used /\ t # threads[mem[t].task]
      /\ mem' = [Unlinked(t) EXCEPT ![t].used = FALSE]
  BY DEF ListInv, ThreadListTypeOK, RemoveThread
<1>2. /\ l \in Infos /\ mem[l].used /\ mem[l].task = k0 /\ mem[l].next = t /\ l # t
      /\ k0 \in Tasks
  BY <1>1, LastLives DEF ThreadInfo
\* The thread behind it, if any, is alive, and is not the one before it.
<1>3. n # NULL => /\ n \in Infos /\ mem[n].used /\ mem[n].task = k0 /\ mem[n].last = t /\ n # t
  BY <1>1 DEF NextsLive, DoublyLinked, ThreadInfo, Pointer
<1>4. ASSUME NEW i \in Infos
      PROVE  /\ mem'[i].used = (mem[i].used /\ i # t)
             /\ mem'[i].task = mem[i].task /\ mem'[i].stack = mem[i].stack
             /\ mem'[i].next = IF i = l THEN n ELSE mem[i].next
             /\ mem'[i].last = IF i = n THEN l ELSE mem[i].last
  <2>1. mem[i] \in ThreadInfo BY <1>1
  <2>2. /\ Unlinked(t)[i] = [mem[i] EXCEPT !.next = IF i = l THEN n ELSE @,
                                           !.last = IF i = n THEN l ELSE @]
        /\ DOMAIN Unlinked(t) = Infos
    BY DEF Unlinked
  <2>3. CASE i # t
    <3>1. mem'[i] = Unlinked(t)[i] BY <1>1, <2>2, <2>3
    <3> QED BY <2>1, <2>2, <2>3, <3>1 DEF ThreadInfo
  <2>4. CASE i = t
    <3>1. mem'[i] = [Unlinked(t)[i] EXCEPT !.used = FALSE] BY <1>1, <2>2, <2>4
    <3> QED BY ZenonT(30), <2>1, <2>2, <2>4, <3>1 DEF ThreadInfo
  <2> QED BY <2>3, <2>4
<1>5. mem' \in [Infos -> ThreadInfo]
  <2>1. DOMAIN mem' = Infos /\ mem' = [i \in Infos |-> mem'[i]] BY <1>1 DEF Unlinked
  <2>2. ASSUME NEW i \in Infos PROVE mem'[i] \in ThreadInfo
    <3>1. mem[i] \in ThreadInfo /\ l \in Pointer /\ n \in Pointer BY <1>1, <1>2 DEF ThreadInfo, Pointer
    <3>2. Unlinked(t)[i] \in ThreadInfo BY <3>1 DEF Unlinked, ThreadInfo
    <3>3. CASE i # t BY <1>1, <3>2, <3>3 DEF Unlinked
    <3>4. CASE i = t
      <4>1. mem'[i] = [Unlinked(t)[i] EXCEPT !.used = FALSE] BY <1>1, <3>4 DEF Unlinked
      <4> QED BY <3>2, <4>1 DEF ThreadInfo
    <3> QED BY <3>3, <3>4
  <2> QED BY <2>1, <2>2
<1> HIDE DEF l, n, k0
\* The two are not neighbours on both sides: nobody would lead to them.
<1>6. n # l
  <2> SUFFICES ASSUME n = l PROVE FALSE OBVIOUS
  <2>1. /\ n \in Infos /\ mem[n].last = t /\ mem[n].next = t /\ mem[n].used /\ mem[n].task = k0
    BY <1>2, <1>3
  <2> DEFINE S == Living(k0) \ {t, n}
  <2>2. threads[k0] # n BY <1>1, <1>2, <2>1 DEF FirstsLive
  <2>3. threads[k0] \in S BY <1>1, <1>2, <2>2 DEF FirstsLive, Living, k0
  <2>4. ASSUME NEW p \in S, mem[p].next # NULL PROVE mem[p].next \in S
    <3>1. p \in Infos /\ mem[p].used /\ mem[p].task = k0 /\ p # t /\ p # n BY DEF Living
    <3>2. mem[p].next \in Infos BY <1>1, <2>4, <3>1 DEF ThreadInfo, Pointer
    <3>3. mem[mem[p].next].used /\ mem[mem[p].next].task = k0 /\ mem[mem[p].next].last = p
      BY <1>1, <2>4, <3>1 DEF NextsLive, DoublyLinked
    <3>4. mem[p].next # n /\ mem[p].next # t BY <2>1, <3>1, <3>3 DEF l
    <3> QED BY <3>2, <3>3, <3>4 DEF Living
  <2>5. Closed(S) BY <2>4 DEF Closed
  <2>6. Living(k0) \subseteq S
    <3>1. S \in SUBSET Infos BY DEF Living
    <3> HIDE DEF S
    <3> QED BY <1>1, <1>2, <2>3, <2>5, <3>1 DEF AllReached
  <2>7. t \in Living(k0) BY <1>1 DEF Living, k0
  <2> QED BY <2>6, <2>7
<1>7. ThreadListTypeOK' BY <1>1, <1>5 DEF ThreadListTypeOK
<1>8. FirstsLive'
  <2> SUFFICES ASSUME NEW k \in Tasks
               PROVE  /\ mem'[threads[k]].used /\ mem'[threads[k]].task = k
                      /\ mem'[threads[k]].last = NULL
    BY <1>1 DEF FirstsLive
  <2>1. /\ mem[threads[k]].used /\ mem[threads[k]].task = k
        /\ mem[threads[k]].last = NULL /\ threads[k] \in Infos
    BY <1>1 DEF FirstsLive
  <2>2. threads[k] # t BY <1>1, <2>1
  <2>3. threads[k] # n
    <3>1. CASE n = NULL BY <2>1, <3>1
    <3>2. CASE n # NULL BY <1>3, <2>1, <3>2
    <3> QED BY <3>1, <3>2
  <2> QED BY <1>4, <2>1, <2>2, <2>3
\* Only the neighbours were linked to it.
<1>9. ASSUME NEW i \in Infos, mem[i].used, i # t
      PROVE  /\ mem[i].next = t => i = l
             /\ mem[i].last = t => i = n
             /\ i # l => mem[i].next # n \/ n = NULL
             /\ i # n => mem[i].last # l
  <2>1. /\ mem[i].next # NULL => mem[mem[i].next].last = i
        /\ mem[i].last # NULL => mem[mem[i].last].next = i
    BY <1>1, <1>9 DEF DoublyLinked
  <2>2. t # NULL /\ l # NULL BY <1>2
  <2>3. mem[t].last = l /\ mem[t].next = n BY DEF l, n
  <2>4. ASSUME mem[i].next = n, n # NULL PROVE FALSE BY <1>3, <1>9, <2>1, <2>4
  <2>5. mem[i].last = l => i = t BY <1>2, <2>1, <2>2
  <2> QED BY <1>9, <2>1, <2>2, <2>3, <2>4, <2>5
<1>10. NextsLive'
  <2> SUFFICES ASSUME NEW i \in Infos, mem'[i].used, mem'[i].next # NULL
               PROVE  mem'[mem'[i].next].used /\ mem'[mem'[i].next].task = mem'[i].task
    BY DEF NextsLive
  <2>1. mem[i].used /\ i # t BY <1>4
  <2>2. CASE i = l
    <3>1. mem'[i].next = n /\ n # NULL BY <1>4, <2>2
    <3> QED BY <1>2, <1>3, <1>4, <2>2, <3>1
  <2>3. CASE i # l
    <3>1. mem'[i].next = mem[i].next /\ mem'[i].task = mem[i].task BY <1>4, <2>3
    <3>2. mem[i].next \in Infos BY <1>1, <3>1 DEF ThreadInfo, Pointer
    <3>3. mem[mem[i].next].used /\ mem[mem[i].next].task = mem[i].task
      BY <1>1, <2>1, <3>1 DEF NextsLive
    <3>4. mem[i].next # t BY <1>9, <2>1, <2>3
    <3> QED BY <1>4, <3>1, <3>2, <3>3, <3>4
  <2> QED BY <2>2, <2>3
<1>11. DoublyLinked'
  <2> SUFFICES ASSUME NEW i \in Infos, mem'[i].used
               PROVE  /\ mem'[i].next # NULL => mem'[i].next # i /\ mem'[mem'[i].next].last = i
                      /\ mem'[i].last # NULL => mem'[mem'[i].last].next = i
    BY DEF DoublyLinked
  <2>1. mem[i].used /\ i # t BY <1>4
  <2>2. /\ mem[i].next # NULL => mem[i].next # i /\ mem[mem[i].next].last = i
        /\ mem[i].last # NULL => mem[mem[i].last].next = i
    BY <1>1, <2>1 DEF DoublyLinked
  <2>3. mem[i].next \in Pointer /\ mem[i].last \in Pointer BY <1>1 DEF ThreadInfo
  <2>4. ASSUME mem'[i].next # NULL PROVE mem'[i].next # i /\ mem'[mem'[i].next].last = i
    <3>1. CASE i = l
      <4>1. mem'[i].next = n /\ n # NULL BY <1>4, <2>4, <3>1
      <4>2. mem'[n].last = l BY <1>3, <1>4, <4>1
      <4> QED BY <1>6, <3>1, <4>1, <4>2
    <3>2. CASE i # l
      <4>1. mem'[i].next = mem[i].next BY <1>4, <3>2
      <4>2. mem[i].next \in Infos /\ mem[i].next # NULL BY <2>3, <2>4, <4>1 DEF Pointer
      <4>3. mem[i].next # n BY <1>9, <2>1, <3>2, <4>2
      <4>4. mem'[mem[i].next].last = mem[mem[i].next].last BY <1>4, <4>2, <4>3
      <4> QED BY <2>2, <4>1, <4>2, <4>4
    <3> QED BY <3>1, <3>2
  <2>5. ASSUME mem'[i].last # NULL PROVE mem'[mem'[i].last].next = i
    <3>1. CASE i = n
      <4>1. mem'[i].last = l /\ mem'[l].next = n BY <1>2, <1>4, <3>1
      <4> QED BY <3>1, <4>1
    <3>2. CASE i # n
      <4>1. mem'[i].last = mem[i].last BY <1>4, <3>2
      <4>2. mem[i].last \in Infos /\ mem[i].last # NULL BY <2>3, <2>5, <4>1 DEF Pointer
      <4>3. mem[i].last # l BY <1>9, <2>1, <3>2
      <4>4. mem'[mem[i].last].next = mem[mem[i].last].next BY <1>4, <4>2, <4>3
      <4> QED BY <2>2, <4>1, <4>2, <4>4
    <3> QED BY <3>1, <3>2
  <2> QED BY <2>4, <2>5
<1>12. AllReached'
  <2> SUFFICES ASSUME NEW k \in Tasks, NEW S \in SUBSET Infos, threads[k] \in S, Closed(S)',
                      NEW i \in Infos, mem[i].used, i # t, mem[i].task = k
               PROVE  i \in S
    <3>1. \A i \in Infos : /\ mem'[i].used <=> mem[i].used /\ i # t
                           /\ mem'[i].task = mem[i].task
      BY <1>4
    <3> QED BY <1>1, <3>1 DEF AllReached, Living
  <2> DEFINE B == {p \in S : mem[p].used /\ mem[p].task = k /\ p # t}
             T == B \cup (IF k = k0 /\ l \in B THEN {t} ELSE {})
  <2>1. threads[k] \in B
    <3>1. threads[k] \in Infos /\ mem[threads[k]].used /\ mem[threads[k]].task = k
      BY <1>1 DEF FirstsLive
    <3>2. threads[k] # t BY <1>1, <3>1
    <3> QED BY <3>1, <3>2
  <2>2. T \in SUBSET Infos OBVIOUS
  \* Where next leads before the removal, from whoever is in S.
  <2>3. ASSUME NEW p \in B, mem[p].next # NULL PROVE mem[p].next \in T
    <3>1. p \in Infos /\ mem[p].used /\ p # t /\ p \in S OBVIOUS
    <3>2. CASE p = l
      <4>1. k = k0 /\ mem[p].next = t BY <1>2, <3>2
      <4> QED BY <3>2, <4>1
    <3>3. CASE p # l
      <4>1. mem'[p].next = mem[p].next BY <1>4, <3>1, <3>3
      <4>2. mem[p].next \in S BY <2>3, <3>1, <4>1 DEF Closed
      <4>3. mem[mem[p].next].used /\ mem[mem[p].next].task = k
        BY <1>1, <2>3, <3>1 DEF NextsLive
      <4>4. mem[p].next # t BY <1>9, <3>1, <3>3
      <4> QED BY <4>2, <4>3, <4>4
    <3> QED BY <3>2, <3>3
  <2>4. ASSUME k = k0, l \in B, mem[t].next # NULL PROVE mem[t].next \in T
    <3>1. n # NULL /\ mem[t].next = n BY <2>4 DEF n
    <3>2. mem'[l].next = n /\ l \in S BY <1>2, <1>4, <2>4
    <3>3. n \in S BY <3>1, <3>2 DEF Closed
    <3>4. n \in B BY <1>3, <2>4, <3>1, <3>3
    <3> QED BY <3>1, <3>4
  <2>5. Closed(T)
    <3> SUFFICES ASSUME NEW p \in T, mem[p].next # NULL PROVE mem[p].next \in T BY DEF Closed
    <3>1. CASE p \in B BY <2>3, <3>1
    <3>2. CASE p \notin B
      <4>1. k = k0 /\ l \in B /\ p = t BY <3>2
      <4> QED BY <2>4, <4>1
    <3> QED BY <3>1, <3>2
  <2>6. threads[k] \in T BY <2>1
  <2>7. Living(k) \subseteq T
    <3> HIDE DEF T
    <3> QED BY <1>1, <2>2, <2>5, <2>6 DEF AllReached
  <2>8. i \in T BY <2>7 DEF Living
  <2> QED BY <2>8
<1>13. StacksBelow' BY <1>1, <1>4 DEF StacksBelow
<1>14. StacksApart'
  <2> SUFFICES ASSUME NEW i \in Infos, NEW j \in Infos, i # j, mem'[i].used, mem'[j].used,
                      mem'[i].task = mem'[j].task
               PROVE  mem'[i].stack # mem'[j].stack
    BY DEF StacksApart
  <2>1. mem[i].used /\ mem[j].used BY <1>4
  <2>2. mem[i].task = mem[j].task BY <1>4
  <2>3. mem[i].stack # mem[j].stack BY <1>1, <2>1, <2>2 DEF StacksApart
  <2>4. mem'[i].stack = mem[i].stack /\ mem'[j].stack = mem[j].stack BY <1>4
  <2> QED BY <2>3, <2>4
<1> QED BY <1>7, <1>8, <1>10, <1>11, <1>12, <1>13, <1>14 DEF ListInv
---------------------------------------------------------------------------
(* The theorems. *)

LEMMA ListInvariant ==
    ASSUME FirstDies = FALSE
    PROVE  ListSpec => []ListInv
<1>1. ListInv /\ [ListNext]_listVars => ListInv'
  <2> SUFFICES ASSUME ListInv, [ListNext]_listVars PROVE ListInv' OBVIOUS
  <2>1. ASSUME NEW task \in Tasks, CreateThread(task) PROVE ListInv' BY <2>1, CreateKeeps
  <2>2. ASSUME NEW t \in Infos, RemoveThread(t) PROVE ListInv' BY <2>2, RemoveKeeps
  <2>3. CASE UNCHANGED listVars
    BY <2>3 DEF listVars, ListInv, ThreadListTypeOK, FirstsLive, NextsLive, DoublyLinked,
                AllReached, Closed, Living, StacksBelow, StacksApart
  <2> QED BY <2>1, <2>2, <2>3 DEF ListNext
<1> QED BY <1>1, ListInitInv, PTL DEF ListSpec

\* As long as no task's first thread ends, the list of a task holds its threads,
\* linked both ways, and their stacks are apart, however many tasks and threads
\* there are and in whatever order they are created and end.
\* (__create_thread__, remove_thread)
THEOREM ThreadsKeptApartCorrect ==
    ASSUME FirstDies = FALSE
    PROVE  ListSpec => []ThreadsKeptApart
<1>1. ListInv => ThreadsKeptApart
  BY PathIsLiving DEF ListInv, ThreadsKeptApart, ListIsThreads
<1> QED BY <1>1, ListInvariant, PTL
---------------------------------------------------------------------------
(* The ring of bytes of a mailbox. *)

USE MailSizesAssumption

\* The place n bytes behind p in the ring.
Place(p, n) == IF p + n < MailSize THEN p + n ELSE p + n - MailSize
---------------------------------------------------------------------------
(* The loops over the bytes. *)

\* Going on byte by byte comes to this place.  (increase_ptr)
LEMMA AdvancedIsPlace ==
    ASSUME NEW p \in 0 .. MailSize - 1, NEW n \in 0 .. MailSize
    PROVE  Advanced(p, n) = Place(p, n)
<1> DEFINE Loop(f) == f = [k \in 0 .. n |-> IF k = 0 THEN p ELSE IncreasePtr(f[k - 1])]
           f0 == [k \in 0 .. n |-> Place(p, k)]
<1>1. Loop(f0)
  <2>1. ASSUME NEW k \in 0 .. n, k # 0 PROVE Place(p, k) = IncreasePtr(Place(p, k - 1))
    BY <2>1 DEF Place, IncreasePtr
  <2>2. Place(p, 0) = p BY DEF Place
  <2> QED BY <2>1, <2>2
<1>2. ASSUME NEW f, Loop(f) PROVE f[n] = Place(p, n)
  <2> DEFINE S == {k \in Nat : k \in 0 .. n => f[k] = Place(p, k)}
  <2>1. 0 \in S BY <1>2 DEF Place
  <2>2. ASSUME NEW k \in Nat, k \in S PROVE k + 1 \in S
    <3> SUFFICES ASSUME k + 1 \in 0 .. n PROVE f[k + 1] = Place(p, k + 1) OBVIOUS
    <3>1. f[k] = Place(p, k) BY <2>2
    <3>2. f[k + 1] = IncreasePtr(f[k]) BY <1>2
    <3> QED BY <3>1, <3>2 DEF Place, IncreasePtr
  <2>3. Nat \subseteq S
    <3> HIDE DEF S
    <3> QED BY <2>1, <2>2, AllNumbers
  <2> QED BY <2>3
<1>3. Advanced(p, n) = (CHOOSE f : Loop(f))[n] BY DEF Advanced
<1>4. Loop(CHOOSE f : Loop(f))
  <2> HIDE DEF Loop
  <2> QED BY <1>1
<1> QED BY <1>2, <1>3, <1>4
---------------------------------------------------------------------------
(* Where messages end that lie one behind the other. *)

IsEndsTo(n, e, q) == /\ e \in [0 .. n -> Nat]
                     /\ e[0] = 0
                     /\ \A i \in 1 .. n : e[i] = e[i - 1] + Footprint(q[i])

IsEnds(e, q) == IsEndsTo(Len(q), e, q)

\* A message takes a byte or more.
LEMMA FootprintIsLong ==
    ASSUME NEW m \in Messages
    PROVE  Footprint(m) \in Nat \ {0} /\ HeaderSize <= Footprint(m)
BY DEF Footprint

LEMMA EndsExist ==
    ASSUME NEW q \in Seq(Messages)
    PROVE  \E e : IsEnds(e, q)
<1> DEFINE S == {n \in Nat : n <= Len(q) => \E e : IsEndsTo(n, e, q)}
<1>1. 0 \in S
  <2>1. IsEndsTo(0, [i \in 0 .. 0 |-> 0], q) BY DEF IsEndsTo
  <2> QED BY <2>1
<1>2. ASSUME NEW n \in Nat, n \in S, n + 1 <= Len(q) PROVE \E e : IsEndsTo(n + 1, e, q)
  <2>1. Len(q) \in Nat /\ q[n + 1] \in Messages BY <1>2, LenProperties, ElementOfSeq
  <2>2. PICK e : IsEndsTo(n, e, q) BY <1>2, <2>1
  <2>3. Footprint(q[n + 1]) \in Nat BY <2>1, FootprintIsLong
  <2> DEFINE f == [i \in 0 .. n + 1 |-> IF i <= n THEN e[i] ELSE e[n] + Footprint(q[n + 1])]
  <2>4. f \in [0 .. n + 1 -> Nat] /\ f[0] = 0 BY <2>2, <2>3 DEF IsEndsTo
  <2>5. ASSUME NEW i \in 1 .. n + 1 PROVE f[i] = f[i - 1] + Footprint(q[i])
    <3>1. CASE i = n + 1 BY <3>1
    <3>2. CASE i \in 1 .. n BY <3>2, <2>2 DEF IsEndsTo
    <3> QED BY <3>1, <3>2
  <2>6. IsEndsTo(n + 1, f, q)
    <3> HIDE DEF f
    <3> QED BY <2>4, <2>5 DEF IsEndsTo
  <2> QED BY <2>6
<1>3. \A n \in Nat : n \in S => n + 1 \in S BY <1>2
<1>4. Nat \subseteq S
  <2> HIDE DEF S
  <2> QED BY <1>1, <1>3, AllNumbers
<1>5. Len(q) \in S BY <1>4, LenProperties
<1> QED BY <1>5, LenProperties DEF IsEnds

LEMMA EndsUnique ==
    ASSUME NEW q \in Seq(Messages), NEW e, IsEnds(e, q), NEW f, IsEnds(f, q)
    PROVE  e = f
<1> DEFINE S == {n \in Nat : n <= Len(q) => e[n] = f[n]}
<1>0. Len(q) \in Nat BY LenProperties
<1>1. 0 \in S BY DEF IsEnds, IsEndsTo
<1>2. ASSUME NEW n \in Nat, n \in S PROVE n + 1 \in S BY <1>2, <1>0 DEF IsEnds, IsEndsTo
<1>3. Nat \subseteq S
  <2> HIDE DEF S
  <2> QED BY <1>1, <1>2, AllNumbers
<1> QED BY <1>0, <1>3 DEF IsEnds, IsEndsTo

\* The loop of EndsOf comes to them.
LEMMA EndsAre ==
    ASSUME NEW q \in Seq(Messages)
    PROVE  IsEnds(EndsOf(q), q)
<1> DEFINE Loop(f) == f = [n \in 0 .. Len(q) |-> IF n = 0 THEN 0 ELSE f[n - 1] + Footprint(q[n])]
<1>0. Len(q) \in Nat BY LenProperties
<1>1. PICK e : IsEnds(e, q) BY EndsExist
<1>2. Loop(e) BY <1>0, <1>1 DEF IsEnds, IsEndsTo
<1>3. ASSUME NEW f, Loop(f) PROVE f = e
  <2> DEFINE S == {n \in Nat : n <= Len(q) => f[n] = e[n]}
  <2>1. 0 \in S BY <1>0, <1>1, <1>3 DEF IsEnds, IsEndsTo
  <2>2. ASSUME NEW n \in Nat, n \in S PROVE n + 1 \in S
    BY <1>0, <1>1, <1>3, <2>2 DEF IsEnds, IsEndsTo
  <2>3. Nat \subseteq S
    <3> HIDE DEF S
    <3> QED BY <2>1, <2>2, AllNumbers
  <2>4. DOMAIN f = 0 .. Len(q) /\ f = [n \in 0 .. Len(q) |-> f[n]] BY <1>3
  <2> QED BY <1>0, <1>1, <2>3, <2>4 DEF IsEnds, IsEndsTo
<1>4. EndsOf(q) = CHOOSE f : Loop(f) BY DEF EndsOf
<1>5. Loop(CHOOSE f : Loop(f))
  <2> HIDE DEF Loop
  <2> QED BY <1>2
<1> QED BY <1>1, <1>3, <1>4, <1>5

\* A message ends behind those before it, and not behind the last.
LEMMA EndsGrow ==
    ASSUME NEW q \in Seq(Messages), NEW e, IsEnds(e, q)
    PROVE  /\ \A i \in 0 .. Len(q) : e[i] \in Nat /\ i <= e[i] /\ e[i] <= e[Len(q)]
           /\ \A i \in 1 .. Len(q) : e[i - 1] < e[i]
<1> DEFINE L == Len(q)
           S == {n \in Nat : n <= L => n <= e[n]}
           T == {n \in Nat : n <= L => e[L - n] <= e[L]}
<1>1. /\ L \in Nat
      /\ \A i \in 1 .. L : Footprint(q[i]) \in Nat \ {0}
  BY LenProperties, ElementOfSeq, FootprintIsLong
<1>2. /\ \A i \in 0 .. L : e[i] \in Nat
      /\ e[0] = 0
      /\ \A i \in 1 .. L : e[i] = e[i - 1] + Footprint(q[i])
  BY DEF IsEnds, IsEndsTo
<1> HIDE DEF L
<1>3. \A i \in 1 .. L : e[i - 1] < e[i]
  <2> SUFFICES ASSUME NEW i \in 1 .. L PROVE e[i - 1] < e[i] OBVIOUS
  <2>1. i - 1 \in 0 .. L BY <1>1
  <2> QED BY <2>1, <1>1, <1>2
<1>4. 0 \in S BY <1>2
<1>5. ASSUME NEW n \in Nat, n \in S PROVE n + 1 \in S
  <2> SUFFICES ASSUME n + 1 <= L PROVE n + 1 <= e[n + 1] OBVIOUS
  <2>1. n + 1 \in 1 .. L /\ n + 1 \in 0 .. L /\ n \in 0 .. L BY <1>1
  <2>2. e[n] < e[n + 1]
    <3>1. (n + 1) - 1 = n OBVIOUS
    <3> QED BY <1>3, <2>1, <3>1
  <2>3. e[n] \in Nat /\ e[n + 1] \in Nat BY <1>2, <2>1
  <2>4. n <= e[n] BY <1>5, <2>1, <1>1
  <2> QED BY <2>2, <2>3, <2>4
<1>6. 0 \in T
  <2>1. L - 0 = L /\ e[L] \in Nat BY <1>1, <1>2
  <2> QED BY <2>1
<1>7. ASSUME NEW n \in Nat, n \in T PROVE n + 1 \in T
  <2> SUFFICES ASSUME n + 1 <= L PROVE e[L - (n + 1)] <= e[L] OBVIOUS
  <2>1. L - n \in 1 .. L /\ (L - n) - 1 = L - (n + 1) BY <1>1
  <2>2. e[L - (n + 1)] < e[L - n] BY <1>3, <2>1
  <2>3. e[L - n] <= e[L] BY <1>7, <1>1
  <2>4. /\ L - (n + 1) \in 0 .. L /\ L - n \in 0 .. L /\ L \in 0 .. L BY <1>1
  <2>5. e[L - (n + 1)] \in Nat /\ e[L - n] \in Nat /\ e[L] \in Nat BY <1>2, <2>4
  <2> QED BY <2>2, <2>3, <2>5
<1>8. Nat \subseteq S
  <2> HIDE DEF S
  <2> QED BY <1>4, <1>5, AllNumbers
<1>9. Nat \subseteq T
  <2> HIDE DEF T
  <2> QED BY <1>6, <1>7, AllNumbers
<1>10. ASSUME NEW i \in 0 .. L PROVE i <= e[i] /\ e[i] <= e[L]
  <2>1. i \in Nat /\ L - i \in Nat /\ i <= L /\ L - i <= L /\ L - (L - i) = i BY <1>1
  <2>2. i \in S /\ L - i \in T
    <3> HIDE DEF S, T
    <3> QED BY <2>1, <1>8, <1>9
  <2>3. i <= e[i] BY <2>1, <2>2
  <2>4. e[L - (L - i)] <= e[L] BY <2>1, <2>2
  <2> QED BY <2>1, <2>3, <2>4
<1> QED BY <1>2, <1>3, <1>10 DEF L

\* Their headers fit into it.
LEMMA HeadersFit ==
    ASSUME NEW q \in Seq(Messages)
    PROVE  Len(q) * HeaderSize <= UsedBy(q)
<1> DEFINE e == EndsOf(q)
           S == {n \in Nat : n <= Len(q) => n * HeaderSize <= e[n]}
<1>1. Len(q) \in Nat /\ IsEnds(e, q) BY LenProperties, EndsAre
<1>2. /\ e[0] = 0
      /\ \A i \in 0 .. Len(q) : e[i] \in Nat
      /\ \A i \in 1 .. Len(q) : e[i] = e[i - 1] + Footprint(q[i])
  BY <1>1 DEF IsEnds, IsEndsTo
<1> HIDE DEF e
<1>3. 0 \in S BY <1>2
<1>4. ASSUME NEW n \in Nat, n \in S, n + 1 <= Len(q) PROVE (n + 1) * HeaderSize <= e[n + 1]
  <2>1. n + 1 \in 1 .. Len(q) /\ (n + 1) - 1 = n /\ n \in 0 .. Len(q) BY <1>1, <1>4
  <2>2. e[n + 1] = e[n] + Footprint(q[n + 1]) /\ e[n] \in Nat BY <1>2, <2>1
  <2>3. Footprint(q[n + 1]) \in Nat /\ HeaderSize <= Footprint(q[n + 1])
    BY <2>1, ElementOfSeq, FootprintIsLong
  <2>4. n * HeaderSize <= e[n] BY <1>1, <1>4
  <2>5. n * HeaderSize \in Nat /\ (n + 1) * HeaderSize = n * HeaderSize + HeaderSize OBVIOUS
  <2> QED BY <2>2, <2>3, <2>4, <2>5
<1>5. ASSUME NEW n \in Nat, n \in S PROVE n + 1 \in S
  <2>1. CASE n + 1 <= Len(q) BY <1>4, <1>5, <2>1
  <2>2. CASE ~ (n + 1 <= Len(q)) BY <2>2
  <2> QED BY <2>1, <2>2
<1>6. Nat \subseteq S
  <2> HIDE DEF S
  <2> QED BY <1>3, <1>5, AllNumbers
<1>7. Len(q) \in S
  <2> HIDE DEF S
  <2> QED BY <1>1, <1>6
<1> QED BY <1>1, <1>7 DEF UsedBy, e

\* One message more: where the others end stays, and it ends behind them.
LEMMA EndsAppend ==
    ASSUME NEW q \in Seq(Messages), NEW m \in Messages
    PROVE  /\ \A i \in 0 .. Len(q) : EndsOf(Append(q, m))[i] = EndsOf(q)[i]
           /\ UsedBy(Append(q, m)) = UsedBy(q) + Footprint(m)
<1> DEFINE e == EndsOf(q)
           r == Append(q, m)
           g == [i \in 0 .. Len(q) + 1 |-> IF i <= Len(q) THEN e[i] ELSE e[Len(q)] + Footprint(m)]
<1>1. /\ Len(q) \in Nat /\ r \in Seq(Messages) /\ Len(r) = Len(q) + 1
      /\ \A i \in 1 .. Len(q) : r[i] = q[i]
      /\ r[Len(q) + 1] = m
  BY LenProperties, AppendProperties
<1>2. /\ \A i \in 0 .. Len(q) : e[i] \in Nat
      /\ e[0] = 0
      /\ \A i \in 1 .. Len(q) : e[i] = e[i - 1] + Footprint(q[i])
  BY EndsAre DEF IsEnds, IsEndsTo
<1>3. Footprint(m) \in Nat BY FootprintIsLong
<1> HIDE DEF r, e
<1>4. ASSUME NEW i \in 1 .. Len(q) + 1 PROVE g[i] = g[i - 1] + Footprint(r[i])
  <2>1. CASE i = Len(q) + 1 BY <1>1, <2>1
  <2>2. CASE i \in 1 .. Len(q) BY <1>1, <1>2, <2>2
  <2> QED BY <1>1, <2>1, <2>2
<1>5. g \in [0 .. Len(q) + 1 -> Nat] /\ g[0] = 0
  <2>1. ASSUME NEW i \in 0 .. Len(q) + 1
        PROVE  (IF i <= Len(q) THEN e[i] ELSE e[Len(q)] + Footprint(m)) \in Nat
    <3>1. e[Len(q)] \in Nat BY <1>1, <1>2
    <3>2. e[Len(q)] + Footprint(m) \in Nat BY <1>3, <3>1
    <3>3. i <= Len(q) => e[i] \in Nat BY <1>1, <1>2
    <3> QED BY <3>2, <3>3
  <2>2. g[0] = 0 BY <1>1, <1>2
  <2> QED BY <2>1, <2>2
<1>6. g[Len(q) + 1] = e[Len(q)] + Footprint(m) /\ \A i \in 0 .. Len(q) : g[i] = e[i] BY <1>1
<1> HIDE DEF g
<1>7. IsEnds(g, r) BY <1>1, <1>4, <1>5 DEF IsEnds, IsEndsTo
<1>8. g = EndsOf(r) BY <1>1, <1>7, EndsAre, EndsUnique
<1> QED BY <1>1, <1>6, <1>8 DEF UsedBy, r, e

\* Without the first, all others lie its bytes nearer.
LEMMA EndsTail ==
    ASSUME NEW q \in Seq(Messages), q # <<>>
    PROVE  /\ EndsOf(q)[1] = Footprint(q[1])
           /\ \A i \in 0 .. Len(q) - 1 : EndsOf(Tail(q))[i] = EndsOf(q)[i + 1] - Footprint(q[1])
           /\ UsedBy(Tail(q)) = UsedBy(q) - Footprint(q[1])
<1> DEFINE e == EndsOf(q)
           r == Tail(q)
           g == [i \in 0 .. Len(q) - 1 |-> e[i + 1] - Footprint(q[1])]
<1>1. /\ Len(q) \in Nat \ {0} /\ r \in Seq(Messages) /\ Len(r) = Len(q) - 1
      /\ \A i \in 1 .. Len(q) - 1 : r[i] = q[i + 1]
  BY LenProperties, HeadTailProperties, EmptySeq
<1>2. /\ \A i \in 0 .. Len(q) : e[i] \in Nat
      /\ e[0] = 0
      /\ \A i \in 1 .. Len(q) : e[i] = e[i - 1] + Footprint(q[i])
  BY EndsAre DEF IsEnds, IsEndsTo
<1>3. \A i \in 1 .. Len(q) : Footprint(q[i]) \in Nat BY ElementOfSeq, FootprintIsLong
<1> HIDE DEF r, e
<1>4. e[1] = Footprint(q[1]) BY <1>1, <1>2, <1>3
<1>5. \A i \in 1 .. Len(q) : e[1] <= e[i]
  <2> DEFINE S == {n \in Nat : n + 1 <= Len(q) => e[1] <= e[n + 1]}
  <2>1. 0 \in S BY <1>1, <1>2
  <2>2. ASSUME NEW n \in Nat, n \in S PROVE n + 1 \in S
    <3> SUFFICES ASSUME n + 1 + 1 <= Len(q) PROVE e[1] <= e[n + 1 + 1] OBVIOUS
    <3>1. n + 1 + 1 \in 1 .. Len(q) /\ n + 1 \in 0 .. Len(q) /\ (n + 1 + 1) - 1 = n + 1
          /\ 1 \in 0 .. Len(q)
      BY <1>1
    <3>2. e[n + 1 + 1] = e[n + 1] + Footprint(q[n + 1 + 1]) BY <1>2, <3>1
    <3>3. e[1] <= e[n + 1] BY <2>2, <3>1, <1>1
    <3>4. e[1] \in Nat /\ e[n + 1] \in Nat /\ Footprint(q[n + 1 + 1]) \in Nat BY <1>2, <1>3, <3>1
    <3> QED BY <3>2, <3>3, <3>4
  <2>3. Nat \subseteq S
    <3> HIDE DEF S
    <3> QED BY <2>1, <2>2, AllNumbers
  <2>4. ASSUME NEW i \in 1 .. Len(q) PROVE e[1] <= e[i]
    <3>1. i - 1 \in Nat /\ (i - 1) + 1 = i /\ i <= Len(q) BY <1>1
    <3>2. i - 1 \in S
      <4> HIDE DEF S
      <4> QED BY <2>3, <3>1
    <3> QED BY <3>1, <3>2
  <2> QED BY <2>4
<1>6. g \in [0 .. Len(q) - 1 -> Nat]
  <2>1. ASSUME NEW i \in 0 .. Len(q) - 1 PROVE e[i + 1] - Footprint(q[1]) \in Nat
    <3>1. i + 1 \in 1 .. Len(q) /\ i + 1 \in 0 .. Len(q) BY <1>1
    <3>2. e[i + 1] \in Nat /\ e[1] <= e[i + 1] /\ Footprint(q[1]) \in Nat BY <1>1, <1>2, <1>3, <1>5, <3>1
    <3> QED BY <1>4, <3>2
  <2> QED BY <2>1
<1>7. g[0] = 0 BY <1>1, <1>2, <1>4
<1>8. ASSUME NEW i \in 1 .. Len(q) - 1 PROVE g[i] = g[i - 1] + Footprint(r[i])
  <2>1. /\ i + 1 \in 1 .. Len(q) /\ (i + 1) - 1 = i /\ (i - 1) + 1 = i
        /\ i \in 0 .. Len(q) - 1 /\ i - 1 \in 0 .. Len(q) - 1 /\ i \in 0 .. Len(q)
    BY <1>1
  <2>2. e[i + 1] = e[i] + Footprint(q[i + 1]) /\ r[i] = q[i + 1] BY <1>1, <1>2, <2>1
  <2>3. e[i] \in Nat /\ Footprint(q[i + 1]) \in Nat BY <1>2, <1>3, <2>1
  <2>4. g[i] = e[i + 1] - Footprint(q[1]) /\ g[i - 1] = e[i] - Footprint(q[1]) BY <2>1
  <2>5. Footprint(q[1]) \in Nat
    <3>1. 1 \in 1 .. Len(q) BY <1>1
    <3> QED BY <1>3, <3>1
  <2>6. Footprint(r[i]) = Footprint(q[i + 1]) BY <2>2
  <2> HIDE DEF g
  <2> QED BY <2>2, <2>3, <2>4, <2>5, <2>6
<1>9. \A i \in 0 .. Len(q) - 1 : g[i] = e[i + 1] - Footprint(q[1]) OBVIOUS
<1> HIDE DEF g
<1>10. IsEnds(g, r) BY <1>1, <1>6, <1>7, <1>8 DEF IsEnds, IsEndsTo
<1>11. g = EndsOf(r) BY <1>1, <1>10, EndsAre, EndsUnique
<1>12. g[Len(q) - 1] = e[Len(q)] - Footprint(q[1])
  <2>1. Len(q) - 1 \in 0 .. Len(q) - 1 /\ (Len(q) - 1) + 1 = Len(q) BY <1>1
  <2> QED BY <1>9, <2>1
<1> QED BY <1>1, <1>4, <1>9, <1>11, <1>12 DEF UsedBy, r, e
---------------------------------------------------------------------------
(* What lies in the ring. *)

\* The bytes of the messages of q are in bytes from place p on.
Laid(bytes, p, q) ==
    \A i \in 1 .. Len(q) : \A k \in 1 .. Footprint(q[i]) :
        bytes[Place(p, EndsOf(q)[i - 1] + (k - 1))] = Byte(q[i], k)

Pointers == /\ read_ptr \in 0 .. MailSize - 1 /\ write_ptr \in 0 .. MailSize - 1
            /\ used_size \in 0 .. MailSize
            /\ write_ptr = Place(read_ptr, used_size)

\* Places behind a place in the ring.
LEMMA PlaceAfter ==
    ASSUME NEW p \in 0 .. MailSize - 1, NEW a \in Nat, NEW b \in Nat, a + b <= MailSize
    PROVE  Place(p, a) \in 0 .. MailSize - 1 /\ Place(Place(p, a), b) = Place(p, a + b)
<1>1. MailSize \in Nat OBVIOUS
<1> QED BY <1>1 DEF Place

\* The bytes of a message at a place, as the reader sees them.
LEMMA MessageAtIs ==
    ASSUME NEW p \in 0 .. MailSize - 1, NEW m \in Messages, Footprint(m) <= MailSize
    PROVE  /\ MessageAt(p) = m <=>
                  \A k \in 1 .. Footprint(m) : memory[Place(p, k - 1)] = Byte(m, k)
           /\ MessageAt(p) = m => HeaderAt(p) = m
<1>1. /\ Footprint(m) \in Nat \ {0} /\ HeaderSize \in Nat \ {0}
      /\ HeaderSize <= Footprint(m) /\ m # Nothing /\ MailSize \in Nat
  BY FootprintIsLong
<1>2. \A k \in 1 .. Footprint(m) : Advanced(p, k - 1) = Place(p, k - 1)
  <2> SUFFICES ASSUME NEW k \in 1 .. Footprint(m) PROVE Advanced(p, k - 1) = Place(p, k - 1) OBVIOUS
  <2>1. k - 1 \in 0 .. MailSize BY <1>1
  <2> QED BY <2>1, AdvancedIsPlace
<1>3. ASSUME MessageAt(p) = m
      PROVE  /\ HeaderAt(p) = m
             /\ \A k \in 1 .. Footprint(m) : memory[Place(p, k - 1)] = Byte(m, k)
  <2>1. HeaderAt(p) = m BY <1>1, <1>3 DEF MessageAt
  <2>2. BytesFrom(p, Footprint(m)) = [k \in 1 .. Footprint(m) |-> Byte(m, k)]
    BY <1>1, <1>3, <2>1 DEF MessageAt
  <2>3. \A k \in 1 .. Footprint(m) : memory[Advanced(p, k - 1)] = Byte(m, k)
    BY <2>2 DEF BytesFrom
  <2> QED BY <1>2, <2>1, <2>3
<1>4. ASSUME \A k \in 1 .. Footprint(m) : memory[Place(p, k - 1)] = Byte(m, k)
      PROVE  MessageAt(p) = m
  <2>1. \A k \in 1 .. Footprint(m) : memory[Advanced(p, k - 1)] = Byte(m, k) BY <1>2, <1>4
  <2>2. memory[p].of = m
    <3>1. 1 \in 1 .. Footprint(m) BY <1>1
    <3>2. Place(p, 1 - 1) = p BY <1>1 DEF Place
    <3>3. memory[Place(p, 1 - 1)] = Byte(m, 1) BY <1>4, <3>1
    <3> QED BY <3>2, <3>3 DEF Byte
  <2>3. BytesFrom(p, HeaderSize) = [k \in 1 .. HeaderSize |-> Byte(m, k)]
    <3>1. \A k \in 1 .. HeaderSize : k \in 1 .. Footprint(m) BY <1>1
    <3>2. \A k \in 1 .. HeaderSize : memory[Advanced(p, k - 1)] = Byte(m, k) BY <2>1, <3>1
    <3> QED BY <3>2 DEF BytesFrom
  <2>4. HeaderAt(p) = m BY <2>2, <2>3 DEF HeaderAt
  <2>5. BytesFrom(p, Footprint(m)) = [k \in 1 .. Footprint(m) |-> Byte(m, k)]
    BY <2>1 DEF BytesFrom
  <2> QED BY <1>1, <2>4, <2>5 DEF MessageAt
<1> QED BY <1>3, <1>4

\* A message in the ring ends before the bytes in use do.
LEMMA EndsInside ==
    ASSUME NEW q \in Seq(Messages), NEW i \in 1 .. Len(q)
    PROVE  /\ EndsOf(q)[i - 1] \in Nat /\ q[i] \in Messages
           /\ Footprint(q[i]) \in Nat \ {0}
           /\ EndsOf(q)[i - 1] + Footprint(q[i]) = EndsOf(q)[i]
           /\ EndsOf(q)[i] <= UsedBy(q) /\ UsedBy(q) \in Nat
<1>1. Len(q) \in Nat BY LenProperties
<1>2. i - 1 \in 0 .. Len(q) /\ i \in 0 .. Len(q) /\ Len(q) \in 0 .. Len(q) BY <1>1
<1>3. IsEnds(EndsOf(q), q) BY EndsAre
<1>4. /\ EndsOf(q)[i - 1] \in Nat /\ UsedBy(q) \in Nat /\ EndsOf(q)[i] <= UsedBy(q)
  BY <1>2, <1>3, EndsGrow DEF UsedBy
<1>5. q[i] \in Messages BY ElementOfSeq
<1>6. EndsOf(q)[i - 1] + Footprint(q[i]) = EndsOf(q)[i] BY <1>3 DEF IsEnds, IsEndsTo
<1> QED BY <1>4, <1>5, <1>6, FootprintIsLong

\* What the reader sees in the bytes in use is what lies there.
LEMMA HoldsIs ==
    ASSUME Pointers, NEW q \in Seq(Messages)
    PROVE  Holds(q) <=> UsedBy(q) = used_size /\ Laid(memory, read_ptr, q)
<1> SUFFICES ASSUME UsedBy(q) = used_size, NEW i \in 1 .. Len(q)
             PROVE  MessageAt(Advanced(read_ptr, EndsOf(q)[i - 1])) = q[i]
                    <=> \A k \in 1 .. Footprint(q[i]) :
                          memory[Place(read_ptr, EndsOf(q)[i - 1] + (k - 1))] = Byte(q[i], k)
  BY DEF Holds, Laid
<1> DEFINE o == EndsOf(q)[i - 1]
           m == q[i]
<1>0. /\ EndsOf(q)[i - 1] \in Nat /\ q[i] \in Messages
      /\ Footprint(q[i]) \in Nat \ {0}
      /\ EndsOf(q)[i - 1] + Footprint(q[i]) <= used_size
  BY EndsInside
<1>1. /\ o \in Nat /\ m \in Messages /\ Footprint(m) \in Nat \ {0}
      /\ o + Footprint(m) <= used_size
      /\ used_size \in Nat /\ used_size <= MailSize /\ MailSize \in Nat
      /\ read_ptr \in 0 .. MailSize - 1
  BY <1>0 DEF Pointers
<1> HIDE DEF o, m
<1>2. o \in 0 .. MailSize /\ Footprint(m) <= MailSize BY <1>1
<1>3. Advanced(read_ptr, o) = Place(read_ptr, o) BY <1>1, <1>2, AdvancedIsPlace
<1>4. \A k \in 1 .. Footprint(m) : Place(Place(read_ptr, o), k - 1) = Place(read_ptr, o + (k - 1))
  <2> SUFFICES ASSUME NEW k \in 1 .. Footprint(m)
               PROVE  Place(Place(read_ptr, o), k - 1) = Place(read_ptr, o + (k - 1))
    OBVIOUS
  <2>1. k - 1 \in Nat /\ o + (k - 1) <= MailSize BY <1>1
  <2> QED BY <1>1, <2>1, PlaceAfter
<1>5. Place(read_ptr, o) \in 0 .. MailSize - 1
  <2>1. o + 0 <= MailSize BY <1>2
  <2> QED BY <1>1, <2>1, PlaceAfter
<1>6. MessageAt(Place(read_ptr, o)) = m <=>
        \A k \in 1 .. Footprint(m) : memory[Place(Place(read_ptr, o), k - 1)] = Byte(m, k)
  BY <1>1, <1>2, <1>5, MessageAtIs
<1> QED BY <1>3, <1>4, <1>6 DEF o, m

\* Only one queue of messages lies in the ring.
LEMMA OneQueue ==
    ASSUME NEW bytes, NEW p, NEW q \in Seq(Messages), NEW r \in Seq(Messages),
           UsedBy(q) = UsedBy(r), Laid(bytes, p, q), Laid(bytes, p, r)
    PROVE  q = r
<1> DEFINE S == {n \in Nat : n <= Len(q) =>
                    /\ n <= Len(r) /\ EndsOf(q)[n] = EndsOf(r)[n]
                    /\ \A i \in 1 .. n : q[i] = r[i]}
<1>1. /\ Len(q) \in Nat /\ Len(r) \in Nat
      /\ IsEnds(EndsOf(q), q) /\ IsEnds(EndsOf(r), r)
  BY LenProperties, EndsAre
<1>2. 0 \in S
  <2>1. EndsOf(q)[0] = 0 /\ EndsOf(r)[0] = 0 BY <1>1 DEF IsEnds, IsEndsTo
  <2> QED BY <1>1, <2>1
<1>3. ASSUME NEW n \in Nat, n \in S, n + 1 <= Len(q)
      PROVE  /\ n + 1 <= Len(r) /\ EndsOf(q)[n + 1] = EndsOf(r)[n + 1]
             /\ \A i \in 1 .. n + 1 : q[i] = r[i]
  <2>1. n <= Len(r) /\ EndsOf(q)[n] = EndsOf(r)[n] /\ \A i \in 1 .. n : q[i] = r[i]
    BY <1>1, <1>3
  <2>2. n + 1 \in 1 .. Len(q) /\ (n + 1) - 1 = n BY <1>1, <1>3
  <2>3. /\ EndsOf(q)[n] \in Nat /\ Footprint(q[n + 1]) \in Nat \ {0} /\ UsedBy(q) \in Nat
        /\ EndsOf(q)[n] + Footprint(q[n + 1]) = EndsOf(q)[n + 1]
        /\ EndsOf(q)[n + 1] <= UsedBy(q)
    BY <2>2, EndsInside
  <2>4. n + 1 <= Len(r)
    <3>1. EndsOf(r)[n] < UsedBy(r) BY <2>1, <2>3
    <3>2. n # Len(r) BY <3>1, <2>1, <2>3 DEF UsedBy
    <3> QED BY <1>1, <2>1, <3>2
  <2>5. n + 1 \in 1 .. Len(r) BY <1>1, <2>4
  <2>6. Footprint(r[n + 1]) \in Nat \ {0} /\ EndsOf(r)[n] + Footprint(r[n + 1]) = EndsOf(r)[n + 1]
    BY <2>2, <2>5, EndsInside
  <2>7. q[n + 1] = r[n + 1]
    <3>1. 1 \in 1 .. Footprint(q[n + 1]) /\ 1 \in 1 .. Footprint(r[n + 1]) BY <2>3, <2>6
    <3>2. bytes[Place(p, EndsOf(q)[(n + 1) - 1] + (1 - 1))] = Byte(q[n + 1], 1)
      BY <2>2, <3>1 DEF Laid
    <3>3. bytes[Place(p, EndsOf(r)[(n + 1) - 1] + (1 - 1))] = Byte(r[n + 1], 1)
      BY <2>5, <3>1 DEF Laid
    <3>4. Byte(q[n + 1], 1) = Byte(r[n + 1], 1) BY <2>1, <2>2, <3>2, <3>3
    <3> QED BY <3>4 DEF Byte
  <2>8. \A i \in 1 .. n + 1 : i \in 1 .. n \/ i = n + 1 OBVIOUS
  <2>9. EndsOf(q)[n + 1] = EndsOf(r)[n + 1] BY <2>1, <2>3, <2>6, <2>7
  <2> QED BY <2>1, <2>4, <2>7, <2>8, <2>9
<1>4. ASSUME NEW n \in Nat, n \in S PROVE n + 1 \in S BY <1>3, <1>4
<1>5. Nat \subseteq S
  <2> HIDE DEF S
  <2> QED BY <1>2, <1>4, AllNumbers
<1>6. Len(q) \in S
  <2> HIDE DEF S
  <2> QED BY <1>1, <1>5
<1>7. /\ Len(q) <= Len(r) /\ EndsOf(q)[Len(q)] = EndsOf(r)[Len(q)]
      /\ \A i \in 1 .. Len(q) : q[i] = r[i]
  BY <1>1, <1>6
<1>8. Len(q) = Len(r)
  <2> SUFFICES ASSUME Len(q) < Len(r) PROVE FALSE BY <1>1, <1>7
  <2>1. Len(q) + 1 \in 1 .. Len(r) /\ (Len(q) + 1) - 1 = Len(q) BY <1>1
  <2>2. /\ EndsOf(r)[Len(q)] \in Nat /\ Footprint(r[Len(q) + 1]) \in Nat \ {0} /\ UsedBy(r) \in Nat
        /\ EndsOf(r)[Len(q)] + Footprint(r[Len(q) + 1]) = EndsOf(r)[Len(q) + 1]
        /\ EndsOf(r)[Len(q) + 1] <= UsedBy(r)
    BY <2>1, EndsInside
  <2>3. EndsOf(r)[Len(q)] < UsedBy(r) BY <2>2
  <2> QED BY <1>7, <2>2, <2>3 DEF UsedBy
<1> QED BY <1>7, <1>8, SeqEqual

\* Unread finds the queue that lies in the ring.
UnreadIsLaid ==
    \A q \in Seq(Messages) :
        Pointers /\ UsedBy(q) = used_size /\ Laid(memory, read_ptr, q) => Unread = q

LEMMA UnreadIs == UnreadIsLaid
<1> SUFFICES ASSUME NEW q \in Seq(Messages), Pointers, UsedBy(q) = used_size,
                    Laid(memory, read_ptr, q)
             PROVE  Unread = q
  BY DEF UnreadIsLaid
<1>1. q \in Queues
  <2>1. Len(q) \in Nat /\ DOMAIN q = 1 .. Len(q) BY LenProperties
  <2>2. Len(q) <= EndsOf(q)[Len(q)] /\ EndsOf(q)[Len(q)] \in Nat BY <2>1, EndsAre, EndsGrow
  <2>3. Len(q) \in 0 .. MailSize BY <2>1, <2>2 DEF Pointers, UsedBy
  <2>4. q \in [1 .. Len(q) -> Messages] BY <2>1, ElementOfSeq
  <2>5. Len(q) * HeaderSize <= MailSize
    <3>1. Len(q) * HeaderSize <= used_size BY HeadersFit
    <3>2. used_size <= MailSize /\ used_size \in Nat BY DEF Pointers
    <3>3. Len(q) * HeaderSize \in Nat BY <2>1
    <3> QED BY <3>1, <3>2, <3>3
  <2> QED BY <2>3, <2>4, <2>5 DEF Queues
<1>2. Holds(q) BY HoldsIs
<1>3. Unread = CHOOSE msgs \in Queues : Holds(msgs) BY <1>1, <1>2 DEF Unread
<1>4. PICK r : r = Unread OBVIOUS
<1>5. r \in Queues /\ Holds(r) BY <1>1, <1>2, <1>3, <1>4
<1>6. r \in Seq(Messages)
  <2>1. PICK n \in 0 .. MailSize : r \in [1 .. n -> Messages] BY <1>5 DEF Queues
  <2> QED BY <2>1
<1>7. UsedBy(r) = used_size /\ Laid(memory, read_ptr, r) BY <1>5, <1>6, HoldsIs
<1>8. r = q BY <1>6, <1>7, OneQueue
<1> QED BY <1>4, <1>8

\* And so it does after a step.
LEMMA UnreadIsNext == UnreadIsLaid'
BY UnreadIs, PTL
---------------------------------------------------------------------------
(* What a call does to the ring. *)

\* How far behind the writer's pointer a place is.
Behind(p) == IF write_ptr <= p THEN p - write_ptr ELSE p + MailSize - write_ptr

\* The memory when the first n bytes of m are written.
WrittenTo(m, n) == [p \in 0 .. MailSize |-> IF p < MailSize /\ Behind(p) < n
                                            THEN Byte(m, Behind(p) + 1) ELSE memory[p]]

MemoryOK == memory \in [0 .. MailSize -> [of : Messages \cup {Nothing}, nth : Nat]]
            /\ memory[MailSize] = Unwritten

\* write_to_buffer writes the bytes behind the writer's pointer, around the
\* end of the buffer and on, and no others.
LEMMA WrittenIs ==
    ASSUME Pointers, MemoryOK, NEW m \in Messages, Footprint(m) <= MailSize
    PROVE  Written(m) = WrittenTo(m, Footprint(m))
<1> DEFINE F == Footprint(m)
           Loop(f) == f = [n \in 0 .. F |-> IF n = 0 THEN memory
                              ELSE [f[n - 1] EXCEPT ![Advanced(write_ptr, n - 1)] = Byte(m, n)]]
           f0 == [n \in 0 .. F |-> WrittenTo(m, n)]
<1>1. /\ F \in Nat \ {0} /\ F <= MailSize /\ MailSize \in Nat
      /\ write_ptr \in 0 .. MailSize - 1 /\ DOMAIN memory = 0 .. MailSize
      /\ memory = [p \in 0 .. MailSize |-> memory[p]]
  BY FootprintIsLong DEF Pointers, MemoryOK
<1> HIDE DEF F
<1>2. WrittenTo(m, 0) = memory
  <2>1. \A p \in 0 .. MailSize : p < MailSize => ~(Behind(p) < 0) BY <1>1 DEF Behind
  <2> QED BY <1>1, <2>1 DEF WrittenTo
<1>3. ASSUME NEW n \in 1 .. F
      PROVE  WrittenTo(m, n) = [WrittenTo(m, n - 1) EXCEPT ![Advanced(write_ptr, n - 1)] = Byte(m, n)]
  <2> DEFINE x == Place(write_ptr, n - 1)
             G == [WrittenTo(m, n - 1) EXCEPT ![x] = Byte(m, n)]
  <2>1. n - 1 \in 0 .. MailSize BY <1>1
  <2>2. Advanced(write_ptr, n - 1) = x BY <1>1, <2>1, AdvancedIsPlace
  <2>3. x \in 0 .. MailSize - 1 /\ Behind(x) = n - 1 BY SMTT(30), <1>1 DEF Place, Behind
  <2>4. ASSUME NEW p \in 0 .. MailSize, p < MailSize, p # x
        PROVE  Behind(p) # n - 1 /\ Behind(p) \in Nat
    <3>1. p \in Nat /\ write_ptr \in Nat /\ write_ptr < MailSize BY <1>1
    <3>2. CASE write_ptr <= p
      <4>1. Behind(p) = p - write_ptr /\ p - write_ptr \in Nat BY <3>1, <3>2 DEF Behind
      <4>2. ASSUME p - write_ptr = n - 1 PROVE p = x
        <5>1. n \in Nat /\ write_ptr + (n - 1) = p BY <1>1, <3>1, <4>2
        <5>2. Place(write_ptr, n - 1) = write_ptr + (n - 1) BY <2>4, <5>1 DEF Place
        <5> QED BY <5>1, <5>2
      <4> QED BY <2>4, <4>1, <4>2
    <3>3. CASE p < write_ptr BY SMTT(30), <1>1, <2>4, <3>1, <3>3 DEF Place, Behind
    <3> QED BY <3>1, <3>2, <3>3
  <2> HIDE DEF x
  <2>5. ASSUME NEW p \in 0 .. MailSize PROVE WrittenTo(m, n)[p] = G[p]
    <3>1. CASE p = x
      <4>1. WrittenTo(m, n)[p] = Byte(m, (n - 1) + 1) BY <1>1, <2>3, <3>1 DEF WrittenTo
      <4>2. G[p] = Byte(m, n) BY <3>1 DEF WrittenTo
      <4>3. (n - 1) + 1 = n OBVIOUS
      <4> QED BY <4>1, <4>2, <4>3
    <3>2. CASE p # x
      <4>1. G[p] = WrittenTo(m, n - 1)[p] BY <3>2 DEF WrittenTo
      <4>2. CASE p < MailSize
        <5>1. Behind(p) \in Nat /\ Behind(p) # n - 1 BY <2>4, <3>2, <4>2
        <5>2. Behind(p) < n <=> Behind(p) < n - 1 BY <5>1
        <5> QED BY <4>1, <5>2 DEF WrittenTo
      <4>3. CASE ~(p < MailSize) BY <4>1, <4>3 DEF WrittenTo
      <4> QED BY <4>2, <4>3
    <3> QED BY <3>1, <3>2
  <2>6. DOMAIN G = 0 .. MailSize /\ G = [p \in 0 .. MailSize |-> G[p]] BY DEF WrittenTo
  <2>7. WrittenTo(m, n) = [p \in 0 .. MailSize |-> WrittenTo(m, n)[p]] BY DEF WrittenTo
  <2>8. WrittenTo(m, n) = G
    <3> HIDE DEF G
    <3> QED BY <2>5, <2>6, <2>7
  <2> QED BY <2>2, <2>8
<1>4. Loop(f0)
  <2>1. \A n \in 0 .. F : n # 0 => n \in 1 .. F /\ n - 1 \in 0 .. F BY <1>1
  <2> QED BY <1>2, <1>3, <2>1
<1>5. ASSUME NEW f, Loop(f) PROVE f[F] = WrittenTo(m, F)
  <2> DEFINE S == {n \in Nat : n <= F => f[n] = WrittenTo(m, n)}
  <2>1. 0 \in S BY <1>1, <1>2, <1>5
  <2>2. ASSUME NEW n \in Nat, n \in S, n + 1 <= F PROVE f[n + 1] = WrittenTo(m, n + 1)
    <3>1. n + 1 \in 1 .. F /\ (n + 1) - 1 = n /\ n + 1 \in 0 .. F /\ n + 1 # 0 BY <1>1, <2>2
    <3>2. f[n] = WrittenTo(m, n) BY <2>2, <1>1
    <3>3. f[n + 1] = [f[n] EXCEPT ![Advanced(write_ptr, n)] = Byte(m, n + 1)] BY <1>5, <3>1
    <3> QED BY <1>3, <3>1, <3>2, <3>3
  <2>3. \A n \in Nat : n \in S => n + 1 \in S BY <2>2
  <2>4. Nat \subseteq S
    <3> HIDE DEF S
    <3> QED BY <2>1, <2>3, AllNumbers
  <2> QED BY <1>1, <2>4
<1>6. Written(m) = (CHOOSE f : Loop(f))[F] BY DEF Written, F
<1>7. Loop(CHOOSE f : Loop(f))
  <2> HIDE DEF Loop
  <2> QED BY <1>4
<1> QED BY <1>5, <1>6, <1>7 DEF F

\* __send_msg lays the message behind those that are there.
LEMMA SendLays ==
    ASSUME Pointers, MemoryOK, NEW q \in Seq(Messages),
           UsedBy(q) = used_size, Laid(memory, read_ptr, q),
           NEW m \in Messages, SendMsg(m)
    PROVE  /\ Pointers' /\ MemoryOK'
           /\ UsedBy(Append(q, m)) = used_size' /\ Laid(memory', read_ptr', Append(q, m))
<1> DEFINE F == Footprint(m)
<1>1. /\ F \in Nat \ {0} /\ used_size + F <= MailSize /\ used_size' = used_size + F
      /\ read_ptr' = read_ptr /\ MailSize \in Nat
      /\ read_ptr \in 0 .. MailSize - 1 /\ write_ptr \in 0 .. MailSize - 1
      /\ used_size \in 0 .. MailSize /\ write_ptr = Place(read_ptr, used_size)
  BY FootprintIsLong DEF SendMsg, Fits, Pointers
<1>2. memory' = WrittenTo(m, F) BY <1>1, WrittenIs DEF SendMsg
<1>3. write_ptr' = Place(write_ptr, F)
  <2>1. F \in 0 .. MailSize BY <1>1
  <2> QED BY <1>1, <2>1, AdvancedIsPlace DEF SendMsg
<1> HIDE DEF F
<1>4. Pointers'
  <2>1. Place(write_ptr, F) = Place(read_ptr, used_size + F) BY <1>1, PlaceAfter
  <2>2. Place(read_ptr, used_size + F) \in 0 .. MailSize - 1
    <3>1. used_size + F \in Nat /\ used_size + F + 0 <= MailSize BY <1>1
    <3> QED BY <1>1, <3>1, PlaceAfter
  <2>3. used_size + F \in 0 .. MailSize BY <1>1
  <2> QED BY <1>1, <1>3, <2>1, <2>2, <2>3 DEF Pointers
<1>5. MemoryOK'
  <2>1. ASSUME NEW p \in 0 .. MailSize
        PROVE  memory'[p] \in [of : Messages \cup {Nothing}, nth : Nat]
    <3>1. p < MailSize => Behind(p) + 1 \in Nat BY <1>1 DEF Behind
    <3> QED BY <1>2, <3>1 DEF WrittenTo, MemoryOK, Byte
  <2>2. memory' = [p \in 0 .. MailSize |-> memory'[p]] BY <1>2 DEF WrittenTo
  <2>3. MailSize \in 0 .. MailSize /\ ~(MailSize < MailSize) BY <1>1
  <2>4. memory'[MailSize] = Unwritten BY <1>2, <2>3 DEF WrittenTo, MemoryOK
  <2> QED BY <2>1, <2>2, <2>4 DEF MemoryOK
\* The bytes in use are not overwritten.
<1>6. ASSUME NEW o \in Nat, o < used_size
      PROVE  memory'[Place(read_ptr, o)] = memory[Place(read_ptr, o)]
  <2> DEFINE x == Place(read_ptr, o)
  <2>1. x \in 0 .. MailSize /\ x < MailSize BY <1>1, <1>6 DEF Place
  <2>2. ~(Behind(x) < F)
    <3>1. CASE read_ptr + o < MailSize BY <1>1, <1>6, <3>1 DEF Place, Behind
    <3>2. CASE MailSize <= read_ptr + o BY <1>1, <1>6, <3>2 DEF Place, Behind
    <3> QED BY <1>1, <1>6, <3>1, <3>2
  <2> HIDE DEF x
  <2> QED BY <1>2, <2>1, <2>2 DEF WrittenTo, x
\* The new ones are behind them.
<1>7. ASSUME NEW k \in 1 .. F
      PROVE  memory'[Place(read_ptr, used_size + (k - 1))] = Byte(m, k)
  <2> DEFINE x == Place(write_ptr, k - 1)
  <2>1. Place(read_ptr, used_size + (k - 1)) = x
    <3>1. k - 1 \in Nat /\ used_size \in Nat /\ used_size + (k - 1) <= MailSize BY <1>1
    <3> QED BY <1>1, <3>1, PlaceAfter
  <2>2. x \in 0 .. MailSize /\ x < MailSize /\ Behind(x) = k - 1 BY <1>1 DEF Place, Behind
  <2>3. k - 1 < F /\ (k - 1) + 1 = k BY <1>1
  <2> HIDE DEF x
  <2> QED BY <1>2, <2>1, <2>2, <2>3 DEF WrittenTo
<1> DEFINE r == Append(q, m)
<1>8. /\ Len(q) \in Nat /\ Len(r) = Len(q) + 1
      /\ \A i \in 1 .. Len(q) : r[i] = q[i]
      /\ r[Len(q) + 1] = m
  BY LenProperties, AppendProperties
<1>9. /\ \A i \in 0 .. Len(q) : EndsOf(r)[i] = EndsOf(q)[i]
      /\ UsedBy(r) = used_size + F
  BY EndsAppend DEF F
<1> HIDE DEF r
<1>10. Laid(memory', read_ptr', r)
  <2> SUFFICES ASSUME NEW i \in 1 .. Len(r), NEW k \in 1 .. Footprint(r[i])
               PROVE  memory'[Place(read_ptr, EndsOf(r)[i - 1] + (k - 1))] = Byte(r[i], k)
    BY <1>1 DEF Laid
  <2>1. CASE i \in 1 .. Len(q)
    <3>1. i - 1 \in 0 .. Len(q) /\ r[i] = q[i] BY <1>8, <2>1
    <3>2. EndsOf(r)[i - 1] = EndsOf(q)[i - 1] BY <1>9, <3>1
    <3>3. /\ EndsOf(q)[i - 1] \in Nat /\ Footprint(q[i]) \in Nat \ {0}
          /\ EndsOf(q)[i - 1] + Footprint(q[i]) = EndsOf(q)[i]
          /\ EndsOf(q)[i] <= UsedBy(q) /\ UsedBy(q) \in Nat
      BY <2>1, EndsInside
    <3>4. k \in 1 .. Footprint(q[i]) BY <3>1
    <3>5. EndsOf(q)[i - 1] + (k - 1) \in Nat /\ EndsOf(q)[i - 1] + (k - 1) < used_size
      <4> DEFINE o == EndsOf(q)[i - 1]
                 f == Footprint(q[i])
      <4>1. o \in Nat /\ f \in Nat \ {0} /\ o + f <= used_size /\ used_size \in Nat BY <1>1, <3>3
      <4>2. k \in 1 .. f BY <3>4
      <4> HIDE DEF o, f
      <4>3. o + (k - 1) \in Nat /\ o + (k - 1) < used_size BY <4>1, <4>2
      <4> QED BY <4>3 DEF o
    <3>6. memory[Place(read_ptr, EndsOf(q)[i - 1] + (k - 1))] = Byte(q[i], k)
      BY <2>1, <3>4 DEF Laid
    <3> QED BY <1>6, <3>1, <3>2, <3>5, <3>6
  <2>2. CASE i = Len(q) + 1
    <3>1. i - 1 = Len(q) /\ Len(q) \in 0 .. Len(q) /\ r[i] = m BY <1>8, <2>2
    <3>2. EndsOf(r)[i - 1] = used_size BY <1>9, <3>1 DEF UsedBy
    <3>3. k \in 1 .. F BY <3>1 DEF F
    <3> QED BY <1>7, <3>1, <3>2, <3>3
  <2> QED BY <1>8, <2>1, <2>2
<1> QED BY <1>1, <1>4, <1>5, <1>9, <1>10 DEF r

\* The messages of q, and no others, lie in the bytes in use.
InRing(q) == /\ Pointers /\ MemoryOK
                  /\ UsedBy(q) = used_size /\ Laid(memory, read_ptr, q)

\* The inductive invariant: whatever was called, some messages lie there whole.
RingInv == \E q \in Seq(Messages) : InRing(q)

\* Nothing is in use exactly when no message is.
LEMMA EmptyIsUnused ==
    ASSUME NEW q \in Seq(Messages)
    PROVE  UsedBy(q) \in Nat /\ (UsedBy(q) = 0 <=> q = <<>>)
<1>1. Len(q) \in Nat /\ IsEnds(EndsOf(q), q) BY LenProperties, EndsAre
<1>2. Len(q) \in 0 .. Len(q) BY <1>1
<1>3. UsedBy(q) \in Nat /\ Len(q) <= UsedBy(q) BY <1>1, <1>2, EndsGrow DEF UsedBy
<1>4. Len(q) = 0 => UsedBy(q) = 0 BY <1>1 DEF UsedBy, IsEnds, IsEndsTo
<1>5. UsedBy(q) = 0 => Len(q) = 0 BY <1>1, <1>3
<1>6. Len(q) = 0 <=> q = <<>> BY EmptySeq, LenProperties
<1> QED BY <1>3, <1>4, <1>5, <1>6

\* __recv_msg takes the first of the messages off, whole.
LEMMA RecvLays ==
    ASSUME Pointers, MemoryOK, NEW q \in Seq(Messages),
           UsedBy(q) = used_size, Laid(memory, read_ptr, q), RecvMsg
    PROVE  /\ Pointers' /\ MemoryOK'
           /\ q # <<>> /\ got' = Head(q)
           /\ UsedBy(Tail(q)) = used_size' /\ Laid(memory', read_ptr', Tail(q))
<1> DEFINE m == q[1]
           F == Footprint(m)
           r == Tail(q)
<1>1. q # <<>> BY EmptyIsUnused DEF RecvMsg
<1>2. /\ Len(q) \in Nat \ {0} /\ Head(q) = m /\ Len(r) = Len(q) - 1 /\ r \in Seq(Messages)
      /\ \A i \in 1 .. Len(q) - 1 : r[i] = q[i + 1]
  BY <1>1, LenProperties, HeadTailProperties, EmptySeq
<1>3. 1 \in 1 .. Len(q) BY <1>2
<1>4. /\ m \in Messages /\ F \in Nat \ {0} /\ UsedBy(q) \in Nat
      /\ EndsOf(q)[1] = F /\ F <= UsedBy(q)
  <2>1. /\ m \in Messages /\ F \in Nat \ {0} /\ UsedBy(q) \in Nat /\ EndsOf(q)[1] <= UsedBy(q)
    BY <1>3, EndsInside
  <2>2. EndsOf(q)[1] = F BY <1>1, EndsTail
  <2> QED BY <2>1, <2>2
<1>5. EndsOf(q)[1 - 1] = 0 BY EndsAre DEF IsEnds, IsEndsTo
<1>6. /\ MailSize \in Nat /\ read_ptr \in 0 .. MailSize - 1 /\ used_size \in 0 .. MailSize
      /\ write_ptr = Place(read_ptr, used_size) /\ F <= used_size /\ F <= MailSize
  BY <1>4 DEF Pointers
<1>7. MessageAt(read_ptr) = m /\ HeaderAt(read_ptr) = m
  <2>1. \A k \in 1 .. F : memory[Place(read_ptr, k - 1)] = Byte(m, k)
    <3> SUFFICES ASSUME NEW k \in 1 .. F PROVE memory[Place(read_ptr, k - 1)] = Byte(m, k) OBVIOUS
    <3>1. memory[Place(read_ptr, EndsOf(q)[1 - 1] + (k - 1))] = Byte(m, k) BY <1>3 DEF Laid
    <3>2. 0 + (k - 1) = k - 1 BY <1>4
    <3> QED BY <1>5, <3>1, <3>2
  <2> QED BY <1>4, <1>6, <2>1, MessageAtIs
<1>8. got' = m /\ read_ptr' = Place(read_ptr, F) /\ used_size' = used_size - F
      /\ memory' = memory /\ write_ptr' = write_ptr
  <2>1. F \in 0 .. MailSize BY <1>4, <1>6
  <2>2. Advanced(read_ptr, F) = Place(read_ptr, F) BY <1>6, <2>1, AdvancedIsPlace
  <2> QED BY <1>7, <2>2 DEF RecvMsg, Freed
<1>9. UsedBy(r) = used_size - F BY <1>1, EndsTail
<1> HIDE DEF m, F, r
<1>10. Pointers'
  <2>1. used_size - F \in 0 .. MailSize BY <1>4, <1>6
  <2>2. Place(read_ptr, F) \in 0 .. MailSize - 1
    <3>1. F + 0 <= MailSize BY <1>4, <1>6
    <3> QED BY <1>4, <1>6, <3>1, PlaceAfter
  <2>3. Place(Place(read_ptr, F), used_size - F) = Place(read_ptr, used_size)
    <3>1. used_size - F \in Nat /\ F + (used_size - F) = used_size /\ used_size <= MailSize
      BY <1>4, <1>6
    <3> QED BY <1>4, <1>6, <3>1, PlaceAfter
  <2> QED BY <1>6, <1>8, <2>1, <2>2, <2>3 DEF Pointers
<1>11. MemoryOK' BY <1>8 DEF MemoryOK
<1>12. Laid(memory', read_ptr', r)
  <2> SUFFICES ASSUME NEW i \in 1 .. Len(r), NEW k \in 1 .. Footprint(r[i])
               PROVE  memory[Place(Place(read_ptr, F), EndsOf(r)[i - 1] + (k - 1))] = Byte(r[i], k)
    BY <1>8 DEF Laid
  <2>1. i + 1 \in 1 .. Len(q) /\ (i + 1) - 1 = i /\ i - 1 \in 0 .. Len(q) - 1 /\ (i - 1) + 1 = i
        /\ r[i] = q[i + 1]
    <3>1. Len(q) \in Nat /\ Len(r) = Len(q) - 1 /\ i \in Nat BY <1>2
    <3>2. r[i] = q[i + 1] BY <1>2
    <3>3. i <= Len(q) - 1 /\ i >= 1 BY <3>1
    <3>4. i + 1 \in 1 .. Len(q) /\ i - 1 \in 0 .. Len(q) - 1 BY <3>1, <3>3
    <3>5. (i + 1) - 1 = i /\ (i - 1) + 1 = i BY <3>1
    <3> QED BY <3>2, <3>4, <3>5
  <2>2. EndsOf(r)[i - 1] = EndsOf(q)[i] - F BY <1>1, <2>1, EndsTail DEF r, F, m
  <2>3. EndsOf(r)[i - 1] \in Nat BY <1>2, EndsInside
  <2>4. /\ EndsOf(q)[i] \in Nat /\ Footprint(q[i + 1]) \in Nat \ {0}
        /\ EndsOf(q)[i] + Footprint(q[i + 1]) = EndsOf(q)[i + 1]
        /\ EndsOf(q)[i + 1] <= UsedBy(q)
    BY <2>1, EndsInside
  <2>5. k \in 1 .. Footprint(q[i + 1]) BY <2>1
  <2>6. memory[Place(read_ptr, EndsOf(q)[i] + (k - 1))] = Byte(q[i + 1], k)
    BY <2>1, <2>5 DEF Laid
  <2> DEFINE o == EndsOf(q)[i]
             o1 == EndsOf(r)[i - 1]
             f == Footprint(q[i + 1])
  <2>7. /\ o \in Nat /\ o1 \in Nat /\ f \in Nat \ {0} /\ o + f <= used_size
        /\ o1 = o - F /\ k \in 1 .. f
    BY <2>2, <2>3, <2>4, <2>5
  <2> HIDE DEF o, o1, f
  <2>8. Place(Place(read_ptr, F), o1 + (k - 1)) = Place(read_ptr, o + (k - 1))
    <3>1. o1 + (k - 1) \in Nat /\ F + (o1 + (k - 1)) = o + (k - 1)
          /\ F + (o1 + (k - 1)) <= MailSize
      BY <1>4, <1>6, <2>7
    <3> QED BY <1>4, <1>6, <3>1, PlaceAfter
  <2> QED BY <2>1, <2>6, <2>8 DEF o, o1
<1> QED BY <1>1, <1>2, <1>8, <1>9, <1>10, <1>11, <1>12 DEF r

\* An empty ring, wherever its pointers meet.
LEMMA EmptyLays ==
    ASSUME NEW bytes, NEW p
    PROVE  <<>> \in Seq(Messages) /\ UsedBy(<<>>) = 0 /\ Laid(bytes, p, <<>>)
<1>1. <<>> \in Seq(Messages) /\ Len(<<>>) = 0 BY EmptySeq
<1>2. UsedBy(<<>>) = 0 BY <1>1, EmptyIsUnused
<1> QED BY <1>1, <1>2 DEF Laid

\* What a step does to the queue q that lies in the ring: what MailQueue says
\* of it.
QueueStep(q) ==
    \/ \E m \in Messages : /\ UsedBy(q) + Footprint(m) <= MailSize
                           /\ InRing(Append(q, m))' /\ UNCHANGED got
    \/ q # <<>> /\ got' = Head(q) /\ InRing(Tail(q))'
    \/ q = <<>> /\ got' = Nothing /\ InRing(q)'
    \/ InRing(<<>>)' /\ UNCHANGED got
    \/ InRing(q)' /\ UNCHANGED got
---------------------------------------------------------------------------
(* The theorems. *)

LEMMA RingInitInv == RingInit => RingInv /\ InRing(<<>>)
<1> SUFFICES ASSUME RingInit PROVE RingInv /\ InRing(<<>>) OBVIOUS
<1>1. MailSize \in Nat \ {0} OBVIOUS
<1>2. Pointers BY <1>1 DEF RingInit, Pointers, Place
<1>3. MemoryOK BY <1>1 DEF RingInit, MemoryOK, Unwritten
<1>4. /\ <<>> \in Seq(Messages) /\ UsedBy(<<>>) = used_size /\ Laid(memory, read_ptr, <<>>)
  BY EmptyLays DEF RingInit
<1> QED BY <1>2, <1>3, <1>4 DEF RingInv, InRing

LEMMA RingStep ==
    ASSUME NEW q \in Seq(Messages), InRing(q), [RingNext]_ringVars
    PROVE  RingInv' /\ QueueStep(q)
<1>1. /\ Pointers /\ MemoryOK /\ UsedBy(q) = used_size /\ Laid(memory, read_ptr, q)
  BY DEF InRing
<1>2. ASSUME NEW m \in Messages, SendMsg(m) PROVE RingInv' /\ QueueStep(q)
  <2>1. Append(q, m) \in Seq(Messages) BY AppendProperties
  <2>2. InRing(Append(q, m))' BY <1>1, <1>2, <2>1, SendLays DEF InRing
  <2>3. UsedBy(q) + Footprint(m) <= MailSize /\ UNCHANGED got BY <1>1, <1>2 DEF SendMsg, Fits
  <2>4. RingInv' BY <2>1, <2>2 DEF RingInv, InRing
  <2> QED BY <2>2, <2>3, <2>4 DEF QueueStep
<1>3. CASE RecvMsg
  <2>1. q # <<>> /\ got' = Head(q) BY <1>1, <1>3, RecvLays
  <2>2. Tail(q) \in Seq(Messages) BY <2>1, HeadTailProperties
  <2>3. InRing(Tail(q))' BY <1>1, <1>3, <2>2, RecvLays DEF InRing
  <2>4. RingInv' BY <2>2, <2>3 DEF RingInv, InRing
  <2> QED BY <2>1, <2>3, <2>4 DEF QueueStep
<1>4. CASE RecvNothing
  <2>1. q = <<>> /\ got' = Nothing BY <1>1, <1>4, EmptyIsUnused DEF RecvNothing
  <2>2. InRing(q)' BY <1>1, <1>4 DEF RecvNothing, InRing, Pointers, MemoryOK
  <2>3. RingInv' BY <2>2 DEF RingInv, InRing
  <2> QED BY <2>1, <2>2, <2>3 DEF QueueStep
<1>5. CASE ClearMail
  <2>1. Pointers' BY <1>5 DEF ClearMail, Pointers, Place
  <2>2. MemoryOK' BY <1>1, <1>5 DEF ClearMail, MemoryOK
  <2>3. /\ <<>> \in Seq(Messages) /\ UsedBy(<<>>) = used_size' /\ Laid(memory', read_ptr', <<>>)
    BY <1>5, EmptyLays DEF ClearMail
  <2>4. InRing(<<>>)' BY <2>1, <2>2, <2>3 DEF InRing
  <2>5. RingInv' BY <2>3, <2>4 DEF RingInv, InRing
  <2> QED BY <1>5, <2>4, <2>5 DEF QueueStep, ClearMail
<1>6. CASE UNCHANGED ringVars
  <2>1. InRing(q)' BY <1>1, <1>6 DEF ringVars, InRing, Pointers, MemoryOK
  <2>2. RingInv' BY <2>1 DEF RingInv, InRing
  <2> QED BY <1>6, <2>1, <2>2 DEF QueueStep, ringVars
<1> QED BY <1>2, <1>3, <1>4, <1>5, <1>6 DEF RingNext

LEMMA RingInvariant == RingSpec => []RingInv
<1>1. RingInv /\ [RingNext]_ringVars => RingInv' BY RingStep DEF RingInv, InRing
<1> QED BY <1>1, RingInitInv, PTL DEF RingSpec

\* The pointers stay in the buffer and as far apart as the bytes accounted,
\* and nothing is written behind it.  (write_to_buffer, increase_ptr)
THEOREM RingTypeCorrect == RingSpec => []RingTypeOK
<1>1. RingInv => RingTypeOK
  <2> SUFFICES ASSUME RingInv PROVE RingTypeOK OBVIOUS
  <2>1. Pointers /\ MemoryOK BY DEF RingInv, InRing
  <2>2. Advanced(read_ptr, used_size) = write_ptr BY <2>1, AdvancedIsPlace DEF Pointers
  <2> QED BY <2>1, <2>2 DEF Pointers, MemoryOK, RingTypeOK
<1> QED BY <1>1, RingInvariant, PTL

\* The ring of bytes is the queue of messages MailQueue promises: each call
\* does to the messages in it what the queue's does, or nothing.
\* (__send_msg, __recv_msg, __set_mailbuffer)
THEOREM RingRefinesQueue == RingSpec => ImplementsMailQueue
<1>1. \A q : Mailbox!UsedBy(q) = UsedBy(q)
  BY DEF Mailbox!UsedBy, UsedBy, Mailbox!EndsOf, EndsOf, Mailbox!Footprint, Footprint
<1>2. \A m : Mailbox!Footprint(m) = Footprint(m) BY DEF Mailbox!Footprint, Footprint
<1>3. RingInit => Mailbox!QueueInit
  <2> SUFFICES ASSUME RingInit PROVE Mailbox!QueueInit OBVIOUS
  <2>1. InRing(<<>>) BY RingInitInv
  <2>2. Unread = <<>> BY <2>1, EmptyLays, UnreadIs DEF UnreadIsLaid, InRing
  <2> QED BY <2>2 DEF RingInit, Mailbox!QueueInit
<1>4. RingInv /\ [RingNext]_ringVars => [Mailbox!QueueNext]_<<Unread, got>>
  <2> SUFFICES ASSUME RingInv, [RingNext]_ringVars
               PROVE  Mailbox!QueueNext \/ UNCHANGED <<Unread, got>>
    OBVIOUS
  <2>1. PICK q \in Seq(Messages) : InRing(q) BY DEF RingInv, InRing
  <2>2. Unread = q BY <2>1, UnreadIs DEF UnreadIsLaid, InRing
  <2>3. \A r \in Seq(Messages) : InRing(r)' => Unread' = r
    BY UnreadIsNext DEF UnreadIsLaid, InRing
  <2>4. <<>> \in Seq(Messages) /\ \A m \in Messages : Append(q, m) \in Seq(Messages)
    BY EmptySeq, AppendProperties
  <2>5. q # <<>> => Tail(q) \in Seq(Messages) BY HeadTailProperties
  <2>6. QueueStep(q) BY <2>1, RingStep
  <2>7. ASSUME NEW m \in Messages, UsedBy(q) + Footprint(m) <= MailSize,
               InRing(Append(q, m))', UNCHANGED got
        PROVE  Mailbox!QueueNext
    BY <1>1, <1>2, <2>2, <2>3, <2>4, <2>7 DEF Mailbox!QueueNext, Mailbox!Put
  <2>8. CASE q # <<>> /\ got' = Head(q) /\ InRing(Tail(q))'
    BY <2>2, <2>3, <2>5, <2>8 DEF Mailbox!QueueNext, Mailbox!Take
  <2>9. CASE q = <<>> /\ got' = Nothing /\ InRing(q)'
    BY <2>2, <2>3, <2>4, <2>9 DEF Mailbox!QueueNext, Mailbox!TakeNothing
  <2>10. CASE InRing(<<>>)' /\ UNCHANGED got
    BY <2>3, <2>4, <2>10 DEF Mailbox!QueueNext, Mailbox!Drop
  <2>11. CASE InRing(q)' /\ UNCHANGED got BY <2>2, <2>3, <2>11
  <2> QED BY <2>6, <2>7, <2>8, <2>9, <2>10, <2>11 DEF QueueStep
<1> QED BY <1>3, <1>4, RingInvariant, PTL DEF RingSpec, ImplementsMailQueue, Mailbox!QueueSpec
=============================================================================
