---------------------------- MODULE Loader_proofs ----------------------------
(* Proofs about the loader: the blocks of its heap are apart, for every size  *)
(* of the heap and of its table and for all blocks of two bytes and more; and *)
(* until lmalloc returns NULL or a block that ends in the table, it boots what *)
(* the first partition that it mounts and that has both files holds, for any  *)
(* number of partitions with files of any length that their buffers take.     *)
EXTENDS LoadKernel, QueueLemmas
---------------------------------------------------------------------------
(* The loader's heap. *)

\* A block in use begins in the heap and has more than a byte.
WellFormed(t) ==
    \A i \in 1 .. Slots : t[i] # Unused => t[i].start >= Bottom /\ t[i].start < t[i].last

TableApart(t) ==
    \A i, j \in 1 .. Slots : i # j /\ t[i] # Unused /\ t[j] # Unused => Apart(t[i], t[j])

\* Until a block has been given that ends in the table, all end below it.
InHeap == ~ spilled => \A i \in 1 .. Slots : table[i] # Unused => table[i].last < Top

\* The search is at the bottom or right behind a block.
BehindABlock ==
    asked # 0 => \/ candidate = Bottom
                 \/ \E i \in 1 .. Slots : table[i] # Unused /\ candidate = table[i].last + 1

HeapInv == LoaderHeapTypeOK /\ WellFormed(table) /\ TableApart(table) /\ InHeap /\ BehindABlock

\* What is not in use is in nobody's way.
LEMMA UnusedNotInTheWay ==
    ASSUME NEW base \in Nat, NEW size \in Nat
    PROVE  ~ Overlaps(Unused, base, size)
BY DEF Overlaps, Unused, Upper, Lower, NoAddress

\* A candidate in front of a block that is not in its way ends in front of it.
LEMMA InFront ==
    ASSUME NEW s \in Nat, NEW l \in Nat, NEW c \in Nat, NEW n \in Nat,
           c <= s, s < l, n >= 2,
           ~ Overlaps([start |-> s, last |-> l], c, n)
    PROVE  c + n - 1 < s
BY DEF Overlaps, Upper, Lower

\* The place that Give takes is apart from every block.
LEMMA PlaceIsFree ==
    ASSUME LoaderHeapAssumption, HeapInv, asked # 0, InTheWay(table, candidate, asked) = {},
           NEW j \in 1 .. Slots, table[j] # Unused
    PROVE  Apart(table[j], [start |-> candidate, last |-> candidate + asked - 1])
<1> DEFINE s == table[j].start
           l == table[j].last
<1>1. asked \in Nat /\ asked >= 2 /\ candidate \in Nat
  BY DEF HeapInv, LoaderHeapTypeOK, LoaderHeapAssumption
<1>2. s \in Nat /\ l \in Nat /\ s < l /\ s >= Bottom /\ table[j] = [start |-> s, last |-> l]
  BY DEF HeapInv, LoaderHeapTypeOK, WellFormed
<1>3. ~ Overlaps([start |-> s, last |-> l], candidate, asked)
  <2>1. j \in DOMAIN table BY DEF HeapInv, LoaderHeapTypeOK
  <2>2. ~ Overlaps(table[j], candidate, asked) BY <2>1 DEF InTheWay
  <2> QED BY <2>2, <1>2
<1>4. candidate <= s => candidate + asked - 1 < s
  BY <1>1, <1>2, <1>3, InFront
<1>5. candidate <= s \/ l < candidate
  <2>1. CASE candidate = Bottom BY <2>1, <1>2
  <2>2. CASE \E i \in 1 .. Slots : table[i] # Unused /\ candidate = table[i].last + 1
    <3>1. PICK i \in 1 .. Slots : table[i] # Unused /\ candidate = table[i].last + 1 BY <2>2
    <3>2. table[i].last \in Nat /\ table[i].start \in Nat /\ table[i].start < table[i].last
      BY <3>1 DEF HeapInv, LoaderHeapTypeOK, WellFormed
    <3>3. CASE i = j BY <3>1, <3>3, <1>2
    <3>4. CASE i # j
      <4>1. Apart(table[i], table[j]) BY <3>1, <3>4 DEF HeapInv, TableApart
      <4> QED BY <4>1, <3>1, <3>2, <1>2 DEF Apart
    <3> QED BY <3>3, <3>4
  <2> QED BY <2>1, <2>2 DEF HeapInv, BehindABlock
<1> QED BY <1>1, <1>2, <1>4, <1>5 DEF Apart
---------------------------------------------------------------------------
LEMMA InvInit ==
    ASSUME LoaderHeapAssumption, HeapInit
    PROVE  HeapInv
<1>1. /\ table = [i \in 1 .. Slots |-> Unused] /\ asked = 0 /\ candidate = Bottom
      /\ spilled = FALSE
  BY DEF HeapInit
<1>2. LoaderHeapTypeOK
  <2>1. Unused \in [start : Nat, last : Nat] BY DEF Unused, NoAddress
  <2>2. table \in [1 .. Slots -> [start : Nat, last : Nat]] BY <1>1, <2>1
  <2>3. candidate \in Nat /\ candidate >= Bottom BY <1>1 DEF LoaderHeapAssumption
  <2>4. asked \in Sizes \cup {0} /\ spilled \in BOOLEAN BY <1>1, Zenon
  <2> QED BY <2>2, <2>3, <2>4, Zenon DEF LoaderHeapTypeOK
<1>3. WellFormed(table) /\ TableApart(table) BY <1>1 DEF WellFormed, TableApart
<1>4. InHeap /\ BehindABlock BY <1>1 DEF InHeap, BehindABlock
<1> QED BY <1>2, <1>3, <1>4 DEF HeapInv

LEMMA InvLmalloc ==
    ASSUME LoaderHeapAssumption, HeapInv, NEW size \in Sizes, Lmalloc(size)
    PROVE  HeapInv'
BY DEF Lmalloc, HeapInv, LoaderHeapTypeOK, LoaderHeapAssumption, WellFormed,
                  TableApart, InHeap, BehindABlock

LEMMA InvLookFurther ==
    ASSUME LoaderHeapAssumption, HeapInv, LookFurther
    PROVE  HeapInv'
<1>1. PICK i \in DOMAIN table : /\ IsFirst(i, InTheWay(table, candidate, asked))
                                /\ candidate' = table[i].last + 1
  BY DEF LookFurther, NextCandidates
<1>2. i \in 1 .. Slots BY DEF HeapInv, LoaderHeapTypeOK
<1>3. Overlaps(table[i], candidate, asked) BY <1>1 DEF IsFirst, InTheWay
<1>4. candidate \in Nat /\ asked \in Nat
  BY DEF HeapInv, LoaderHeapTypeOK, LoaderHeapAssumption
<1>5. table[i] # Unused BY <1>3, <1>4, UnusedNotInTheWay
<1>6. table[i].last \in Nat /\ table[i].last >= Bottom /\ Bottom \in Nat
  BY <1>2, <1>5 DEF HeapInv, LoaderHeapTypeOK, WellFormed, LoaderHeapAssumption
<1>7. LoaderHeapTypeOK' BY <1>1, <1>6 DEF LookFurther, HeapInv, LoaderHeapTypeOK
<1>8. WellFormed(table)' /\ TableApart(table)' /\ InHeap' BY DEF LookFurther, HeapInv, InHeap
<1>9. BehindABlock' BY <1>1, <1>2, <1>5 DEF LookFurther, BehindABlock
<1> QED BY <1>7, <1>8, <1>9 DEF HeapInv

LEMMA InvGive ==
    ASSUME LoaderHeapAssumption, HeapInv, Give
    PROVE  HeapInv'
<1> DEFINE block == [start |-> candidate, last |-> candidate + asked - 1]
<1>1. /\ asked \in Nat /\ asked >= 2 /\ candidate \in Nat /\ candidate >= Bottom
      /\ Bottom \in Nat /\ Bottom > 0 /\ Top \in Nat
  BY DEF Give, HeapInv, LoaderHeapTypeOK, LoaderHeapAssumption
<1>2. \A i \in 1 .. Slots :
          \/ table'[i] = table[i]
          \/ candidate < Top /\ IsFirst(i, FreeSlots(table)) /\ table'[i] = block
  BY DEF Give, Inserted, HeapInv, LoaderHeapTypeOK
<1>3. \A i, j \in 1 .. Slots :
          IsFirst(i, FreeSlots(table)) /\ IsFirst(j, FreeSlots(table)) => i = j
  BY DEF IsFirst
<1>4. block \in [start : Nat, last : Nat] BY <1>1
<1>5. LoaderHeapTypeOK'
  <2>1. table' \in [1 .. Slots -> [start : Nat, last : Nat]]
    BY <1>4 DEF Give, Inserted, HeapInv, LoaderHeapTypeOK
  <2>2. spilled' \in BOOLEAN BY DEF Give
  <2> QED BY <2>1, <2>2 DEF Give, HeapInv, LoaderHeapTypeOK
<1>6. WellFormed(table)' BY <1>1, <1>2 DEF HeapInv, WellFormed
<1>7. TableApart(table)'
  <2> SUFFICES ASSUME NEW i \in 1 .. Slots, NEW j \in 1 .. Slots, i # j,
                      table'[i] # Unused, table'[j] # Unused
               PROVE  Apart(table'[i], table'[j])
    BY DEF TableApart
  <2>1. CASE table'[i] = table[i] /\ table'[j] = table[j]
    BY <2>1 DEF HeapInv, TableApart
  <2>2. CASE candidate < Top /\ table'[i] = block /\ table'[j] = table[j]
    <3>1. Apart(table[j], block) BY <2>2, PlaceIsFree DEF Give
    <3> QED BY <3>1, <2>2 DEF Apart
  <2>3. CASE candidate < Top /\ table'[i] = table[i] /\ table'[j] = block
    <3>1. Apart(table[i], block) BY <2>3, PlaceIsFree DEF Give
    <3> QED BY <3>1, <2>3 DEF Apart
  <2> QED BY <1>2, <1>3, <2>1, <2>2, <2>3
<1>8. InHeap'
  <2> SUFFICES ASSUME ~ spilled', NEW i \in 1 .. Slots, table'[i] # Unused
               PROVE  table'[i].last < Top
    BY DEF InHeap
  <2>1. ~ spilled /\ ~ (Given # NoAddress /\ candidate + asked > Top) BY DEF Give
  <2>2. CASE table'[i] = table[i] BY <2>1, <2>2 DEF HeapInv, InHeap
  <2>3. CASE candidate < Top /\ IsFirst(i, FreeSlots(table)) /\ table'[i] = block
    <3>1. Given # NoAddress BY <1>1, <2>3 DEF Given, IsFirst, NoAddress
    <3> QED BY <1>1, <2>1, <2>3, <3>1
  <2> QED BY <1>2, <2>2, <2>3
<1>9. BehindABlock' BY DEF Give, BehindABlock
<1> QED BY <1>5, <1>6, <1>7, <1>8, <1>9 DEF HeapInv

LEMMA InvLfree ==
    ASSUME LoaderHeapAssumption, HeapInv, NEW k \in 1 .. Slots, Lfree(k)
    PROVE  HeapInv'
<1>1. \A i \in 1 .. Slots : table'[i] = table[i] \/ table'[i] = Unused
  BY DEF Lfree, Deleted, HeapInv, LoaderHeapTypeOK
<1>2. LoaderHeapTypeOK'
  <2>1. Unused \in [start : Nat, last : Nat] BY DEF Unused, NoAddress
  <2>2. table' \in [1 .. Slots -> [start : Nat, last : Nat]]
    BY <2>1 DEF Lfree, Deleted, HeapInv, LoaderHeapTypeOK
  <2> QED BY <2>2 DEF Lfree, HeapInv, LoaderHeapTypeOK
<1>3. WellFormed(table)' BY <1>1 DEF HeapInv, WellFormed
<1>4. TableApart(table)' BY <1>1 DEF HeapInv, TableApart
<1>5. InHeap' BY <1>1 DEF Lfree, HeapInv, InHeap
<1>6. BehindABlock' BY DEF Lfree, BehindABlock
<1> QED BY <1>2, <1>3, <1>4, <1>5, <1>6 DEF HeapInv

\* lmalloc and lfree keep the blocks apart, and the search at a place from
\* which its test cannot miss a block.  (__lookup_free_mem, __get_segment_size)
THEOREM HeapInvariant ==
    ASSUME LoaderHeapAssumption
    PROVE  HeapSpec => []HeapInv
<1>1. ASSUME HeapInv, [HeapNext]_heapVars PROVE HeapInv'
  <2>1. CASE \E size \in Sizes : Lmalloc(size) BY <1>1, <2>1, InvLmalloc
  <2>2. CASE LookFurther BY <1>1, <2>2, InvLookFurther
  <2>3. CASE Give BY <1>1, <2>3, InvGive
  <2>4. CASE \E i \in 1 .. Slots : Lfree(i) BY <1>1, <2>4, InvLfree
  <2>5. CASE UNCHANGED heapVars
    BY <1>1, <2>5 DEF heapVars, HeapInv, LoaderHeapTypeOK, WellFormed, TableApart, InHeap, BehindABlock
  <2> QED BY <1>1, <2>1, <2>2, <2>3, <2>4, <2>5 DEF HeapNext
<1> QED BY <1>1, InvInit, PTL DEF HeapSpec

\* Until a block has been given that ends in the table, the blocks of the loader's
\* heap lie between the bottom and the table, and no two share a byte.
\* (lmalloc, lfree)
THEOREM BlocksApartCorrect ==
    ASSUME LoaderHeapAssumption
    PROVE  HeapSpec => []BlocksApart
<1>1. HeapInv => BlocksApart BY DEF HeapInv, WellFormed, InHeap, TableApart, BlocksApart
<1> QED BY <1>1, HeapInvariant, PTL
---------------------------------------------------------------------------
(* The calls between two decisions. *)

Names == {"kernel", "setup", "table", "superblock", "context", "root", "fat"}

SizeOf == [kernel |-> KernelRoom * SectorSize, setup |-> SetupRoom * SectorSize, table |-> SectorSize,
           superblock |-> SectorSize, context |-> ContextSize, root |-> RootRoom * SectorSize,
           fat |-> FatRoom * SectorSize]

Calling == {TakeCall(x, SizeOf[x]) : x \in Names} \cup {GiveBackCall(x) : x \in Names}
           \cup {ReadFile(x) : x \in {"root", "kernel", "setup"}}

\* Which blocks are in use before a call and after it.
CallLeads(c, before, after) ==
    \/ c.do = "lmalloc" /\ c.block \notin before /\ after = before \cup {c.block}
    \/ c.do = "lfree" /\ c.block \in before /\ after = before \ {c.block}
    \/ c.do = "read" /\ c.block \in before /\ after = before

\* The calls lead from one set of blocks in use to another.
Leads(calls, before, after) ==
    /\ calls \in Seq(Calling)
    /\ \E h \in [1 .. Len(calls) + 1 -> SUBSET Names] :
          /\ h[1] = before /\ h[Len(calls) + 1] = after
          /\ \A k \in 1 .. Len(calls) : CallLeads(calls[k], h[k], h[k + 1])

\* Nothing is read, or the kernel and the setup module at the end.
NoReads(calls) == \A k \in 1 .. Len(calls) : calls[k].do # "read"

ReadsAtEnd(calls) ==
    /\ Len(calls) >= 2
    /\ calls[Len(calls) - 1] = ReadFile("kernel") /\ calls[Len(calls)] = ReadFile("setup")
    /\ \A k \in 1 .. Len(calls) - 2 : calls[k].do = "read" => calls[k].block = "root"

LEMMA LeadsOn ==
    ASSUME NEW calls, NEW before, NEW after, Leads(calls, before, after), calls # <<>>
    PROVE  /\ Head(calls) = calls[1] /\ Head(calls) \in Calling
           /\ \E now : CallLeads(Head(calls), before, now) /\ Leads(Tail(calls), now, after)
<1>1. calls \in Seq(Calling) /\ Len(calls) \in Nat /\ Len(calls) >= 1
  BY EmptySeq, LenProperties DEF Leads
<1>2. PICK h \in [1 .. Len(calls) + 1 -> SUBSET Names] :
          /\ h[1] = before /\ h[Len(calls) + 1] = after
          /\ \A k \in 1 .. Len(calls) : CallLeads(calls[k], h[k], h[k + 1])
  BY DEF Leads
<1>3. /\ Head(calls) = calls[1] /\ Head(calls) \in Calling /\ Tail(calls) \in Seq(Calling)
      /\ Len(Tail(calls)) = Len(calls) - 1
      /\ \A k \in 1 .. Len(Tail(calls)) : Tail(calls)[k] = calls[k + 1]
  BY <1>1, HeadTailProperties, ElementOfSeq
<1> DEFINE g == [k \in 1 .. Len(Tail(calls)) + 1 |-> h[k + 1]]
<1>4. g \in [1 .. Len(Tail(calls)) + 1 -> SUBSET Names]
  BY <1>1, <1>2, <1>3
<1>5. g[1] = h[2] /\ g[Len(Tail(calls)) + 1] = after
  BY <1>1, <1>2, <1>3
<1>6. \A k \in 1 .. Len(Tail(calls)) : CallLeads(Tail(calls)[k], g[k], g[k + 1])
  <2> TAKE k \in 1 .. Len(Tail(calls))
  <2>1. k + 1 \in 1 .. Len(calls) /\ Tail(calls)[k] = calls[k + 1] BY <1>1, <1>3
  <2>2. g[k] = h[k + 1] /\ g[k + 1] = h[k + 1 + 1] BY <1>1, <1>3
  <2> QED BY <1>2, <2>1, <2>2
<1> HIDE DEF g
<1>7. Leads(Tail(calls), h[2], after) BY <1>3, <1>4, <1>5, <1>6 DEF Leads
<1>8. CallLeads(Head(calls), before, h[2])
  <2>1. CallLeads(calls[1], h[1], h[1 + 1]) BY <1>1, <1>2
  <2> QED BY <1>2, <1>3, <2>1
<1> QED BY <1>3, <1>7, <1>8

\* No call is left.
LEMMA LeadsNowhere ==
    ASSUME NEW before, NEW after, Leads(<<>>, before, after)
    PROVE  before = after
BY DEF Leads
(* The programs of the loader. *)

Base == {"kernel", "setup"}
OnMounted == {"kernel", "setup", "context", "root", "fat"}

LEMMA CallingIs ==
    /\ TakeCall("kernel", KernelRoom * SectorSize) \in Calling /\ TakeCall("setup", SetupRoom * SectorSize) \in Calling
    /\ TakeCall("table", SectorSize) \in Calling /\ TakeCall("superblock", SectorSize) \in Calling
    /\ TakeCall("context", ContextSize) \in Calling /\ TakeCall("root", RootRoom * SectorSize) \in Calling
    /\ TakeCall("fat", FatRoom * SectorSize) \in Calling
    /\ \A x \in Names : GiveBackCall(x) \in Calling
    /\ \A x \in {"root", "kernel", "setup"} : ReadFile(x) \in Calling
BY DEF Calling, Names, SizeOf

LEMMA PartsAreCalls ==
    /\ GetFsType \in Seq(Calling) /\ LoadFat32Fs \in Seq(Calling) /\ TerminateFat32Fs \in Seq(Calling)
    /\ <<GiveBackCall("kernel"), GiveBackCall("setup")>> \in Seq(Calling)
    /\ <<GiveBackCall("kernel")>> \in Seq(Calling)
    /\ <<ReadFile("kernel"), ReadFile("setup")>> \in Seq(Calling)
<1>1. \A x \in Names : GiveBackCall(x) \in Calling BY CallingIs
<1>2. GetPartition \in Seq(Calling)
  BY <1>1, CallingIs DEF GetPartition, Names
<1>3. GetFsType \in Seq(Calling)
  BY <1>1, <1>2, CallingIs DEF GetFsType, Names
<1>4. LoadFat32Fs \in Seq(Calling)
  BY <1>1, <1>2, CallingIs DEF LoadFat32Fs, Names
<1>5. TerminateFat32Fs \in Seq(Calling)
  BY <1>1, CallingIs DEF TerminateFat32Fs, Names
<1>6. /\ <<GiveBackCall("kernel"), GiveBackCall("setup")>> \in Seq(Calling)
      /\ <<GiveBackCall("kernel")>> \in Seq(Calling)
      /\ <<ReadFile("kernel"), ReadFile("setup")>> \in Seq(Calling)
  BY <1>1, CallingIs DEF Names
<1> QED BY <1>3, <1>4, <1>5, <1>6

LEMMA StartLeads ==
    ASSUME NEW calls, calls = <<TakeCall("kernel", KernelRoom * SectorSize), TakeCall("setup", SetupRoom * SectorSize)>> \o GetFsType
    PROVE  Leads(calls, {}, Base) /\ NoReads(calls)
<1>1. /\ Len(calls) = 6
      /\ calls[1] = TakeCall("kernel", KernelRoom * SectorSize)
      /\ calls[2] = TakeCall("setup", SetupRoom * SectorSize)
      /\ calls[3] = TakeCall("table", SectorSize)
      /\ calls[4] = GiveBackCall("table")
      /\ calls[5] = TakeCall("superblock", SectorSize)
      /\ calls[6] = GiveBackCall("superblock")
  BY DEF GetFsType, GetPartition
<1>2. \A k \in 1 .. 6 : k = 1 \/ k = 2 \/ k = 3 \/ k = 4 \/ k = 5 \/ k = 6
  OBVIOUS
<1>3. calls \in Seq(Calling)
  BY CallingIs, PartsAreCalls
<1> DEFINE h == <<{},
                  {"kernel"},
                  {"kernel", "setup"},
                  {"kernel", "setup", "table"},
                  {"kernel", "setup"},
                  {"kernel", "setup", "superblock"},
                  {"kernel", "setup"}>>
<1>4. h \in [1 .. 6 + 1 -> SUBSET Names] /\ h[1] = {} /\ h[6 + 1] = Base
  BY DEF Names, Base, OnMounted
<1>5. \A k \in 1 .. 6 : CallLeads(calls[k], h[k], h[k + 1])
  <2>1. CallLeads(calls[1], h[1], h[1 + 1])
    BY <1>1 DEF CallLeads, TakeCall
  <2>2. CallLeads(calls[2], h[2], h[2 + 1])
    BY <1>1 DEF CallLeads, TakeCall
  <2>3. CallLeads(calls[3], h[3], h[3 + 1])
    BY <1>1 DEF CallLeads, TakeCall
  <2>4. CallLeads(calls[4], h[4], h[4 + 1])
    BY <1>1 DEF CallLeads, GiveBackCall
  <2>5. CallLeads(calls[5], h[5], h[5 + 1])
    BY <1>1 DEF CallLeads, TakeCall
  <2>6. CallLeads(calls[6], h[6], h[6 + 1])
    BY <1>1 DEF CallLeads, GiveBackCall
  <2> QED BY <1>2, <2>1, <2>2, <2>3, <2>4, <2>5, <2>6
<1> HIDE DEF h
<1>6. Leads(calls, {}, Base) BY <1>1, <1>3, <1>4, <1>5 DEF Leads
<1>7. NoReads(calls)
  <2>1. calls[1].do # "read" BY <1>1 DEF TakeCall
  <2>2. calls[2].do # "read" BY <1>1 DEF TakeCall
  <2>3. calls[3].do # "read" BY <1>1 DEF TakeCall
  <2>4. calls[4].do # "read" BY <1>1 DEF GiveBackCall
  <2>5. calls[5].do # "read" BY <1>1 DEF TakeCall
  <2>6. calls[6].do # "read" BY <1>1 DEF GiveBackCall
  <2> QED BY <1>1, <1>2, <2>1, <2>2, <2>3, <2>4, <2>5, <2>6 DEF NoReads
<1> QED BY <1>6, <1>7

LEMMA MountLeads ==
    ASSUME NEW calls, calls = LoadFat32Fs \o <<ReadFile("kernel"), ReadFile("setup")>>
    PROVE  Leads(calls, Base, OnMounted) /\ ReadsAtEnd(calls)
<1>1. /\ Len(calls) = 10
      /\ calls[1] = TakeCall("superblock", SectorSize)
      /\ calls[2] = TakeCall("context", ContextSize)
      /\ calls[3] = TakeCall("table", SectorSize)
      /\ calls[4] = GiveBackCall("table")
      /\ calls[5] = TakeCall("root", RootRoom * SectorSize)
      /\ calls[6] = TakeCall("fat", FatRoom * SectorSize)
      /\ calls[7] = ReadFile("root")
      /\ calls[8] = GiveBackCall("superblock")
      /\ calls[9] = ReadFile("kernel")
      /\ calls[10] = ReadFile("setup")
  BY DEF LoadFat32Fs, GetPartition
<1>2. \A k \in 1 .. 10 : k = 1 \/ k = 2 \/ k = 3 \/ k = 4 \/ k = 5 \/ k = 6 \/ k = 7 \/ k = 8 \/ k = 9 \/ k = 10
  OBVIOUS
<1>3. calls \in Seq(Calling)
  BY CallingIs, PartsAreCalls
<1> DEFINE h == <<{"kernel", "setup"},
                  {"kernel", "setup", "superblock"},
                  {"kernel", "setup", "superblock", "context"},
                  {"kernel", "setup", "superblock", "context", "table"},
                  {"kernel", "setup", "superblock", "context"},
                  {"kernel", "setup", "superblock", "context", "root"},
                  {"kernel", "setup", "superblock", "context", "root", "fat"},
                  {"kernel", "setup", "superblock", "context", "root", "fat"},
                  {"kernel", "setup", "context", "root", "fat"},
                  {"kernel", "setup", "context", "root", "fat"},
                  {"kernel", "setup", "context", "root", "fat"}>>
<1>4. h \in [1 .. 10 + 1 -> SUBSET Names] /\ h[1] = Base /\ h[10 + 1] = OnMounted
  BY DEF Names, Base, OnMounted
<1>5. \A k \in 1 .. 10 : CallLeads(calls[k], h[k], h[k + 1])
  <2>1. CallLeads(calls[1], h[1], h[1 + 1])
    BY <1>1 DEF CallLeads, TakeCall
  <2>2. CallLeads(calls[2], h[2], h[2 + 1])
    BY <1>1 DEF CallLeads, TakeCall
  <2>3. CallLeads(calls[3], h[3], h[3 + 1])
    BY <1>1 DEF CallLeads, TakeCall
  <2>4. CallLeads(calls[4], h[4], h[4 + 1])
    BY <1>1 DEF CallLeads, GiveBackCall
  <2>5. CallLeads(calls[5], h[5], h[5 + 1])
    BY <1>1 DEF CallLeads, TakeCall
  <2>6. CallLeads(calls[6], h[6], h[6 + 1])
    BY <1>1 DEF CallLeads, TakeCall
  <2>7. CallLeads(calls[7], h[7], h[7 + 1])
    BY <1>1 DEF CallLeads, ReadFile
  <2>8. CallLeads(calls[8], h[8], h[8 + 1])
    BY <1>1 DEF CallLeads, GiveBackCall
  <2>9. CallLeads(calls[9], h[9], h[9 + 1])
    BY <1>1 DEF CallLeads, ReadFile
  <2>10. CallLeads(calls[10], h[10], h[10 + 1])
    BY <1>1 DEF CallLeads, ReadFile
  <2> QED BY <1>2, <2>1, <2>2, <2>3, <2>4, <2>5, <2>6, <2>7, <2>8, <2>9, <2>10
<1> HIDE DEF h
<1>6. Leads(calls, Base, OnMounted) BY <1>1, <1>3, <1>4, <1>5 DEF Leads
<1>7. ReadsAtEnd(calls) BY <1>1, <1>2 DEF ReadsAtEnd, TakeCall, GiveBackCall, ReadFile
<1> QED BY <1>6, <1>7

LEMMA NextLeads ==
    ASSUME NEW calls, calls = <<>> \o GetFsType
    PROVE  Leads(calls, Base, Base) /\ NoReads(calls)
<1>1. /\ Len(calls) = 4
      /\ calls[1] = TakeCall("table", SectorSize)
      /\ calls[2] = GiveBackCall("table")
      /\ calls[3] = TakeCall("superblock", SectorSize)
      /\ calls[4] = GiveBackCall("superblock")
  BY DEF GetFsType, GetPartition
<1>2. \A k \in 1 .. 4 : k = 1 \/ k = 2 \/ k = 3 \/ k = 4
  OBVIOUS
<1>3. calls \in Seq(Calling)
  BY CallingIs, PartsAreCalls
<1> DEFINE h == <<{"kernel", "setup"},
                  {"kernel", "setup", "table"},
                  {"kernel", "setup"},
                  {"kernel", "setup", "superblock"},
                  {"kernel", "setup"}>>
<1>4. h \in [1 .. 4 + 1 -> SUBSET Names] /\ h[1] = Base /\ h[4 + 1] = Base
  BY DEF Names, Base, OnMounted
<1>5. \A k \in 1 .. 4 : CallLeads(calls[k], h[k], h[k + 1])
  <2>1. CallLeads(calls[1], h[1], h[1 + 1])
    BY <1>1 DEF CallLeads, TakeCall
  <2>2. CallLeads(calls[2], h[2], h[2 + 1])
    BY <1>1 DEF CallLeads, GiveBackCall
  <2>3. CallLeads(calls[3], h[3], h[3 + 1])
    BY <1>1 DEF CallLeads, TakeCall
  <2>4. CallLeads(calls[4], h[4], h[4 + 1])
    BY <1>1 DEF CallLeads, GiveBackCall
  <2> QED BY <1>2, <2>1, <2>2, <2>3, <2>4
<1> HIDE DEF h
<1>6. Leads(calls, Base, Base) BY <1>1, <1>3, <1>4, <1>5 DEF Leads
<1>7. NoReads(calls)
  <2>1. calls[1].do # "read" BY <1>1 DEF TakeCall
  <2>2. calls[2].do # "read" BY <1>1 DEF GiveBackCall
  <2>3. calls[3].do # "read" BY <1>1 DEF TakeCall
  <2>4. calls[4].do # "read" BY <1>1 DEF GiveBackCall
  <2> QED BY <1>1, <1>2, <2>1, <2>2, <2>3, <2>4 DEF NoReads
<1> QED BY <1>6, <1>7

LEMMA TerminateLeads ==
    ASSUME NEW calls, calls = TerminateFat32Fs \o GetFsType
    PROVE  Leads(calls, OnMounted, Base) /\ NoReads(calls)
<1>1. /\ Len(calls) = 7
      /\ calls[1] = GiveBackCall("root")
      /\ calls[2] = GiveBackCall("fat")
      /\ calls[3] = GiveBackCall("context")
      /\ calls[4] = TakeCall("table", SectorSize)
      /\ calls[5] = GiveBackCall("table")
      /\ calls[6] = TakeCall("superblock", SectorSize)
      /\ calls[7] = GiveBackCall("superblock")
  BY DEF TerminateFat32Fs, GetFsType, GetPartition
<1>2. \A k \in 1 .. 7 : k = 1 \/ k = 2 \/ k = 3 \/ k = 4 \/ k = 5 \/ k = 6 \/ k = 7
  OBVIOUS
<1>3. calls \in Seq(Calling)
  BY CallingIs, PartsAreCalls
<1> DEFINE h == <<{"kernel", "setup", "context", "root", "fat"},
                  {"kernel", "setup", "context", "fat"},
                  {"kernel", "setup", "context"},
                  {"kernel", "setup"},
                  {"kernel", "setup", "table"},
                  {"kernel", "setup"},
                  {"kernel", "setup", "superblock"},
                  {"kernel", "setup"}>>
<1>4. h \in [1 .. 7 + 1 -> SUBSET Names] /\ h[1] = OnMounted /\ h[7 + 1] = Base
  BY DEF Names, Base, OnMounted
<1>5. \A k \in 1 .. 7 : CallLeads(calls[k], h[k], h[k + 1])
  <2>1. CallLeads(calls[1], h[1], h[1 + 1])
    BY <1>1 DEF CallLeads, GiveBackCall
  <2>2. CallLeads(calls[2], h[2], h[2 + 1])
    BY <1>1 DEF CallLeads, GiveBackCall
  <2>3. CallLeads(calls[3], h[3], h[3 + 1])
    BY <1>1 DEF CallLeads, GiveBackCall
  <2>4. CallLeads(calls[4], h[4], h[4 + 1])
    BY <1>1 DEF CallLeads, TakeCall
  <2>5. CallLeads(calls[5], h[5], h[5 + 1])
    BY <1>1 DEF CallLeads, GiveBackCall
  <2>6. CallLeads(calls[6], h[6], h[6 + 1])
    BY <1>1 DEF CallLeads, TakeCall
  <2>7. CallLeads(calls[7], h[7], h[7 + 1])
    BY <1>1 DEF CallLeads, GiveBackCall
  <2> QED BY <1>2, <2>1, <2>2, <2>3, <2>4, <2>5, <2>6, <2>7
<1> HIDE DEF h
<1>6. Leads(calls, OnMounted, Base) BY <1>1, <1>3, <1>4, <1>5 DEF Leads
<1>7. NoReads(calls)
  <2>1. calls[1].do # "read" BY <1>1 DEF GiveBackCall
  <2>2. calls[2].do # "read" BY <1>1 DEF GiveBackCall
  <2>3. calls[3].do # "read" BY <1>1 DEF GiveBackCall
  <2>4. calls[4].do # "read" BY <1>1 DEF TakeCall
  <2>5. calls[5].do # "read" BY <1>1 DEF GiveBackCall
  <2>6. calls[6].do # "read" BY <1>1 DEF TakeCall
  <2>7. calls[7].do # "read" BY <1>1 DEF GiveBackCall
  <2> QED BY <1>1, <1>2, <2>1, <2>2, <2>3, <2>4, <2>5, <2>6, <2>7 DEF NoReads
<1> QED BY <1>6, <1>7

LEMMA GiveUpLeads ==
    ASSUME NEW calls, calls = <<>> \o <<GiveBackCall("kernel"), GiveBackCall("setup")>>
    PROVE  Leads(calls, Base, {}) /\ NoReads(calls)
<1>1. /\ Len(calls) = 2
      /\ calls[1] = GiveBackCall("kernel")
      /\ calls[2] = GiveBackCall("setup")
  OBVIOUS
<1>2. \A k \in 1 .. 2 : k = 1 \/ k = 2
  OBVIOUS
<1>3. calls \in Seq(Calling)
  BY CallingIs, PartsAreCalls
<1> DEFINE h == <<{"kernel", "setup"},
                  {"setup"},
                  {}>>
<1>4. h \in [1 .. 2 + 1 -> SUBSET Names] /\ h[1] = Base /\ h[2 + 1] = {}
  BY DEF Names, Base, OnMounted
<1>5. \A k \in 1 .. 2 : CallLeads(calls[k], h[k], h[k + 1])
  <2>1. CallLeads(calls[1], h[1], h[1 + 1])
    BY <1>1 DEF CallLeads, GiveBackCall
  <2>2. CallLeads(calls[2], h[2], h[2 + 1])
    BY <1>1 DEF CallLeads, GiveBackCall
  <2> QED BY <1>2, <2>1, <2>2
<1> HIDE DEF h
<1>6. Leads(calls, Base, {}) BY <1>1, <1>3, <1>4, <1>5 DEF Leads
<1>7. NoReads(calls)
  <2>1. calls[1].do # "read" BY <1>1 DEF GiveBackCall
  <2>2. calls[2].do # "read" BY <1>1 DEF GiveBackCall
  <2> QED BY <1>1, <1>2, <2>1, <2>2 DEF NoReads
<1> QED BY <1>6, <1>7

LEMMA TerminateGiveUpLeads ==
    ASSUME NEW calls, calls = TerminateFat32Fs \o <<GiveBackCall("kernel"), GiveBackCall("setup")>>
    PROVE  Leads(calls, OnMounted, {}) /\ NoReads(calls)
<1>1. /\ Len(calls) = 5
      /\ calls[1] = GiveBackCall("root")
      /\ calls[2] = GiveBackCall("fat")
      /\ calls[3] = GiveBackCall("context")
      /\ calls[4] = GiveBackCall("kernel")
      /\ calls[5] = GiveBackCall("setup")
  BY DEF TerminateFat32Fs
<1>2. \A k \in 1 .. 5 : k = 1 \/ k = 2 \/ k = 3 \/ k = 4 \/ k = 5
  OBVIOUS
<1>3. calls \in Seq(Calling)
  BY CallingIs, PartsAreCalls
<1> DEFINE h == <<{"kernel", "setup", "context", "root", "fat"},
                  {"kernel", "setup", "context", "fat"},
                  {"kernel", "setup", "context"},
                  {"kernel", "setup"},
                  {"setup"},
                  {}>>
<1>4. h \in [1 .. 5 + 1 -> SUBSET Names] /\ h[1] = OnMounted /\ h[5 + 1] = {}
  BY DEF Names, Base, OnMounted
<1>5. \A k \in 1 .. 5 : CallLeads(calls[k], h[k], h[k + 1])
  <2>1. CallLeads(calls[1], h[1], h[1 + 1])
    BY <1>1 DEF CallLeads, GiveBackCall
  <2>2. CallLeads(calls[2], h[2], h[2 + 1])
    BY <1>1 DEF CallLeads, GiveBackCall
  <2>3. CallLeads(calls[3], h[3], h[3 + 1])
    BY <1>1 DEF CallLeads, GiveBackCall
  <2>4. CallLeads(calls[4], h[4], h[4 + 1])
    BY <1>1 DEF CallLeads, GiveBackCall
  <2>5. CallLeads(calls[5], h[5], h[5 + 1])
    BY <1>1 DEF CallLeads, GiveBackCall
  <2> QED BY <1>2, <2>1, <2>2, <2>3, <2>4, <2>5
<1> HIDE DEF h
<1>6. Leads(calls, OnMounted, {}) BY <1>1, <1>3, <1>4, <1>5 DEF Leads
<1>7. NoReads(calls)
  <2>1. calls[1].do # "read" BY <1>1 DEF GiveBackCall
  <2>2. calls[2].do # "read" BY <1>1 DEF GiveBackCall
  <2>3. calls[3].do # "read" BY <1>1 DEF GiveBackCall
  <2>4. calls[4].do # "read" BY <1>1 DEF GiveBackCall
  <2>5. calls[5].do # "read" BY <1>1 DEF GiveBackCall
  <2> QED BY <1>1, <1>2, <2>1, <2>2, <2>3, <2>4, <2>5 DEF NoReads
<1> QED BY <1>6, <1>7

LEMMA BootLeads ==
    ASSUME NEW calls, calls = TerminateFat32Fs \o <<GiveBackCall("kernel")>>
    PROVE  Leads(calls, OnMounted, {"setup"}) /\ NoReads(calls)
           /\ \A k \in 1 .. Len(calls) : calls[k].block # "setup"
<1>1. /\ Len(calls) = 4
      /\ calls[1] = GiveBackCall("root")
      /\ calls[2] = GiveBackCall("fat")
      /\ calls[3] = GiveBackCall("context")
      /\ calls[4] = GiveBackCall("kernel")
  BY DEF TerminateFat32Fs
<1>2. \A k \in 1 .. 4 : k = 1 \/ k = 2 \/ k = 3 \/ k = 4
  OBVIOUS
<1>3. calls \in Seq(Calling)
  BY CallingIs, PartsAreCalls
<1> DEFINE h == <<{"kernel", "setup", "context", "root", "fat"},
                  {"kernel", "setup", "context", "fat"},
                  {"kernel", "setup", "context"},
                  {"kernel", "setup"},
                  {"setup"}>>
<1>4. h \in [1 .. 4 + 1 -> SUBSET Names] /\ h[1] = OnMounted /\ h[4 + 1] = {"setup"}
  BY DEF Names, Base, OnMounted
<1>5. \A k \in 1 .. 4 : CallLeads(calls[k], h[k], h[k + 1])
  <2>1. CallLeads(calls[1], h[1], h[1 + 1])
    BY <1>1 DEF CallLeads, GiveBackCall
  <2>2. CallLeads(calls[2], h[2], h[2 + 1])
    BY <1>1 DEF CallLeads, GiveBackCall
  <2>3. CallLeads(calls[3], h[3], h[3 + 1])
    BY <1>1 DEF CallLeads, GiveBackCall
  <2>4. CallLeads(calls[4], h[4], h[4 + 1])
    BY <1>1 DEF CallLeads, GiveBackCall
  <2> QED BY <1>2, <2>1, <2>2, <2>3, <2>4
<1> HIDE DEF h
<1>6. Leads(calls, OnMounted, {"setup"}) BY <1>1, <1>3, <1>4, <1>5 DEF Leads
<1>7. NoReads(calls)
  <2>1. calls[1].do # "read" BY <1>1 DEF GiveBackCall
  <2>2. calls[2].do # "read" BY <1>1 DEF GiveBackCall
  <2>3. calls[3].do # "read" BY <1>1 DEF GiveBackCall
  <2>4. calls[4].do # "read" BY <1>1 DEF GiveBackCall
  <2> QED BY <1>1, <1>2, <2>1, <2>2, <2>3, <2>4 DEF NoReads
<1>8. \A k \in 1 .. Len(calls) : calls[k].block # "setup"
  BY <1>1, <1>2 DEF GiveBackCall
<1> QED BY <1>6, <1>7, <1>8

---------------------------------------------------------------------------
(* The invariant. *)

\* The table holds the blocks in use and nothing else.
Linked ==
    /\ DOMAIN blocks \subseteq Names
    /\ \A x \in DOMAIN blocks :
          /\ blocks[x] \in Nat /\ blocks[x] >= Bottom
          /\ \E i \in 1 .. Slots : table[i] = [start |-> blocks[x], last |-> blocks[x] + SizeOf[x] - 1]
    /\ \A i \in 1 .. Slots :
          table[i] # Unused => \E x \in DOMAIN blocks : table[i].start = blocks[x]
    /\ \A x, y \in DOMAIN blocks : blocks[x] = blocks[y] => x = y

\* lmalloc looks for the block that is to be taken.
Asking == asked # 0 => todo # <<>> /\ Head(todo).do = "lmalloc" /\ asked = Head(todo).size

\* The file is in its block.
FileIn(file) ==
    \A n \in 0 .. disk[partition][file] - 1 :
        /\ blocks[file] + SectorSize * n \in DOMAIN filled
        /\ filled[blocks[file] + SectorSize * n] = <<partition, file, n>>

CanBoot(p) == Mountable(p) /\ HasBoth(p)

\* No partition before this one can be booted.
InTurn == /\ partition \in 1 .. Partitions
          /\ \A q \in 1 .. partition - 1 : ~ CanBoot(q)

\* What the loader knows of the files it reads.
Reading ==
    \/ ReadsAtEnd(todo) /\ status = <<>>
    \/ /\ todo = <<ReadFile("setup")>>
       /\ status = <<disk[partition].kernel > 0>> /\ FileIn("kernel")
    \/ /\ todo = <<>>
       /\ status = <<disk[partition].kernel > 0, disk[partition].setup > 0>>
       /\ FileIn("kernel") /\ FileIn("setup")

Unmounted == /\ result = None /\ InTurn /\ status = <<>>
             /\ Leads(todo, DOMAIN blocks, Base) /\ NoReads(todo)

Mounting == /\ result = None /\ InTurn /\ IsFat32
            /\ Leads(todo, DOMAIN blocks, OnMounted) /\ Reading

GivenUp == /\ result = Failed /\ status = <<>> /\ partition = Partitions + 1
           /\ \A q \in 1 .. Partitions : ~ CanBoot(q)
           /\ Leads(todo, DOMAIN blocks, {}) /\ NoReads(todo)

Booted == /\ result.status = "true" /\ InTurn /\ CanBoot(partition)
          /\ status = <<disk[partition].kernel > 0, disk[partition].setup > 0>>
          /\ result.kernel = FileOf(partition, "kernel")
          /\ "setup" \in DOMAIN blocks /\ result.setup = blocks["setup"] /\ FileIn("setup")
          /\ Leads(todo, DOMAIN blocks, {"setup"}) /\ NoReads(todo)
          /\ \A k \in 1 .. Len(todo) : todo[k].block # "setup"

Phase == Unmounted \/ Mounting \/ GivenUp \/ Booted

LoadInv == /\ HeapInv /\ disk \in [1 .. Partitions -> Contents] /\ Linked /\ Asking /\ Phase

\* Some calls are left or none, and they are calls.
LEMMA PhaseLeads ==
    ASSUME Phase
    PROVE  \E after : Leads(todo, DOMAIN blocks, after)
BY DEF Phase, Unmounted, Mounting, GivenUp, Booted

LEMMA CallIs ==
    ASSUME NEW c \in Calling
    PROVE  /\ c.do = "lmalloc" => c.block \in Names /\ c.size = SizeOf[c.block]
           /\ c.do = "lfree" => c.block \in Names
           /\ c.do = "read" => \E f \in {"root", "kernel", "setup"} : c = ReadFile(f)
BY DEF Calling, TakeCall, GiveBackCall, ReadFile

LEMMA HeapIs ==
    ASSUME LoadKernelAssumption
    PROVE  /\ LoaderHeapAssumption /\ Bottom \in Nat /\ Bottom > 0 /\ Top \in Nat
           /\ Slots \in Nat
<1>1. LoaderHeapAssumption BY DEF LoadKernelAssumption
<1> QED BY <1>1 DEF LoaderHeapAssumption

LEMMA SizesFit ==
    ASSUME LoadKernelAssumption, NEW x \in Names
    PROVE  SizeOf[x] \in Sizes /\ SizeOf[x] \in Nat /\ SizeOf[x] >= 2
<1>1. SizeOf[x] \in Sizes BY DEF LoadKernelAssumption, Names, SizeOf
<1> QED BY <1>1 DEF LoadKernelAssumption, LoaderHeapAssumption

\* A call leads to one set of blocks only.
LEMMA CallLeadsOnce ==
    ASSUME NEW c, NEW before, NEW after, NEW other,
           CallLeads(c, before, after), CallLeads(c, before, other)
    PROVE  after = other
BY DEF CallLeads

LEMMA NoReadsOn ==
    ASSUME NEW calls \in Seq(Calling), calls # <<>>
    PROVE  /\ Len(Tail(calls)) = Len(calls) - 1 /\ Len(calls) \in Nat /\ Len(calls) >= 1
           /\ \A k \in 1 .. Len(Tail(calls)) : k + 1 \in 1 .. Len(calls) /\ Tail(calls)[k] = calls[k + 1]
           /\ Head(calls) = calls[1] /\ 1 \in 1 .. Len(calls)
<1>1. Len(calls) \in Nat /\ Len(calls) >= 1 BY EmptySeq, LenProperties
<1> QED BY <1>1, HeadTailProperties

LEMMA ReadsAtEndOn ==
    ASSUME NEW calls \in Seq(Calling), ReadsAtEnd(calls), Len(calls) > 2
    PROVE  ReadsAtEnd(Tail(calls)) /\ (Head(calls).do = "read" => Head(calls).block = "root")
<1>1. calls # <<>> /\ Len(calls) \in Nat BY LenProperties, EmptySeq
<1>2. /\ Len(Tail(calls)) = Len(calls) - 1
      /\ \A k \in 1 .. Len(Tail(calls)) : Tail(calls)[k] = calls[k + 1]
      /\ Head(calls) = calls[1]
  BY <1>1, NoReadsOn
<1>3. /\ Tail(calls)[Len(Tail(calls)) - 1] = calls[Len(calls) - 1]
      /\ Tail(calls)[Len(Tail(calls))] = calls[Len(calls)]
  BY <1>1, <1>2
<1>4. \A k \in 1 .. Len(Tail(calls)) - 2 :
          k + 1 \in 1 .. Len(calls) - 2 /\ Tail(calls)[k] = calls[k + 1]
  BY <1>1, <1>2
<1>5. 1 \in 1 .. Len(calls) - 2 BY <1>1
<1> QED BY <1>1, <1>2, <1>3, <1>4, <1>5 DEF ReadsAtEnd

\* A block that is taken or given back changes nothing else.
LEMMA PhaseGoesOn ==
    ASSUME Phase, todo # <<>>, Head(todo).do # "read", todo' = Tail(todo),
           CallLeads(Head(todo), DOMAIN blocks, DOMAIN blocks'),
           \A x \in DOMAIN blocks : x # Head(todo).block => x \in DOMAIN blocks' /\ blocks'[x] = blocks[x],
           UNCHANGED <<disk, partition, filled, status, result>>
    PROVE  Phase'
<1>1. PICK after : Leads(todo, DOMAIN blocks, after) BY PhaseLeads
<1>2. todo \in Seq(Calling) BY <1>1 DEF Leads
<1>3. /\ Len(Tail(todo)) = Len(todo) - 1 /\ Len(todo) \in Nat /\ Len(todo) >= 1
      /\ \A k \in 1 .. Len(Tail(todo)) : k + 1 \in 1 .. Len(todo) /\ Tail(todo)[k] = todo[k + 1]
      /\ Head(todo) = todo[1] /\ 1 \in 1 .. Len(todo)
  BY <1>2, NoReadsOn
<1>4. ASSUME NEW final, Leads(todo, DOMAIN blocks, final)
      PROVE  Leads(todo', DOMAIN blocks', final)
  <2>1. PICK now : CallLeads(Head(todo), DOMAIN blocks, now) /\ Leads(Tail(todo), now, final)
    BY <1>4, LeadsOn
  <2>2. now = DOMAIN blocks' BY <2>1, CallLeadsOnce
  <2> QED BY <2>1, <2>2
<1>5. NoReads(todo) => NoReads(todo') BY <1>3 DEF NoReads
<1>6. InTurn => InTurn' BY DEF InTurn, CanBoot, Mountable, HasBoth
<1>7. CASE Unmounted
  <2>1. Leads(todo', DOMAIN blocks', Base) BY <1>4, <1>7 DEF Unmounted
  <2> QED BY <1>5, <1>6, <1>7, <2>1 DEF Unmounted, Phase
<1>8. CASE Mounting
  <2>1. Leads(todo', DOMAIN blocks', OnMounted) BY <1>4, <1>8 DEF Mounting
  <2>2. todo # <<ReadFile("setup")>>
    <3>1. Head(<<ReadFile("setup")>>) = ReadFile("setup") OBVIOUS
    <3> QED BY <3>1 DEF ReadFile
  <2>3. ReadsAtEnd(todo) /\ status = <<>> BY <1>8, <2>2 DEF Mounting, Reading
  <2>4. Len(todo) > 2
    <3>1. Len(todo) # 2 BY <1>3, <2>3 DEF ReadsAtEnd, ReadFile
    <3> QED BY <1>3, <2>3, <3>1 DEF ReadsAtEnd
  <2>5. ReadsAtEnd(todo') BY <1>2, <2>3, <2>4, ReadsAtEndOn
  <2>6. Reading' BY <2>3, <2>5 DEF Reading
  <2>7. IsFat32' BY <1>8 DEF Mounting, IsFat32
  <2> QED BY <1>6, <1>8, <2>1, <2>6, <2>7 DEF Mounting, Phase
<1>9. CASE GivenUp
  <2>1. Leads(todo', DOMAIN blocks', {}) BY <1>4, <1>9 DEF GivenUp
  <2> QED BY <1>5, <1>9, <2>1 DEF GivenUp, Phase, CanBoot, Mountable, HasBoth
<1>10. CASE Booted
  <2>1. Leads(todo', DOMAIN blocks', {"setup"}) BY <1>4, <1>10 DEF Booted
  <2>2. "setup" \in DOMAIN blocks' /\ blocks'["setup"] = blocks["setup"]
    BY <1>3, <1>10 DEF Booted
  <2>3. \A k \in 1 .. Len(todo') : todo'[k].block # "setup" BY <1>3, <1>10 DEF Booted
  <2>4. FileIn("setup")' BY <1>10, <2>2 DEF Booted, FileIn
  <2>5. result'.kernel = FileOf(partition, "kernel")' BY <1>10 DEF Booted, FileOf
  <2>6. CanBoot(partition)' BY <1>10 DEF Booted, CanBoot, Mountable, HasBoth
  <2>7. NoReads(todo)' BY <1>5, <1>10 DEF Booted
  <2> QED BY <1>6, <1>10, <2>1, <2>2, <2>3, <2>4, <2>5, <2>6, <2>7 DEF Booted, Phase
<1> QED BY <1>7, <1>8, <1>9, <1>10 DEF Phase

---------------------------------------------------------------------------
(* The steps of the heap. *)

\* With everything else as it is.
LEMMA PhaseStays ==
    ASSUME Phase, UNCHANGED loadVars
    PROVE  Phase'
<1>1. UNCHANGED <<disk, partition, todo, blocks, filled, status, result>> BY DEF loadVars
<1>2. InTurn => InTurn' BY <1>1 DEF InTurn, CanBoot, Mountable, HasBoth
<1>3. \A file : FileIn(file) => FileIn(file)' BY <1>1 DEF FileIn
<1>4. Unmounted => Unmounted' BY <1>1, <1>2 DEF Unmounted
<1>5. Mounting => Mounting'
  <2>1. Reading => Reading' BY <1>1, <1>3 DEF Reading
  <2> QED BY <1>1, <1>2, <2>1 DEF Mounting, IsFat32
<1>6. GivenUp => GivenUp' BY <1>1 DEF GivenUp, CanBoot, Mountable, HasBoth
<1>7. Booted => Booted'
  <2>1. FileOf(partition, "kernel")' = FileOf(partition, "kernel") BY <1>1 DEF FileOf
  <2>2. CanBoot(partition)' = CanBoot(partition) BY <1>1 DEF CanBoot, Mountable, HasBoth
  <2> QED BY <1>1, <1>2, <1>3, <2>1, <2>2 DEF Booted
<1> QED BY <1>4, <1>5, <1>6, <1>7 DEF Phase

LEMMA CallLmallocKeeps ==
    ASSUME LoadKernelAssumption, LoadInv, CallLmalloc
    PROVE  LoadInv'
<1>1. PICK after : Leads(todo, DOMAIN blocks, after) BY PhaseLeads DEF LoadInv
<1>2. todo # <<>> /\ Head(todo).do = "lmalloc" BY DEF CallLmalloc, Calls
<1>3. Head(todo) \in Calling BY <1>1, <1>2, LeadsOn
<1>4. Head(todo).size \in Sizes BY <1>2, <1>3, CallIs, SizesFit
<1>5. Lmalloc(Head(todo).size) /\ UNCHANGED loadVars BY DEF CallLmalloc
<1>6. HeapInv' BY <1>4, <1>5, InvLmalloc DEF LoadInv, LoadKernelAssumption
<1>7. Linked' BY <1>5 DEF LoadInv, Linked, Lmalloc, loadVars
<1>8. Asking' BY <1>2, <1>5 DEF Asking, Lmalloc, loadVars
<1>9. Phase' BY <1>5, PhaseStays DEF LoadInv
<1> QED BY <1>5, <1>6, <1>7, <1>8, <1>9 DEF LoadInv, loadVars

LEMMA SearchOnKeeps ==
    ASSUME LoadKernelAssumption, LoadInv, SearchOn
    PROVE  LoadInv'
<1>1. LookFurther /\ UNCHANGED loadVars BY DEF SearchOn
<1>2. HeapInv' BY <1>1, InvLookFurther DEF LoadInv, LoadKernelAssumption
<1>3. Linked' BY <1>1 DEF LoadInv, Linked, LookFurther, loadVars
<1>4. Asking' BY <1>1 DEF LoadInv, Asking, LookFurther, loadVars
<1>5. Phase' BY <1>1, PhaseStays DEF LoadInv
<1> QED BY <1>1, <1>2, <1>3, <1>4, <1>5 DEF LoadInv, loadVars

\* The block that is given goes to the first slot that is free.
LEMMA SlotIsFree ==
    ASSUME LoadKernelAssumption, HeapInv, Given # NoAddress
    PROVE  /\ \E i \in 1 .. Slots : IsFirst(i, FreeSlots(table))
           /\ candidate < Top /\ Given = candidate
<1>1. Slots \in Nat /\ DOMAIN table = 1 .. Slots
  BY HeapIs DEF HeapInv, LoaderHeapTypeOK
<1>2. FreeSlots(table) # {} /\ candidate < Top /\ Given = candidate BY DEF Given
<1>3. FreeSlots(table) \subseteq 1 .. Slots /\ FreeSlots(table) \subseteq Nat
  BY <1>1 DEF FreeSlots
<1>4. PICK i \in FreeSlots(table) : \A j \in FreeSlots(table) : ~ (j < i)
  BY <1>2, <1>3, LeastNumber
<1>5. IsFirst(i, FreeSlots(table)) BY <1>3, <1>4 DEF IsFirst
<1> QED BY <1>2, <1>3, <1>5

\* Different slots have blocks that begin at different places.
LEMMA StartsDiffer ==
    ASSUME HeapInv, NEW i \in 1 .. Slots, NEW j \in 1 .. Slots, table[i] # Unused,
           table[j] # Unused, table[i].start = table[j].start
    PROVE  i = j
<1> SUFFICES ASSUME i # j PROVE FALSE OBVIOUS
<1>1. Apart(table[i], table[j]) BY DEF HeapInv, TableApart
<1>2. /\ table[i].start < table[i].last /\ table[j].start < table[j].last
      /\ table[i] \in [start : Nat, last : Nat] /\ table[j] \in [start : Nat, last : Nat]
  BY DEF HeapInv, WellFormed, LoaderHeapTypeOK
<1> QED BY <1>1, <1>2 DEF Apart

LEMMA LmallocReturnsKeeps ==
    ASSUME LoadKernelAssumption, LoadInv, LmallocReturns, Given # NoAddress
    PROVE  LoadInv'
<1> DEFINE x == Head(todo).block
<1>1. /\ Give /\ todo' = Tail(todo) /\ UNCHANGED <<disk, partition, filled, status, result>>
      /\ blocks' = [name \in DOMAIN blocks \cup {x} |-> IF name = x THEN Given ELSE blocks[name]]
  BY DEF LmallocReturns
<1>2. asked # 0 /\ todo # <<>> /\ Head(todo).do = "lmalloc" /\ asked = Head(todo).size
  BY <1>1 DEF Give, LoadInv, Asking
<1>3. PICK after : Leads(todo, DOMAIN blocks, after) BY PhaseLeads DEF LoadInv
<1>4. x \in Names /\ asked = SizeOf[x] /\ asked \in Nat /\ asked >= 2
  <2>1. Head(todo) \in Calling BY <1>2, <1>3, LeadsOn
  <2>2. x \in Names /\ asked = SizeOf[x] BY <1>2, <2>1, CallIs
  <2> QED BY <2>2, SizesFit
<1>5. x \notin DOMAIN blocks
  <2>1. PICK now : CallLeads(Head(todo), DOMAIN blocks, now) BY <1>2, <1>3, LeadsOn
  <2> QED BY <1>2, <2>1 DEF CallLeads
<1> HIDE DEF x
<1>6. /\ DOMAIN blocks' = DOMAIN blocks \cup {x} /\ blocks'[x] = candidate
      /\ \A y \in DOMAIN blocks : blocks'[y] = blocks[y]
  BY <1>1, <1>5, SlotIsFree DEF LoadInv
<1>7. HeapInv' BY <1>1, InvGive DEF LoadInv, LoadKernelAssumption
<1>8. asked' = 0 BY <1>1 DEF Give
<1>9. PICK s \in 1 .. Slots : IsFirst(s, FreeSlots(table))
  BY SlotIsFree DEF LoadInv
<1> DEFINE block == [start |-> candidate, last |-> candidate + asked - 1]
<1>10. DOMAIN table = 1 .. Slots /\ candidate \in Nat /\ candidate >= Bottom /\ Bottom \in Nat /\ Bottom > 0
  BY <1>1, HeapIs DEF LoadInv, HeapInv, LoaderHeapTypeOK
<1>11. /\ table'[s] = block /\ table[s] = Unused
       /\ \A i \in 1 .. Slots : i # s => table'[i] = table[i]
  <2>1. \A i \in 1 .. Slots : IsFirst(i, FreeSlots(table)) => i = s
    BY <1>9 DEF IsFirst
  <2>2. table' = Inserted(table, candidate, asked) BY <1>1, SlotIsFree DEF Give, LoadInv
  <2> QED BY <1>9, <1>10, <2>1, <2>2 DEF Inserted, IsFirst, FreeSlots
<1>12. block # Unused BY <1>10 DEF Unused, NoAddress
<1>13. Linked'
  <2>1. Linked BY DEF LoadInv
  <2>2. DOMAIN blocks' \subseteq Names BY <1>4, <1>6, <2>1 DEF Linked
  <2>3. ASSUME NEW y \in DOMAIN blocks'
        PROVE  /\ blocks'[y] \in Nat /\ blocks'[y] >= Bottom
               /\ \E i \in 1 .. Slots : table'[i] = [start |-> blocks'[y], last |-> blocks'[y] + SizeOf[y] - 1]
    <3>1. CASE y = x BY <1>4, <1>6, <1>10, <1>11, <3>1
    <3>2. CASE y # x
      <4>1. y \in DOMAIN blocks /\ blocks'[y] = blocks[y] BY <1>6, <3>2
      <4>2. /\ blocks[y] \in Nat /\ blocks[y] >= Bottom
            /\ \E i \in 1 .. Slots : table[i] = [start |-> blocks[y], last |-> blocks[y] + SizeOf[y] - 1]
        BY <2>1, <4>1 DEF Linked
      <4>3. PICK i \in 1 .. Slots : table[i] = [start |-> blocks[y], last |-> blocks[y] + SizeOf[y] - 1]
        BY <4>2
      <4>4. i # s
        <5>1. table[i].start > 0 BY <1>10, <4>2, <4>3
        <5> QED BY <1>11, <5>1 DEF Unused, NoAddress
      <4> QED BY <1>11, <4>1, <4>2, <4>3, <4>4
    <3> QED BY <3>1, <3>2
  <2>4. ASSUME NEW i \in 1 .. Slots, table'[i] # Unused
        PROVE  \E y \in DOMAIN blocks' : table'[i].start = blocks'[y]
    <3>1. CASE i = s
      <4>1. table'[i].start = candidate BY <1>11, <3>1
      <4> QED BY <1>6, <4>1
    <3>2. CASE i # s
      <4>1. PICK y \in DOMAIN blocks : table[i].start = blocks[y]
        BY <1>11, <2>1, <2>4, <3>2 DEF Linked
      <4> QED BY <1>6, <1>11, <3>2, <4>1
    <3> QED BY <3>1, <3>2
  <2>5. ASSUME NEW y \in DOMAIN blocks PROVE blocks[y] # candidate
    <3>1. PICK i \in 1 .. Slots : table[i] = [start |-> blocks[y], last |-> blocks[y] + SizeOf[y] - 1]
      BY <2>1 DEF Linked
    <3>2. i # s /\ table[i] # Unused
      <4>1. blocks[y] \in Nat /\ blocks[y] >= Bottom BY <2>1 DEF Linked
      <4>2. table[i].start > 0 BY <1>10, <3>1, <4>1
      <4> QED BY <1>11, <4>2 DEF Unused, NoAddress
    <3>3. SUFFICES ASSUME blocks[y] = candidate PROVE FALSE OBVIOUS
    <3>4. table'[i].start = table'[s].start /\ table'[i] # Unused /\ table'[s] # Unused
      BY <1>11, <1>12, <3>1, <3>2, <3>3
    <3>5. \A k, l \in 1 .. Slots :
              k # l /\ table'[k] # Unused /\ table'[l] # Unused => Apart(table'[k], table'[l])
      BY <1>7 DEF HeapInv, TableApart
    <3>6. /\ table'[i].start < table'[i].last /\ table'[s].start < table'[s].last
          /\ table'[i] \in [start : Nat, last : Nat] /\ table'[s] \in [start : Nat, last : Nat]
      BY <1>7, <3>4 DEF HeapInv, WellFormed, LoaderHeapTypeOK
    <3> QED BY <3>2, <3>4, <3>5, <3>6 DEF Apart
  <2>6. \A y, z \in DOMAIN blocks' : blocks'[y] = blocks'[z] => y = z
    BY <1>6, <2>1, <2>5 DEF Linked
  <2> QED BY <2>2, <2>3, <2>4, <2>6 DEF Linked
<1>14. Phase'
  <2>1. CallLeads(Head(todo), DOMAIN blocks, DOMAIN blocks')
    BY <1>2, <1>5, <1>6 DEF CallLeads, x
  <2> QED BY <1>1, <1>2, <1>6, <2>1, PhaseGoesOn DEF LoadInv
<1>15. Asking' BY <1>8 DEF Asking
<1> QED BY <1>1, <1>7, <1>13, <1>14, <1>15 DEF LoadInv

LEMMA CallLfreeKeeps ==
    ASSUME LoadKernelAssumption, LoadInv, CallLfree
    PROVE  LoadInv'
<1> DEFINE x == Head(todo).block
<1>1. /\ todo # <<>> /\ asked = 0 /\ Head(todo).do = "lfree" /\ todo' = Tail(todo)
      /\ table' = Deleted(table, blocks[x])
      /\ blocks' = Restrict(blocks, DOMAIN blocks \ {x})
      /\ UNCHANGED <<asked, candidate, spilled, disk, partition, filled, status, result>>
  BY DEF CallLfree, Calls, Searching
<1>2. PICK after : Leads(todo, DOMAIN blocks, after) BY PhaseLeads DEF LoadInv
<1>3. x \in DOMAIN blocks
  <2>1. PICK now : CallLeads(Head(todo), DOMAIN blocks, now) BY <1>1, <1>2, LeadsOn
  <2> QED BY <1>1, <2>1 DEF CallLeads
<1>4. /\ DOMAIN blocks' = DOMAIN blocks \ {x}
      /\ \A y \in DOMAIN blocks \ {x} : blocks'[y] = blocks[y]
  BY <1>1 DEF Restrict
<1>5. Linked /\ HeapInv /\ LoaderHeapAssumption /\ Bottom \in Nat /\ Bottom > 0
      /\ DOMAIN table = 1 .. Slots /\ Slots \in Nat
  <2>1. Linked /\ HeapInv BY DEF LoadInv
  <2>2. DOMAIN table = 1 .. Slots BY <2>1 DEF HeapInv, LoaderHeapTypeOK
  <2> QED BY <2>1, <2>2, HeapIs
<1> HIDE DEF x
<1>6. PICK s \in 1 .. Slots : table[s] = [start |-> blocks[x], last |-> blocks[x] + SizeOf[x] - 1]
  BY <1>3, <1>5 DEF Linked
<1>7. blocks[x] \in Nat /\ blocks[x] >= Bottom /\ table[s].start = blocks[x] /\ table[s] # Unused
  <2>1. blocks[x] \in Nat /\ blocks[x] >= Bottom BY <1>3, <1>5 DEF Linked
  <2>2. table[s].start = blocks[x] BY <1>6
  <2>3. table[s].start > 0 BY <1>5, <2>1, <2>2
  <2> QED BY <2>1, <2>2, <2>3 DEF Unused, NoAddress
<1>8. HeapInv'
  <2>1. Lfree(s) BY <1>1, <1>7 DEF Lfree
  <2> QED BY <1>5, <2>1, InvLfree
<1>9. \A i \in 1 .. Slots : table[i].start = blocks[x] => i = s
  <2> SUFFICES ASSUME NEW i \in 1 .. Slots, table[i].start = blocks[x] PROVE i = s OBVIOUS
  <2>1. table[i].start > 0 BY <1>5, <1>7
  <2>2. table[i] # Unused BY <2>1 DEF Unused, NoAddress
  <2> QED BY <1>5, <1>7, <2>2, StartsDiffer
<1>10. /\ table'[s] = Unused
       /\ \A i \in 1 .. Slots : i # s => table'[i] = table[i]
  <2>1. \A i \in 1 .. Slots : i \in {j \in DOMAIN table : table[j].start = blocks[x]} <=> i = s
    BY <1>5, <1>7, <1>9
  <2>2. \A i \in 1 .. Slots : IsFirst(i, {j \in DOMAIN table : table[j].start = blocks[x]}) <=> i = s
    BY <1>5, <2>1 DEF IsFirst
  <2> QED BY <1>1, <1>5, <2>2 DEF Deleted
<1>11. Linked'
  <2>1. DOMAIN blocks' \subseteq Names BY <1>4, <1>5 DEF Linked
  <2>2. ASSUME NEW y \in DOMAIN blocks'
        PROVE  /\ blocks'[y] \in Nat /\ blocks'[y] >= Bottom
               /\ \E i \in 1 .. Slots : table'[i] = [start |-> blocks'[y], last |-> blocks'[y] + SizeOf[y] - 1]
    <3>1. y \in DOMAIN blocks /\ y # x /\ blocks'[y] = blocks[y] BY <1>4
    <3>2. blocks[y] \in Nat /\ blocks[y] >= Bottom /\ blocks[y] # blocks[x]
      BY <1>3, <1>5, <3>1 DEF Linked
    <3>3. PICK i \in 1 .. Slots : table[i] = [start |-> blocks[y], last |-> blocks[y] + SizeOf[y] - 1]
      BY <1>5, <3>1 DEF Linked
    <3>4. table[i].start = blocks[y] BY <3>3
    <3>5. i # s BY <1>7, <3>2, <3>4
    <3> QED BY <1>10, <3>1, <3>2, <3>3, <3>5
  <2>3. ASSUME NEW i \in 1 .. Slots, table'[i] # Unused
        PROVE  \E y \in DOMAIN blocks' : table'[i].start = blocks'[y]
    <3>1. i # s /\ table'[i] = table[i] BY <1>10, <2>3
    <3>2. PICK y \in DOMAIN blocks : table[i].start = blocks[y]
      BY <1>5, <2>3, <3>1 DEF Linked
    <3>3. y # x BY <1>9, <3>1, <3>2
    <3> QED BY <1>4, <3>1, <3>2, <3>3
  <2>4. \A y, z \in DOMAIN blocks' : blocks'[y] = blocks'[z] => y = z
    BY <1>4, <1>5 DEF Linked
  <2> QED BY <2>1, <2>2, <2>3, <2>4 DEF Linked
<1>12. Phase'
  <2>1. CallLeads(Head(todo), DOMAIN blocks, DOMAIN blocks')
    BY <1>1, <1>3, <1>4 DEF CallLeads, x
  <2>2. Phase /\ Head(todo).do # "read" BY <1>1 DEF LoadInv
  <2>3. \A y \in DOMAIN blocks : y # Head(todo).block => y \in DOMAIN blocks' /\ blocks'[y] = blocks[y]
    BY <1>4 DEF x
  <2> QED BY <1>1, <2>1, <2>2, <2>3, PhaseGoesOn
<1>13. Asking' BY <1>1 DEF Asking
<1> QED BY <1>1, <1>8, <1>11, <1>12, <1>13 DEF LoadInv
---------------------------------------------------------------------------
(* Files. *)

LEMMA DiskHolds ==
    ASSUME LoadKernelAssumption, disk \in [1 .. Partitions -> Contents], partition \in 1 .. Partitions
    PROVE  /\ disk[partition].root \in Nat /\ disk[partition].kernel \in Nat
           /\ disk[partition].setup \in Nat
           /\ disk[partition].kernel <= KernelRoom /\ disk[partition].setup <= SetupRoom
           /\ KernelRoom \in Nat /\ SetupRoom \in Nat
<1>1. disk[partition] \in Contents OBVIOUS
<1>2. disk[partition] \in Content BY <1>1 DEF LoadKernelAssumption
<1> QED BY <1>1, <1>2 DEF LoadKernelAssumption, Content

\* What reading a file writes.
Into(file) == {blocks[file] + SectorSize * n : n \in 0 .. disk[partition][file] - 1}

LEMMA ReadIs ==
    ASSUME ReadSectors
    PROVE  /\ todo # <<>> /\ asked = 0 /\ Head(todo).do = "read" /\ todo' = Tail(todo)
           /\ DOMAIN filled' = DOMAIN filled \cup Into(Head(todo).block)
           /\ \A a \in DOMAIN filled' :
                 filled'[a] = IF a \in Into(Head(todo).block)
                              THEN <<partition, Head(todo).block, (a - blocks[Head(todo).block]) \div SectorSize>>
                              ELSE filled[a]
           /\ status' = IF Head(todo).block = "root" THEN <<>>
                        ELSE Append(status, disk[partition][Head(todo).block] > 0)
           /\ UNCHANGED <<heapVars, disk, partition, blocks, result>>
BY DEF ReadSectors, Calls, Searching, Into, SectorRead

\* The file is in its block when it has been read.
LEMMA FileIsRead ==
    ASSUME LoadKernelAssumption, LoadInv, ReadSectors, NEW file \in {"kernel", "setup"},
           Head(todo) = ReadFile(file), partition \in 1 .. Partitions, file \in DOMAIN blocks
    PROVE  FileIn(file)' /\ status' = Append(status, disk[partition][file] > 0)
<1>1. Head(todo).block = file BY DEF ReadFile
<1>2. disk[partition][file] \in Nat BY DiskHolds DEF LoadInv
<1>3. blocks[file] \in Nat BY DEF LoadInv, Linked
<1>4. ASSUME NEW n \in 0 .. disk[partition][file] - 1
      PROVE  /\ blocks[file] + SectorSize * n \in DOMAIN filled'
             /\ filled'[blocks[file] + SectorSize * n] = <<partition, file, n>>
  <2> DEFINE a == blocks[file] + SectorSize * n
  <2>1. a \in Into(file) BY DEF Into
  <2>2. (a - blocks[file]) \div SectorSize = n BY <1>2, <1>3 DEF SectorSize
  <2> HIDE DEF a
  <2>3. a \in DOMAIN filled' BY <1>1, <2>1, ReadIs
  <2>4. filled'[a] = <<partition, file, (a - blocks[file]) \div SectorSize>>
    BY <1>1, <2>1, <2>3, ReadIs, Zenon
  <2>5. filled'[a] = <<partition, file, n>> BY <2>2, <2>4
  <2> QED BY <2>3, <2>5 DEF a
<1>5. UNCHANGED <<disk, partition, blocks>> BY ReadIs
<1>6. FileIn(file)' BY <1>4, <1>5 DEF FileIn
<1> QED BY <1>1, <1>6, ReadIs

\* Reading the setup module leaves the kernel as it is.
LEMMA KernelStays ==
    ASSUME LoadKernelAssumption, LoadInv, ReadSectors, Head(todo) = ReadFile("setup"),
           partition \in 1 .. Partitions, "kernel" \in DOMAIN blocks, "setup" \in DOMAIN blocks,
           FileIn("kernel")
    PROVE  FileIn("kernel")'
<1>1. Head(todo).block = "setup" BY DEF ReadFile
<1> DEFINE k == blocks["kernel"]
           s == blocks["setup"]
<1>2. k \in Nat /\ s \in Nat /\ k # s BY DEF LoadInv, Linked
<1>3. /\ disk[partition].kernel \in Nat /\ disk[partition].setup \in Nat
      /\ disk[partition].kernel <= KernelRoom /\ disk[partition].setup <= SetupRoom
      /\ KernelRoom \in Nat /\ SetupRoom \in Nat
  BY DiskHolds DEF LoadInv
<1>4. PICK i \in 1 .. Slots : table[i] = [start |-> k, last |-> k + SizeOf["kernel"] - 1]
  BY DEF LoadInv, Linked
<1>5. PICK j \in 1 .. Slots : table[j] = [start |-> s, last |-> s + SizeOf["setup"] - 1]
  BY DEF LoadInv, Linked
<1>6. SizeOf["kernel"] = KernelRoom * 2 /\ SizeOf["setup"] = SetupRoom * 2 BY DEF SizeOf, SectorSize
<1>7. Apart(table[i], table[j])
  <2>1. Bottom \in Nat /\ Bottom > 0 /\ k >= Bottom /\ s >= Bottom
    <3>1. Bottom \in Nat /\ Bottom > 0 BY HeapIs
    <3>2. Linked BY DEF LoadInv
    <3> QED BY <3>1, <3>2 DEF Linked
  <2>2. table[i].start = k /\ table[j].start = s BY <1>4, <1>5
  <2>3. table[i] # Unused /\ table[j] # Unused /\ i # j
    BY <1>2, <2>1, <2>2 DEF Unused, NoAddress
  <2> QED BY <2>3 DEF LoadInv, HeapInv, TableApart
<1>8. k + KernelRoom * 2 - 1 < s \/ s + SetupRoom * 2 - 1 < k
  BY <1>4, <1>5, <1>6, <1>7 DEF Apart
<1>9. ASSUME NEW n \in 0 .. disk[partition].kernel - 1
      PROVE  k + SectorSize * n \notin Into("setup")
  <2> SUFFICES ASSUME NEW m \in 0 .. disk[partition].setup - 1, k + 2 * n = s + 2 * m PROVE FALSE
    BY DEF Into, SectorSize
  <2>1. n < KernelRoom /\ m < SetupRoom /\ n \in Nat /\ m \in Nat BY <1>3
  <2> QED BY <1>2, <1>3, <1>8, <2>1
<1>10. UNCHANGED <<disk, partition, blocks>> BY ReadIs
<1>11. ASSUME NEW n \in 0 .. disk[partition].kernel - 1
       PROVE  /\ k + SectorSize * n \in DOMAIN filled'
              /\ filled'[k + SectorSize * n] = <<partition, "kernel", n>>
  <2>1. k + SectorSize * n \in DOMAIN filled /\ filled[k + SectorSize * n] = <<partition, "kernel", n>>
    BY DEF FileIn
  <2> QED BY <1>1, <1>9, <2>1, ReadIs
<1> QED BY <1>10, <1>11 DEF FileIn

LEMMA ShortTails ==
    ASSUME NEW S, NEW s \in Seq(S), s # <<>>
    PROVE  /\ Len(s) = 1 => Tail(s) = <<>>
           /\ Len(s) = 2 => Tail(s) = <<s[2]>>
<1>1. /\ Tail(s) \in Seq(S) /\ Len(Tail(s)) = Len(s) - 1 /\ Len(s) \in Nat
      /\ \A k \in 1 .. Len(Tail(s)) : Tail(s)[k] = s[k + 1]
  BY HeadTailProperties, LenProperties
<1>2. ASSUME Len(s) = 1 PROVE Tail(s) = <<>>
  <2>1. Len(Tail(s)) = 0 BY <1>1, <1>2
  <2> QED BY <1>1, <2>1, EmptySeq
<1>3. ASSUME Len(s) = 2 PROVE Tail(s) = <<s[2]>>
  <2>1. s[2] \in S BY SMTT(30), <1>3, ElementOfSeq
  <2>2. <<s[2]>> \in Seq(S) /\ Len(<<s[2]>>) = 1 /\ <<s[2]>>[1] = s[2] BY <2>1
  <2>3. Len(Tail(s)) = 1 /\ Tail(s)[1] = s[2] BY <1>1, <1>3
  <2>4. \A k \in 1 .. Len(Tail(s)) : Tail(s)[k] = <<s[2]>>[k]
    <3> TAKE k \in 1 .. Len(Tail(s))
    <3>1. k = 1
      <4>1. Len(Tail(s)) = 1 BY <2>3
      <4>2. k \in 1 .. 1 BY <4>1, Zenon
      <4> QED BY <4>2
    <3> QED BY <2>2, <2>3, <3>1
  <2>5. \A u, v \in Seq(S) : Len(u) = Len(v) /\ (\A k \in 1 .. Len(u) : u[k] = v[k]) => u = v
    BY SeqEqual
  <2> QED BY <1>1, <2>2, <2>3, <2>4, <2>5, Zenon
<1> QED BY <1>2, <1>3

LEMMA AppendIs ==
    ASSUME NEW a, NEW b
    PROVE  Append(<<>>, b) = <<b>> /\ Append(<<a>>, b) = <<a, b>>
<1> DEFINE S == {a, b}
<1>1. /\ <<>> \in Seq(S) /\ <<a>> \in Seq(S) /\ <<b>> \in Seq(S) /\ <<a, b>> \in Seq(S)
      /\ a \in S /\ b \in S
      /\ Len(<<>>) = 0 /\ Len(<<a>>) = 1 /\ Len(<<b>>) = 1 /\ Len(<<a, b>>) = 2
      /\ <<a>>[1] = a /\ <<b>>[1] = b /\ <<a, b>>[1] = a /\ <<a, b>>[2] = b
  OBVIOUS
<1> HIDE DEF S
<1>2. /\ Append(<<>>, b) \in Seq(S) /\ Len(Append(<<>>, b)) = 1 /\ Append(<<>>, b)[1] = b
      /\ Append(<<a>>, b) \in Seq(S) /\ Len(Append(<<a>>, b)) = 2
      /\ Append(<<a>>, b)[1] = a /\ Append(<<a>>, b)[2] = b
  BY <1>1, AppendProperties
<1>3. \A u, v \in Seq(S) : Len(u) = Len(v) /\ (\A k \in 1 .. Len(u) : u[k] = v[k]) => u = v
  BY SeqEqual
<1>4. (\A k \in 1 .. 1 : k = 1) /\ (\A k \in 1 .. 2 : k = 1 \/ k = 2)
  OBVIOUS
<1>5. \A k \in 1 .. Len(Append(<<>>, b)) : Append(<<>>, b)[k] = <<b>>[k] BY <1>1, <1>2, <1>4, Zenon
<1>6. \A k \in 1 .. Len(Append(<<a>>, b)) : Append(<<a>>, b)[k] = <<a, b>>[k]
  BY <1>1, <1>2, <1>4, Zenon
<1> QED BY <1>1, <1>2, <1>3, <1>5, <1>6, Zenon

LEMMA ReadSectorsKeeps ==
    ASSUME LoadKernelAssumption, LoadInv, ReadSectors
    PROVE  LoadInv'
<1>1. /\ todo # <<>> /\ asked = 0 /\ Head(todo).do = "read" /\ todo' = Tail(todo)
      /\ UNCHANGED <<heapVars, disk, partition, blocks, result>>
      /\ status' = IF Head(todo).block = "root" THEN <<>>
                   ELSE Append(status, disk[partition][Head(todo).block] > 0)
  BY ReadIs
<1>2. UNCHANGED <<table, asked, candidate, spilled>> BY <1>1 DEF heapVars
<1>3. HeapInv' BY <1>2 DEF LoadInv, HeapInv, LoaderHeapTypeOK, InHeap, BehindABlock
<1>4. Linked' BY <1>1, <1>2 DEF LoadInv, Linked
<1>5. Asking' BY <1>1, <1>2 DEF Asking
<1>6. PICK after : Leads(todo, DOMAIN blocks, after) BY PhaseLeads DEF LoadInv
<1>7. todo \in Seq(Calling) BY <1>6 DEF Leads
<1>8. /\ Len(Tail(todo)) = Len(todo) - 1 /\ Len(todo) \in Nat /\ Len(todo) >= 1
      /\ \A k \in 1 .. Len(Tail(todo)) : k + 1 \in 1 .. Len(todo) /\ Tail(todo)[k] = todo[k + 1]
      /\ Head(todo) = todo[1] /\ 1 \in 1 .. Len(todo)
  BY <1>1, <1>7, NoReadsOn
<1>9. Mounting
  <2>1. ~ NoReads(todo) BY <1>1, <1>8 DEF NoReads
  <2> QED BY <2>1 DEF LoadInv, Phase, Unmounted, GivenUp, Booted
<1>10. /\ Leads(todo', DOMAIN blocks', OnMounted)
       /\ Len(todo) = 1 => DOMAIN blocks = OnMounted
       /\ Len(todo) = 2 /\ todo[2].do = "read" => DOMAIN blocks = OnMounted
  <2>1. PICK now : CallLeads(Head(todo), DOMAIN blocks, now) /\ Leads(Tail(todo), now, OnMounted)
    BY <1>1, <1>9, LeadsOn DEF Mounting
  <2>2. now = DOMAIN blocks BY <1>1, <2>1 DEF CallLeads
  <2>3. ASSUME Len(todo) = 1 PROVE DOMAIN blocks = OnMounted
    <3>1. Tail(todo) = <<>> BY <1>1, <1>7, <2>3, ShortTails
    <3> QED BY <2>1, <2>2, <3>1, LeadsNowhere
  <2>4. ASSUME Len(todo) = 2, todo[2].do = "read" PROVE DOMAIN blocks = OnMounted
    <3>1. Tail(todo) = <<todo[2]>> BY <1>1, <1>7, <2>4, ShortTails
    <3>5. Tail(todo) # <<>> BY <3>1
    <3>2. PICK then : CallLeads(Head(Tail(todo)), now, then) /\ Leads(Tail(Tail(todo)), then, OnMounted)
      BY <2>1, <3>5, LeadsOn
    <3>3. Tail(Tail(todo)) = <<>> /\ Head(Tail(todo)) = todo[2]
      BY <3>1
    <3>4. then = OnMounted BY <3>2, <3>3, LeadsNowhere
    <3> QED BY <2>2, <2>4, <3>2, <3>3, <3>4 DEF CallLeads
  <2> QED BY <1>1, <2>1, <2>2, <2>3, <2>4
<1>11. InTurn' /\ IsFat32' /\ result' = None /\ partition \in 1 .. Partitions
  BY <1>1, <1>9 DEF Mounting, InTurn, CanBoot, Mountable, HasBoth, IsFat32
<1>12. Reading'
  <2>1. CASE ReadsAtEnd(todo) /\ status = <<>> /\ Len(todo) > 2
    BY <1>1, <1>7, <2>1, ReadsAtEndOn DEF Reading
  <2>2. CASE ReadsAtEnd(todo) /\ status = <<>> /\ Len(todo) = 2
    <3>1. Head(todo) = ReadFile("kernel") /\ todo[2] = ReadFile("setup")
      BY <1>8, <2>2 DEF ReadsAtEnd
    <3>2. "kernel" \in DOMAIN blocks BY <1>10, <2>2, <3>1 DEF OnMounted, ReadFile
    <3>3. FileIn("kernel")' /\ status' = Append(status, disk[partition]["kernel"] > 0)
      BY <1>11, <3>1, <3>2, FileIsRead
    <3>4. status' = <<disk[partition].kernel > 0>> BY <2>2, <3>3, AppendIs, Zenon
    <3>5. todo' = <<ReadFile("setup")>> BY <1>1, <1>7, <2>2, <3>1, ShortTails
    <3> QED BY <1>1, <3>3, <3>4, <3>5 DEF Reading
  <2>3. CASE /\ todo = <<ReadFile("setup")>>
             /\ status = <<disk[partition].kernel > 0>> /\ FileIn("kernel")
    <3>1. Head(todo) = ReadFile("setup") /\ Len(todo) = 1 BY <2>3
    <3>2. "kernel" \in DOMAIN blocks /\ "setup" \in DOMAIN blocks
      BY <1>10, <3>1 DEF OnMounted
    <3>3. FileIn("setup")' /\ status' = Append(status, disk[partition]["setup"] > 0)
      BY <1>11, <3>1, <3>2, FileIsRead
    <3>4. FileIn("kernel")' BY <1>11, <2>3, <3>1, <3>2, KernelStays
    <3>5. status' = <<disk[partition].kernel > 0, disk[partition].setup > 0>>
      BY <2>3, <3>3, AppendIs, Zenon
    <3>6. todo' = <<>> BY <1>1, <1>7, <3>1, ShortTails
    <3> QED BY <1>1, <3>3, <3>4, <3>5, <3>6 DEF Reading
  <2>4. ReadsAtEnd(todo) => Len(todo) >= 2 BY DEF ReadsAtEnd
  <2> QED BY <1>1, <1>8, <1>9, <2>1, <2>2, <2>3, <2>4 DEF Mounting, Reading
<1>13. Phase' BY <1>10, <1>11, <1>12 DEF Mounting, Phase
<1>14. disk' = disk BY <1>1
<1> QED BY <1>3, <1>4, <1>5, <1>13, <1>14 DEF LoadInv

---------------------------------------------------------------------------
(* The decisions. *)

\* No partition up to the last can be booted, or the next is tried.
LEMMA TryNextKeeps ==
    ASSUME LoadKernelAssumption, InTurn, ~ CanBoot(partition), NEW calls, TryNext(calls),
           UNCHANGED <<disk, blocks, filled>>,
           \/ calls = <<>> /\ DOMAIN blocks = Base
           \/ calls = TerminateFat32Fs /\ DOMAIN blocks = OnMounted
    PROVE  Phase'
<1>1. /\ partition' = partition + 1 /\ status' = <<>>
      /\ todo' = calls \o IF partition < Partitions THEN GetFsType
                          ELSE <<GiveBackCall("kernel"), GiveBackCall("setup")>>
      /\ result' = IF partition < Partitions THEN None ELSE Failed
  BY DEF TryNext
<1>2. Partitions \in Nat /\ partition \in 1 .. Partitions
  BY DEF LoadKernelAssumption, InTurn
<1>3. \A q \in 1 .. partition : ~ CanBoot(q)
  BY <1>2 DEF InTurn
<1>4. \A q : CanBoot(q)' <=> CanBoot(q) BY DEF CanBoot, Mountable, HasBoth
<1>5. CASE partition < Partitions
  <2>1. todo' = calls \o GetFsType /\ result' = None BY <1>1, <1>5
  <2>2. Leads(todo', DOMAIN blocks', Base) /\ NoReads(todo')
    <3>1. CASE calls = <<>> /\ DOMAIN blocks = Base BY <2>1, <3>1, NextLeads
    <3>2. CASE calls = TerminateFat32Fs /\ DOMAIN blocks = OnMounted
      BY <2>1, <3>2, TerminateLeads
    <3> QED BY <3>1, <3>2
  <2>3. InTurn'
    <3>1. partition' \in 1 .. Partitions BY <1>1, <1>2, <1>5
    <3>2. \A q \in 1 .. partition' - 1 : q \in 1 .. partition BY <1>1, <1>2
    <3> QED BY <1>3, <1>4, <3>1, <3>2 DEF InTurn
  <2> QED BY <1>1, <2>1, <2>2, <2>3 DEF Unmounted, Phase
<1>6. CASE ~ (partition < Partitions)
  <2>1. todo' = calls \o <<GiveBackCall("kernel"), GiveBackCall("setup")>> /\ result' = Failed
    BY <1>1, <1>6
  <2>2. Leads(todo', DOMAIN blocks', {}) /\ NoReads(todo')
    <3>1. CASE calls = <<>> /\ DOMAIN blocks = Base BY <2>1, <3>1, GiveUpLeads
    <3>2. CASE calls = TerminateFat32Fs /\ DOMAIN blocks = OnMounted
      BY <2>1, <3>2, TerminateGiveUpLeads
    <3> QED BY <3>1, <3>2
  <2>3. partition = Partitions BY <1>2, <1>6
  <2>4. status' = <<>> /\ partition' = Partitions + 1 BY <1>1, <2>3
  <2>5. \A q \in 1 .. Partitions : ~ CanBoot(q)' BY <1>3, <1>4, <2>3
  <2> QED BY <2>1, <2>2, <2>4, <2>5 DEF GivenUp, Phase
<1> QED BY <1>5, <1>6

\* At a decision the phase is known.
LEMMA DecisionIs ==
    ASSUME Phase, todo = <<>>, result = None
    PROVE  \/ Unmounted /\ DOMAIN blocks = Base /\ ~ Mounted
           \/ /\ Mounting /\ DOMAIN blocks = OnMounted /\ Mounted
              /\ status = <<disk[partition].kernel > 0, disk[partition].setup > 0>>
              /\ FileIn("kernel") /\ FileIn("setup")
<1>1. Unmounted \/ Mounting
  <2>1. None # Failed
    <3>1. None.status = "none" /\ Failed.status = "false" BY DEF None, Failed
    <3> QED BY <3>1
  <2>2. None.status # "true" BY DEF None
  <2> QED BY <2>1, <2>2 DEF Phase, GivenUp, Booted
<1>2. CASE Unmounted
  <2>1. DOMAIN blocks = Base BY <1>2, LeadsNowhere DEF Unmounted
  <2> QED BY <1>2, <2>1 DEF Mounted, Base
<1>3. CASE Mounting
  <2>1. DOMAIN blocks = OnMounted BY <1>3, LeadsNowhere DEF Mounting
  <2>2. ~ ReadsAtEnd(todo) /\ todo # <<ReadFile("setup")>>
    <3>1. Len(<<>>) = 0 /\ Len(<<ReadFile("setup")>>) = 1 OBVIOUS
    <3> QED BY <3>1 DEF ReadsAtEnd
  <2>3. /\ status = <<disk[partition].kernel > 0, disk[partition].setup > 0>>
        /\ FileIn("kernel") /\ FileIn("setup")
    BY <1>3, <2>2 DEF Mounting, Reading
  <2> QED BY <1>3, <2>1, <2>3 DEF Mounted, OnMounted
<1> QED BY <1>1, <1>2, <1>3

\* What the decisions leave alone.
LEMMA HeapStays ==
    ASSUME LoadInv, UNCHANGED <<heapVars, disk, blocks>>, asked = 0, Phase'
    PROVE  LoadInv'
<1>1. UNCHANGED <<table, asked, candidate, spilled>> BY DEF heapVars
<1>2. HeapInv' BY <1>1 DEF LoadInv, HeapInv, LoaderHeapTypeOK, InHeap, BehindABlock
<1>3. Linked' BY <1>1 DEF LoadInv, Linked
<1>4. Asking' BY <1>1 DEF Asking
<1> QED BY <1>2, <1>3, <1>4 DEF LoadInv

LEMMA LoadFsKeeps ==
    ASSUME LoadKernelAssumption, LoadInv, LoadFs
    PROVE  LoadInv'
<1>1. /\ todo = <<>> /\ asked = 0 /\ result = None /\ ~ Mounted
      /\ UNCHANGED <<heapVars, disk, blocks, filled>>
  BY DEF LoadFs, Decides, Searching
<1>2. Unmounted /\ DOMAIN blocks = Base BY <1>1, DecisionIs DEF LoadInv
<1>3. CASE IsFat32
  <2>1. /\ todo' = LoadFat32Fs \o <<ReadFile("kernel"), ReadFile("setup")>>
        /\ UNCHANGED <<partition, status, result>>
    BY <1>3 DEF LoadFs
  <2>2. Leads(todo', DOMAIN blocks', OnMounted) /\ ReadsAtEnd(todo')
    BY <1>1, <1>2, <2>1, MountLeads
  <2>3. InTurn' BY <1>1, <1>2, <2>1 DEF Unmounted, InTurn, CanBoot, Mountable, HasBoth
  <2>4. IsFat32' BY <1>1, <1>3, <2>1 DEF IsFat32
  <2>5. Reading' BY <1>2, <2>1, <2>2 DEF Unmounted, Reading
  <2>6. Phase' BY <1>1, <2>1, <2>2, <2>3, <2>4, <2>5 DEF Mounting, Phase
  <2> QED BY <1>1, <2>6, HeapStays
<1>4. CASE ~ IsFat32
  <2>1. TryNext(<<>>) BY <1>4 DEF LoadFs
  <2>2. ~ CanBoot(partition) BY <1>4 DEF IsFat32, CanBoot, Mountable
  <2>3. Phase' BY <1>1, <1>2, <2>1, <2>2, TryNextKeeps DEF Unmounted
  <2> QED BY <1>1, <2>3, HeapStays
<1> QED BY <1>3, <1>4

\* A file that is in its block is what is copied from there.
LEMMA SectorsAre ==
    ASSUME LoadKernelAssumption, disk \in [1 .. Partitions -> Contents], partition \in 1 .. Partitions,
           NEW file \in {"kernel", "setup"}, FileIn(file)
    PROVE  Sectors(file, disk[partition][file]) = FileOf(partition, file)
<1>1. disk[partition][file] \in Nat BY DiskHolds
<1>2. ASSUME NEW n \in 1 .. disk[partition][file]
      PROVE  filled[blocks[file] + SectorSize * (n - 1)] = <<partition, file, n - 1>>
  <2>1. n - 1 \in 0 .. disk[partition][file] - 1 BY <1>1
  <2> QED BY <2>1 DEF FileIn
<1> QED BY <1>2 DEF Sectors, FileOf

LEMMA TryFilesKeeps ==
    ASSUME LoadKernelAssumption, LoadInv, TryFiles
    PROVE  LoadInv'
<1>1. /\ todo = <<>> /\ asked = 0 /\ result = None /\ Mounted
      /\ UNCHANGED <<heapVars, disk, blocks, filled>>
  BY DEF TryFiles, Decides, Searching
<1>2. /\ Mounting /\ DOMAIN blocks = OnMounted
      /\ status = <<disk[partition].kernel > 0, disk[partition].setup > 0>>
      /\ FileIn("kernel") /\ FileIn("setup")
  BY <1>1, DecisionIs DEF LoadInv
<1>3. InTurn /\ IsFat32 /\ partition \in 1 .. Partitions /\ disk \in [1 .. Partitions -> Contents]
  BY <1>2 DEF Mounting, InTurn, LoadInv
<1>4. BothLoaded <=> CanBoot(partition)
  <2>1. /\ status[1] <=> disk[partition].kernel > 0
        /\ status[2] <=> disk[partition].setup > 0
    BY <1>2
  <2> QED BY <1>3, <2>1 DEF BothLoaded, CanBoot, Mountable, HasBoth, IsFat32
<1>5. CASE BothLoaded
  <2>1. /\ result' = Loaded /\ todo' = TerminateFat32Fs \o <<GiveBackCall("kernel")>>
        /\ UNCHANGED <<partition, status>>
    BY <1>5 DEF TryFiles
  <2>2. /\ Leads(todo', DOMAIN blocks', {"setup"}) /\ NoReads(todo')
        /\ \A k \in 1 .. Len(todo') : todo'[k].block # "setup"
    BY <1>1, <1>2, <2>1, BootLeads
  <2>3. /\ result'.status = "true" /\ result'.setup = blocks["setup"]
        /\ result'.kernel = Sectors("kernel", disk[partition].kernel)
    BY <2>1 DEF Loaded
  <2>4. result'.kernel = FileOf(partition, "kernel")'
    <3>1. FileOf(partition, "kernel")' = FileOf(partition, "kernel") BY <1>1, <2>1 DEF FileOf
    <3>2. Sectors("kernel", disk[partition]["kernel"]) = FileOf(partition, "kernel")
      BY <1>2, <1>3, SectorsAre
    <3> QED BY <2>3, <3>1, <3>2
  <2>5. InTurn' /\ CanBoot(partition)' BY <1>1, <1>3, <1>4, <1>5, <2>1 DEF InTurn, CanBoot, Mountable, HasBoth
  <2>6. FileIn("setup")' BY <1>1, <1>2, <2>1 DEF FileIn
  <2>7. "setup" \in DOMAIN blocks BY <1>2 DEF OnMounted
  <2>8. status' = <<disk'[partition'].kernel > 0, disk'[partition'].setup > 0>>
    BY <1>1, <1>2, <2>1
  <2>9. Booted' BY <1>1, <2>2, <2>3, <2>4, <2>5, <2>6, <2>7, <2>8 DEF Booted
  <2>10. Phase' BY <2>9 DEF Phase
  <2> QED BY <1>1, <2>10, HeapStays
<1>6. CASE ~ BothLoaded
  <2>1. TryNext(TerminateFat32Fs) BY <1>6 DEF TryFiles
  <2>2. Phase' BY <1>1, <1>2, <1>3, <1>4, <1>6, <2>1, TryNextKeeps
  <2> QED BY <1>1, <2>2, HeapStays
<1> QED BY <1>5, <1>6

LEMMA LoadInitInv ==
    ASSUME LoadKernelAssumption, LoadInit
    PROVE  LoadInv
<1>1. /\ HeapInit /\ disk \in [1 .. Partitions -> Contents] /\ partition = 1
      /\ todo = <<TakeCall("kernel", KernelRoom * SectorSize), TakeCall("setup", SetupRoom * SectorSize)>> \o GetFsType
      /\ DOMAIN blocks = {} /\ status = <<>> /\ result = None
  BY DEF LoadInit
<1>2. HeapInv BY <1>1, InvInit DEF LoadKernelAssumption
<1>3. Linked BY <1>1 DEF Linked, HeapInit
<1>4. Asking BY <1>1 DEF Asking, HeapInit
<1>5. Leads(todo, DOMAIN blocks, Base) /\ NoReads(todo) BY <1>1, StartLeads
<1>6. InTurn BY <1>1 DEF LoadKernelAssumption, InTurn
<1> QED BY <1>1, <1>2, <1>3, <1>4, <1>5, <1>6 DEF LoadInv, Phase, Unmounted

\* Until lmalloc returns NULL the loader's calls keep its blocks, what has been read
\* into them and what has been decided together.
THEOREM LoadInvariant ==
    ASSUME LoadKernelAssumption
    PROVE  LoadSpec => [](denied \/ LoadInv)
<1>1. LoadInit => denied \/ LoadInv BY LoadInitInv
<1>2. (denied \/ LoadInv) /\ [LoadNext]_loaderVars => (denied \/ LoadInv)'
  <2>1. ASSUME denied, [LoadNext]_loaderVars PROVE denied'
    BY <2>1 DEF LoadNext, CallLmalloc, SearchOn, LmallocReturns, CallLfree, ReadSectors, LoadFs,
                TryFiles, loaderVars, loadVars
  <2> SUFFICES ASSUME LoadInv, [LoadNext]_loaderVars PROVE denied' \/ LoadInv' BY <2>1
  <2>9. CASE CallLmalloc BY <2>9, CallLmallocKeeps
  <2>2. CASE SearchOn BY <2>2, SearchOnKeeps
  <2>3. CASE LmallocReturns BY <2>3, LmallocReturnsKeeps DEF LmallocReturns
  <2>4. CASE CallLfree BY <2>4, CallLfreeKeeps
  <2>5. CASE ReadSectors BY <2>5, ReadSectorsKeeps
  <2>6. CASE LoadFs BY <2>6, LoadFsKeeps
  <2>7. CASE TryFiles BY <2>7, TryFilesKeeps
  <2>8. CASE UNCHANGED loaderVars
    <3>1. UNCHANGED heapVars /\ UNCHANGED loadVars BY <2>8 DEF loaderVars
    <3>2. HeapInv' BY <3>1 DEF heapVars, LoadInv, HeapInv, LoaderHeapTypeOK, InHeap, BehindABlock
    <3>3. Linked' /\ Asking' BY <3>1 DEF heapVars, loadVars, LoadInv, Linked, Asking
    <3>4. Phase' BY <3>1, PhaseStays DEF LoadInv
    <3> QED BY <3>1, <3>2, <3>3, <3>4 DEF LoadInv, loadVars
  <2> QED BY <2>2, <2>3, <2>4, <2>5, <2>6, <2>7, <2>8, <2>9 DEF LoadNext
<1> QED BY <1>1, <1>2, PTL DEF LoadSpec

LEMMA BootsWhole == ASSUME LoadKernelAssumption, denied \/ LoadInv PROVE BootsFirstMountable
<1> SUFFICES ASSUME LoadInv, result # None, todo = <<>>
             PROVE  IF Bootable = {} THEN result = Failed /\ InUse = {}
                    ELSE \E p \in Bootable :
                             /\ \A q \in Bootable : p <= q
                             /\ result.status = "true"
                             /\ result.kernel = FileOf(p, "kernel")
                             /\ Sectors("setup", disk[p].setup) = FileOf(p, "setup")
                             /\ InUse = {result.setup}
  BY DEF BootsFirstMountable, HeapSuffices
<1>1. Linked /\ HeapInv /\ DOMAIN table = 1 .. Slots /\ Bottom \in Nat /\ Bottom > 0
  BY HeapIs DEF LoadInv, HeapInv, LoaderHeapTypeOK
<1>2. InUse = {blocks[x] : x \in DOMAIN blocks}
  <2>1. ASSUME NEW i \in DOMAIN table, table[i] # Unused
        PROVE  \E x \in DOMAIN blocks : table[i].start = blocks[x]
    BY <1>1, <2>1 DEF Linked
  <2>2. ASSUME NEW x \in DOMAIN blocks
        PROVE  \E i \in DOMAIN table : table[i] # Unused /\ table[i].start = blocks[x]
    <3>1. PICK i \in 1 .. Slots : table[i] = [start |-> blocks[x], last |-> blocks[x] + SizeOf[x] - 1]
      BY <1>1 DEF Linked
    <3>2. table[i].start = blocks[x] BY <3>1
    <3>3. blocks[x] \in Nat /\ blocks[x] >= Bottom BY <1>1 DEF Linked
    <3>4. table[i].start > 0 BY <1>1, <3>2, <3>3
    <3> QED BY <1>1, <3>2, <3>4 DEF Unused, NoAddress
  <2> QED BY <2>1, <2>2 DEF InUse
<1>3. GivenUp \/ Booted BY DEF LoadInv, Phase, Unmounted, Mounting
<1>4. CASE GivenUp
  <2>1. Bootable = {} BY <1>4 DEF GivenUp, Bootable, CanBoot
  <2>2. DOMAIN blocks = {} BY <1>4, LeadsNowhere DEF GivenUp
  <2>3. InUse = {} BY <1>2, <2>2
  <2> QED BY <1>4, <2>1, <2>3 DEF GivenUp
<1>5. CASE Booted
  <2>1. DOMAIN blocks = {"setup"} BY <1>5, LeadsNowhere DEF Booted
  <2>2. InUse = {result.setup} BY <1>2, <1>5, <2>1 DEF Booted
  <2>3. partition \in Bootable /\ partition \in 1 .. Partitions BY <1>5 DEF Booted, InTurn, Bootable, CanBoot
  <2>4. \A q \in Bootable : partition <= q
    <3>1. Partitions \in Nat BY DEF LoadKernelAssumption
    <3> SUFFICES ASSUME NEW q \in Bootable, ~ (partition <= q) PROVE FALSE OBVIOUS
    <3>2. q \in 1 .. Partitions /\ CanBoot(q) BY DEF Bootable, CanBoot
    <3>3. q \in 1 .. partition - 1 BY <2>3, <3>1, <3>2
    <3> QED BY <1>5, <3>2, <3>3 DEF Booted, InTurn
  <2>5. Sectors("setup", disk[partition]["setup"]) = FileOf(partition, "setup")
    BY <1>5, <2>3, SectorsAre DEF Booted, LoadInv
  <2> QED BY <1>5, <2>2, <2>3, <2>4, <2>5 DEF Booted
<1> QED BY <1>3, <1>4, <1>5

LEMMA LoadTypes == ASSUME LoadKernelAssumption, denied \/ LoadInv PROVE LoadKernelTypeOK
<1> SUFFICES ASSUME LoadInv PROVE LoadKernelTypeOK BY DEF LoadKernelTypeOK
<1>1. Partitions \in Nat /\ Bottom \in Nat /\ Top \in Nat
  BY DEF LoadKernelAssumption, LoaderHeapAssumption
<1>2. partition \in 1 .. Partitions \/ (partition = Partitions + 1 /\ result = Failed)
  BY DEF LoadInv, Phase, Unmounted, Mounting, GivenUp, Booted, InTurn
<1>3. partition \in 1 .. Partitions + 1 /\ (partition = Partitions + 1 => result = Failed)
  BY <1>1, <1>2
<1>4. ASSUME NEW name \in DOMAIN blocks
      PROVE  \E i \in 1 .. Slots :
                 /\ table[i].start = blocks[name] /\ table[i].start >= Bottom
                 /\ ~ spilled => table[i].last < Top
  <2>1. PICK i \in 1 .. Slots :
            table[i] = [start |-> blocks[name], last |-> blocks[name] + SizeOf[name] - 1]
    BY DEF LoadInv, Linked
  <2>2. blocks[name] \in Nat /\ blocks[name] >= Bottom /\ Bottom > 0
    BY HeapIs DEF LoadInv, Linked
  <2>3. table[i].start = blocks[name] BY <2>1
  <2>4. table[i] # Unused BY <1>1, <2>2, <2>3 DEF Unused, NoAddress
  <2>5. ~ spilled => table[i].last < Top BY <2>4 DEF LoadInv, HeapInv, InHeap
  <2> QED BY <1>1, <2>2, <2>3, <2>5
<1>5. \A a, b \in BOOLEAN :
          /\ <<a>> \in Seq(BOOLEAN) /\ Len(<<a>>) <= 2
          /\ <<a, b>> \in Seq(BOOLEAN) /\ Len(<<a, b>>) <= 2
  OBVIOUS
<1>6. <<>> \in Seq(BOOLEAN) /\ Len(<<>>) <= 2 OBVIOUS
<1>7. (disk[partition].kernel > 0) \in BOOLEAN /\ (disk[partition].setup > 0) \in BOOLEAN
  OBVIOUS
<1>8. \/ status = <<>> \/ status = <<disk[partition].kernel > 0>>
      \/ status = <<disk[partition].kernel > 0, disk[partition].setup > 0>>
  BY DEF LoadInv, Phase, Unmounted, Mounting, Reading, GivenUp, Booted
<1>9. status \in Seq(BOOLEAN) /\ Len(status) <= 2
  BY <1>5, <1>6, <1>7, <1>8, Zenon
<1> QED BY <1>3, <1>4, <1>9 DEF LoadInv, HeapInv, LoadKernelTypeOK

\* Until lmalloc has returned NULL, every pointer the loader has is the start of a block
\* in use, and until a block has been given that ends in the table, each of them lies
\* between the bottom and the table; i is behind the last partition only when the
\* loader has given up.  (lmalloc, load_kernel)
THEOREM LoadKernelTypeCorrect ==
    ASSUME LoadKernelAssumption
    PROVE  LoadSpec => []LoadKernelTypeOK
<1>1. LoadSpec => [](denied \/ LoadInv) BY LoadInvariant
<1> QED BY <1>1, LoadTypes, PTL

\* Of the partitions that load_fs mounts the loader boots the first that holds both
\* files, exactly when there is one, and with these files, whole; its heap is left
\* with the setup module and nothing else.  This is until lmalloc has returned NULL
\* or a block that ends in the table.  (load_kernel, load_fs, terminate_fs)
THEOREM BootsFirstMountableCorrect ==
    ASSUME LoadKernelAssumption
    PROVE  LoadSpec => []BootsFirstMountable
<1>1. LoadSpec => [](denied \/ LoadInv) BY LoadInvariant
<1> QED BY <1>1, BootsWhole, PTL
=============================================================================
