----------------------------- MODULE MallocHeap -----------------------------
(* The heap of a module, libs/libkmod/memory/malloc.c (the setup module has *)
(* the same in module/setup/_libkmod/memory/malloc.c): a free list in the    *)
(* order of the addresses, first fit, split when allocated, merged when     *)
(* freed.  A module's calls do not interleave: the kernel does not preempt   *)
(* level 0.                                                                 *)
(*                                                                          *)
(* Addresses and sizes are counted in units of HEAPUNIT_SZ, the 16 bytes of  *)
(* a chunk_struct.  Address 0 is heap, where the head of the free list is.   *)
EXTENDS Naturals, FiniteSets

CONSTANTS HeapSize,    \* heap_end - heap_start
          DivMin,      \* HEAPDIV_MIN_SZ
          MallocSizes, \* the sizes of the requests, in units without the header
          Null         \* NULL

ASSUME MallocAssumption ==
    /\ HeapSize \in Nat /\ HeapSize > 1 /\ DivMin \in Nat
    /\ MallocSizes \subseteq Nat \ {0} /\ Null \notin Nat

VARIABLES chunks,    \* the headers of the free chunks and of those in use, by address
          allocated, \* the chunks malloc has returned and the module has not freed
          overrun    \* bound: a remainder reaches into the chunk behind it.  What its owner
                     \* writes can be a header then, and nothing is done after that

mallocVars == <<chunks, allocated, overrun>>

ListStart == 0

\* The end of the memory a chunk claims.
ChunkEnd(a) == a + chunks[a].size

\* What the pointers lead to from the head of the list.
NextsIn(S) == \A a \in S : chunks[a].next = Null \/ chunks[a].next \in S

\* The chunks of the free list, as malloc and free find them.
FreeChunks ==
    {a \in DOMAIN chunks \ {ListStart} :
        \A S \in SUBSET DOMAIN chunks : ListStart \in S /\ NextsIn(S) => a \in S}

\* init_heap: the head of the list and one chunk that is the whole heap.  The size of
\* the head is -1, more than any memory there is: see Merged.
MallocInit ==
    /\ chunks = [a \in {ListStart, 1} |-> IF a = ListStart THEN [size |-> 0, next |-> 1]
                                          ELSE [size |-> HeapSize - 1, next |-> Null]]
    /\ allocated = {} /\ overrun = FALSE
---------------------------------------------------------------------------
(* malloc *)

\* fixed_size: the request and the header.
Fixed(n) == n + 1

\* What is left over becomes a chunk of its own.
Splits(size, need) == size > DivMin /\ size - need >= 1

\* new_free_chunk: need includes the header already, and the header is added
\* once more.
Remainder(a, need) == [at |-> a + 1 + need, size |-> chunks[a].size - need]

\* A header is written where none has been, or over one.
WithChunk(at, chunk) ==
    [a \in DOMAIN chunks \cup {at} |-> IF a = at THEN chunk ELSE chunks[a]]

\* Mutant of TakenOut: the size of the chunk that is split stays what it was.
TakenOutWhole(a, last, need) ==
    LET rest == Remainder(a, need)
    IN  IF Splits(chunks[a].size, need)
        THEN [WithChunk(rest.at, [size |-> rest.size, next |-> chunks[a].next])
                 EXCEPT ![last].next = rest.at, ![a].next = Null]
        ELSE [chunks EXCEPT ![last].next = chunks[a].next, ![a].next = Null]

\* Chunk a, behind last in the free list, is taken out of it, or its
\* remainder takes its place.
TakenOut(a, last, need) ==
    LET rest == Remainder(a, need)
    IN  IF Splits(chunks[a].size, need)
        THEN [WithChunk(rest.at, [size |-> rest.size, next |-> chunks[a].next])
                 EXCEPT ![last].next = rest.at, ![a] = [size |-> need, next |-> Null]]
        ELSE [chunks EXCEPT ![last].next = chunks[a].next, ![a].next = Null]

\* The remainder of a chunk that is split ends a header behind it.
Overruns(a, need) ==
    /\ Splits(chunks[a].size, need)
    /\ \E b \in DOMAIN chunks : a < b /\ b <= ChunkEnd(a)

\* The first of the list that is in S: the list is in the order of addresses.
First(a, S) == a \in S /\ \A b \in S : a <= b

LargeEnough(n) == {a \in FreeChunks : chunks[a].size >= Fixed(n)}

\* With no chunk that is large enough malloc returns NULL.
MallocFails(n) == LargeEnough(n) = {} /\ UNCHANGED mallocVars

\* The first chunk that is large enough.
Malloc(n) ==
    \E last \in FreeChunks \cup {ListStart} :
        LET a == chunks[last].next
        IN  /\ First(a, LargeEnough(n))
            /\ chunks' = TakenOut(a, last, Fixed(n))
            /\ allocated' = allocated \cup {a}
            /\ overrun' = Overruns(a, Fixed(n))
---------------------------------------------------------------------------
(* free *)

\* Mutant of Between: the chunk is put behind the first one that is below it.
BetweenBelow(last, a) == last < a /\ chunks[last].next # Null

\* The place in the list: a lies behind last and before the next, which there
\* must be.
Between(last, a) == last < a /\ chunks[last].next # Null /\ a < chunks[last].next

\* last takes in the chunk behind it in the list, whose header is one no more, if it ends
\* where that begins; nothing begins where the head of the list ends.
Merged(cs, last) ==
    LET nxt == cs[last].next
    IN  IF last # ListStart /\ nxt # Null /\ last + cs[last].size = nxt
        THEN [a \in DOMAIN cs \ {nxt} |->
                 IF a = last THEN [size |-> cs[last].size + cs[nxt].size, next |-> cs[nxt].next]
                 ELSE cs[a]]
        ELSE cs

\* The chunk is put into the list and merged with the one before it, which is
\* then merged with the next (line 122 looks at last, not at current).
Free(a) ==
    \E last \in FreeChunks \cup {ListStart} :
        /\ First(last, {b \in FreeChunks \cup {ListStart} : Between(b, a)})
        /\ chunks' = Merged(Merged([chunks EXCEPT ![a].next = chunks[last].next,
                                                  ![last].next = a], last), last)
        /\ allocated' = allocated \ {a}
    /\ UNCHANGED overrun

\* Behind every free chunk: last runs off the list to NULL, and the chunk is
\* hung on what lies at address 0 of the kernel's memory instead; nothing leads to it.
FreeTopmost(a) ==
    /\ ~ \E last \in FreeChunks \cup {ListStart} : Between(last, a)
    /\ chunks' = [b \in DOMAIN chunks \ {a} |-> chunks[b]]
    /\ allocated' = allocated \ {a}
    /\ UNCHANGED overrun
---------------------------------------------------------------------------
MallocNext == /\ ~ overrun
              /\ \/ \E n \in MallocSizes : Malloc(n) \/ MallocFails(n)
                 \/ \E a \in allocated : Free(a) \/ FreeTopmost(a)

MallocSpec == MallocInit /\ [][MallocNext]_mallocVars
---------------------------------------------------------------------------
Extent(a) == a .. ChunkEnd(a) - 1

\* What the pointers of the free list lead to are known headers, until a remainder overruns
\* another chunk in the order of their addresses.  Where chunks end is not said: the last
\* chunk of the heap may end behind it, by a header for every split of it.
MallocTypeOK ==
    /\ DOMAIN chunks \subseteq Nat /\ ListStart \in DOMAIN chunks /\ overrun \in BOOLEAN
    /\ allocated \subseteq DOMAIN chunks \ {ListStart}
    /\ \A a \in DOMAIN chunks :
          chunks[a].size \in Nat /\ chunks[a].next \in DOMAIN chunks \cup {Null}
    /\ ~ overrun =>
          \A a \in FreeChunks \cup {ListStart} : chunks[a].next # Null => a < chunks[a].next

\* Until a remainder has been made that reaches into the chunk behind it, which takes
\* two splits of a chunk that has been given back, what malloc has given to two callers
\* shares no memory, and no header of the free list lies in the memory of a caller.
\* (malloc, free)
LiveDisjoint ==
    ~ overrun =>
        /\ \A a, b \in allocated : a < b => ChunkEnd(a) <= b
        /\ FreeChunks \cap UNION {Extent(a) : a \in allocated} = {}
============================================================================
