------------------------------- MODULE KHeap -------------------------------
(* The kernel heap, kernel/memory/kheap.c: a list of segments, first fit,   *)
(* split when allocated and combined with their neighbours when freed, which*)
(* grows by areas of the physical memory manager (Pmm.tla).                 *)
(*                                                                          *)
(* Addresses and the sizes of segments are counted in units of MIN_SEG_SIZE, *)
(* of which all of them are multiples; a request is counted in bytes.       *)
EXTENDS Naturals, Sequences, SequencesExt

CONSTANTS Header,    \* sizeof(seg_info_struct)
          Unit,      \* MIN_SEG_SIZE
          Base,      \* KHEAP_PRE_BASE
          BaseSize,  \* KHEAP_PRE_SIZE
          Areas,     \* where the areas are that the memory manager can give
          AreaSize,  \* the size of an area of order ALLOC_PAGE_ORDER
          NodeBytes, \* sizeof(free_area_struct)
          Requests   \* the sizes asked for

\* The units a request takes with its header.
Need(bytes) == (bytes + Header + Unit - 1) \div Unit

ASSUME KHeapAssumption ==
    /\ Header \in Nat \ {0} /\ Unit \in Nat \ {0} /\ Base \in Nat /\ BaseSize \in Nat \ {0}
    /\ Areas \subseteq Nat /\ AreaSize \in Nat \ {0}
    /\ NodeBytes \in Nat /\ Requests \subseteq Nat
    /\ \A a \in Areas : a >= Base + BaseSize \/ a + AreaSize <= Base
    /\ \A a, b \in Areas : a < b => a + AreaSize <= b
    \* A new area has room for three nodes and any request, header counted twice.
    /\ \A n \in Requests : 3 * Need(NodeBytes) + Need(n + Header) <= AreaSize

VARIABLES segs, \* the segments in the order of the list
          live, \* what kmalloc has returned and its callers have not freed
          given \* the areas the heap has been given

kheapVars == <<segs, live, given>>

Segment == [at : Nat, size : Nat \ {0}, used : BOOLEAN]

SegEnd(seg) == seg.at + seg.size

\* init_kheap.
KHeapInit ==
    /\ segs = <<[at |-> Base, size |-> BaseSize, used |-> FALSE]>>
    /\ live = {} /\ given = {}
---------------------------------------------------------------------------
(* do_combine. *)

\* Mutant of Combinable: neighbours in the list are taken for neighbours in
\* memory.
CombinableAnyhow(seg, nxt) == ~seg.used /\ ~nxt.used

\* A free segment, the next in the list, lies right behind it.
Combinable(seg, nxt) == ~seg.used /\ ~nxt.used /\ SegEnd(seg) = nxt.at

\* Segments i and i + 1 become one if they can.
Joined(list, i) ==
    IF i \in 1 .. Len(list) - 1 /\ Combinable(list[i], list[i + 1])
    THEN RemoveAt([list EXCEPT ![i].size = @ + list[i + 1].size], i + 1)
    ELSE list

\* First with the next segment, then with the last.
Combine(list, i) == Joined(Joined(list, i), i - 1)
---------------------------------------------------------------------------
(* kmalloc and kfree. *)

\* The first free segment that is large enough, 0 if there is none.
Fitting(list, need) == SelectInSeq(list, LAMBDA seg : ~seg.used /\ seg.size >= need)

\* A segment allocated, cut in two when something is left over.
Cut(seg, need) ==
    IF seg.size = need THEN <<[seg EXCEPT !.used = TRUE]>>
    ELSE <<[at |-> seg.at, size |-> need, used |-> TRUE],
           [at |-> seg.at + need, size |-> seg.size - need, used |-> FALSE]>>

Allocated(list, need) ==
    LET i == Fitting(list, need)
    IN  SubSeq(list, 1, i - 1) \o Cut(list[i], need) \o SubSeq(list, i + 1, Len(list))

Block(list, bytes, need) == [at |-> list[Fitting(list, need)].at, bytes |-> bytes]

\* A new area is put at the end of the list and combined.
Grown(list, a) ==
    Combine(Append(list, [at |-> a, size |-> AreaSize, used |-> FALSE]), Len(list) + 1)

KMalloc(bytes) ==
    /\ Fitting(segs, Need(bytes)) # 0
    /\ segs' = Allocated(segs, Need(bytes))
    /\ live' = live \cup {Block(segs, bytes, Need(bytes))}
    /\ UNCHANGED given

\* A heap in which add_free_area has been given a node.
NodeTaken(h) ==
    [list |-> Allocated(h.list, Need(NodeBytes)),
     held |-> h.held \cup {Block(h.list, NodeBytes, Need(NodeBytes))}]

\* The heap grows.  The memory manager may have given two, four or eight times as much,
\* and the rest is given back in one, two or three areas, of which each takes a node.
\* Then kmalloc calls itself with the size that already has the header in it.
KMallocGrows(bytes) ==
    /\ Fitting(segs, Need(bytes)) = 0
    /\ LET need == Need(bytes + Header)
       IN  \E a \in Areas \ given :
              LET exact == [list |-> Grown(segs, a), held |-> live]
                  two   == NodeTaken(exact)
                  four  == NodeTaken(two)
                  eight == NodeTaken(four)
              IN  /\ given' = given \cup {a}
                  /\ \E h \in {exact, two, four, eight} :
                        /\ segs' = Allocated(h.list, need)
                        /\ live' = h.held \cup {Block(h.list, bytes, need)}

KFree(block) ==
    LET i == SelectInSeq(segs, LAMBDA seg : seg.at = block.at)
    IN  /\ segs' = Combine([segs EXCEPT ![i].used = FALSE], i)
        /\ live' = live \ {block}
        /\ UNCHANGED given

KHeapNext == \/ \E n \in Requests : KMalloc(n) \/ KMallocGrows(n)
        \/ \E block \in live : block.bytes \in Requests /\ KFree(block)

KHeapSpec == KHeapInit /\ [][KHeapNext]_kheapVars
---------------------------------------------------------------------------
(* Properties. *)

KHeapTypeOK == /\ segs \in Seq(Segment)
               /\ live \subseteq [at : Nat, bytes : Requests \cup {NodeBytes}]
               /\ given \subseteq Areas

Units(seg) == seg.at .. SegEnd(seg) - 1

\* The memory the heap began with and what it has been given.
HeapMemory == Base .. Base + BaseSize - 1 \cup UNION {a .. a + AreaSize - 1 : a \in given}

\* Whatever is split, combined and appended, no unit of memory is gained or
\* lost: the segments share none and are the heap's memory together.
Whole ==
    /\ \A i, j \in DOMAIN segs : i # j => Units(segs[i]) \cap Units(segs[j]) = {}
    /\ UNION {Units(segs[i]) : i \in DOMAIN segs} = HeapMemory

\* What a caller holds is the memory of a used segment that is long enough,
\* and of no other caller; a used segment is somebody's.
LiveIsUsed ==
    /\ \A b \in live : \E i \in DOMAIN segs :
          segs[i].used /\ segs[i].at = b.at /\ segs[i].size >= Need(b.bytes)
    /\ \A b, c \in live : b.at = c.at => b = c
    /\ \A i \in DOMAIN segs : segs[i].used => \E b \in live : b.at = segs[i].at

\* Freed memory does not stay in pieces: neighbours in the list that are free
\* and adjacent have been combined.
Coalesced == \A i \in 1 .. Len(segs) - 1 : ~Combinable(segs[i], segs[i + 1])

\* After every kmalloc, kfree and growth the segments describe the memory of the
\* heap: all of it, what is in use as the callers hold it, and nothing free in
\* pieces.
SegmentsDescribeHeap == Whole /\ LiveIsUsed /\ Coalesced
=============================================================================
