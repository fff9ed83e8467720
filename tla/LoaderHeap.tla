------------------------------ MODULE LoaderHeap ------------------------------
(* The heap of the loader, loader/grub_loader/lheap.c: a table of the blocks  *)
(* in use, and a search that starts at the bottom for every block.  The       *)
(* search is one action per candidate, so that theorems can speak of it.      *)
EXTENDS Integers, FiniteSets, Sequences

CONSTANTS Bottom,     \* LHEAP_BOTTOM
          Top,        \* LHEAP_TOP, where the table begins
          Slots,      \* LH_SEG_NUM
          Sizes       \* what is asked for

\* Blocks of one byte are asked for by nobody: the test for an overlap would
\* not see them.
LoaderHeapAssumption ==
    /\ Bottom \in Nat \ {0} /\ Top \in Nat /\ Slots \in Nat \ {0}
    /\ Sizes \subseteq Nat /\ \A n \in Sizes : n >= 2

VARIABLES table,      \* LHEAP_SEGMENTS: where a block starts and its last byte
          asked,      \* the size that lmalloc looks for, 0 when it is not called
          candidate,  \* i of the search
          spilled     \* a block has been given that ends in the table, the search looks
                      \* only at where one starts; what is written there is not modelled

heapVars == <<table, asked, candidate, spilled>>

NoAddress == 0
Unused == [start |-> NoAddress, last |-> NoAddress]

\* The smaller and the larger of two addresses.
Lower(a, b) == IF a < b THEN a ELSE b
Upper(a, b) == IF a > b THEN a ELSE b

HeapInit == /\ table = [i \in 1 .. Slots |-> Unused]
            /\ asked = 0 /\ candidate = Bottom /\ spilled = FALSE

Overlaps(block, base, size) == Upper(block.start, base) < Lower(block.last, base + size)

\* The table entries that __get_segment_size finds in the way; it returns the first.
InTheWay(t, base, size) == {i \in DOMAIN t : Overlaps(t[i], base, size)}

IsFirst(i, set) == i \in set /\ \A j \in set : i <= j

\* Mutant of NextCandidates: the search goes on at the last byte of the block.
NextCandidatesAtLast(t, base, size) ==
    {t[i].last : i \in {j \in DOMAIN t : IsFirst(j, InTheWay(t, base, size))}}

\* What may follow a candidate that is taken.
NextCandidates(t, base, size) == {t[i].last + 1 : i \in {j \in DOMAIN t : IsFirst(j, InTheWay(t, base, size))}}

FreeSlots(t) == {i \in DOMAIN t : t[i] = Unused}

\* __insert_lh_seg, false when the table is full.
Inserted(t, base, size) ==
    [i \in DOMAIN t |-> IF IsFirst(i, FreeSlots(t)) THEN [start |-> base, last |-> base + size - 1] ELSE t[i]]

\* __delete_lh_seg.
Deleted(t, base) ==
    [i \in DOMAIN t |-> IF IsFirst(i, {j \in DOMAIN t : t[j].start = base}) THEN Unused ELSE t[i]]

\* lmalloc is called.
Lmalloc(size) == /\ asked = 0
                 /\ asked' = size /\ candidate' = Bottom
                 /\ UNCHANGED <<table, spilled>>

\* A round of the loop in __lookup_free_mem that goes on.
LookFurther == /\ asked # 0 /\ candidate < Top
               /\ candidate' \in NextCandidates(table, candidate, asked)
               /\ UNCHANGED <<table, asked, spilled>>

\* What lmalloc returns, NULL when the search has reached the top or the table is full.
Given == IF candidate < Top /\ FreeSlots(table) # {} THEN candidate ELSE NoAddress

\* The last round of the search and the rest of lmalloc.
Give == /\ asked # 0
        /\ candidate < Top => InTheWay(table, candidate, asked) = {}
        /\ table' = IF candidate < Top THEN Inserted(table, candidate, asked) ELSE table
        /\ spilled' = (spilled \/ (Given # NoAddress /\ candidate + asked > Top))
        /\ asked' = 0 /\ UNCHANGED candidate

Lfree(i) == /\ asked = 0 /\ table[i] # Unused
            /\ table' = Deleted(table, table[i].start)
            /\ UNCHANGED <<asked, candidate, spilled>>

HeapNext == \/ \E size \in Sizes : Lmalloc(size)
            \/ LookFurther \/ Give
            \/ \E i \in 1 .. Slots : Lfree(i)

HeapSpec == HeapInit /\ [][HeapNext]_heapVars
---------------------------------------------------------------------------
LoaderHeapTypeOK == /\ table \in [1 .. Slots -> [start : Nat, last : Nat]]
                    /\ asked \in Sizes \cup {0} /\ spilled \in BOOLEAN
                    /\ candidate \in Nat /\ candidate >= Bottom

Apart(a, b) == a.last < b.start \/ b.last < a.start

\* As long as no block has been given that ends in the table, no two blocks that
\* lmalloc has given and lfree has not taken back share a byte, and each lies between
\* the bottom and the table, although the test for an overlap mixes a last byte with
\* an end and the search only tries the bottom and the places behind other blocks.
\* (__get_segment_size, __lookup_free_mem)
BlocksApart ==
    ~ spilled =>
        \A i \in 1 .. Slots : table[i] # Unused =>
            /\ Bottom <= table[i].start /\ table[i].last < Top
            /\ \A j \in 1 .. Slots : i # j /\ table[j] # Unused => Apart(table[i], table[j])
=============================================================================
