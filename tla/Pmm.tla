-------------------------------- MODULE Pmm --------------------------------
(* The physical memory manager, kernel/memory/pmm.c, and the way the kernel *)
(* heap (kheap.c) takes its memory from it.  Free memory is kept in areas   *)
(* of 2^order pages, one list per order.  The nodes of the lists come from  *)
(* the heap, which itself asks for an area when it is full: giving an area  *)
(* back may take another one in the middle.                                 *)
(*                                                                          *)
(* What is in the heap is abstracted: any kmalloc may find it full, except  *)
(* right after it has grown.  Addresses are page numbers.                   *)
EXTENDS Integers, Sequences, FiniteSets, FiniteSetsExt

CONSTANTS MaxOrder,    \* MAX_ORDER
          HeapOrder,   \* ALLOC_PAGE_ORDER of kheap.c
          Reserved,    \* the first page that is not reserved
          PageCounts,  \* how many pages there may be from there on
          AllocOrders  \* the orders alloc_pages is called with

Orders == 0 .. MaxOrder

PmmAssumption ==
    /\ MaxOrder \in Nat /\ HeapOrder \in Orders /\ AllocOrders \subseteq Orders
    /\ Reserved \in Nat /\ PageCounts \subseteq Nat /\ IsFiniteSet(PageCounts)

VARIABLES managed,   \* how many pages there are
          free,      \* the pages at which the areas of each list start
          held,      \* how often each page has been handed out: nobody gives any back
          exhausted  \* bound: alloc_pages has found no area; nothing is done after that

vars == <<managed, free, held, exhausted>>

AllPages == 0 .. Reserved + Max(PageCounts) + 2 ^ (MaxOrder + 1)

Area(p, order) == p .. p + 2 ^ order - 1

\* add_free_area when the heap has room for the node, for several areas, one
\* of each order.
Added(f, start, orders) ==
    [o \in Orders |-> IF o \in orders THEN Append(f[o], start[o]) ELSE f[o]]

\* pages cut into powers of two, the smallest first: which orders there are
\* and where the area of each starts.
Bits(pages)        == {o \in 0 .. MaxOrder - 1 : ((pages \div 2 ^ o) % 2) = 1}
Starts(p, pages)   == [o \in Orders |-> p + (pages % 2 ^ o)]
---------------------------------------------------------------------------
(* __alloc_free_pages. *)

HasArea(f, order) == \E o \in Orders : o >= order /\ f[o] # <<>>

\* What __alloc_free_pages returns: the order of the list the area is taken
\* from and its first page, both 0 when there is none, which nobody checks.
Given(f, order)   == IF HasArea(f, order)
                     THEN Min({o \in Orders : o >= order /\ f[o] # <<>>}) ELSE 0
Address(f, order) == IF HasArea(f, order) THEN Head(f[Given(f, order)]) ELSE 0

\* Mutant of Taken: the area stays in its list.
TakenNot(f, order) == f

Taken(f, order) ==
    IF HasArea(f, order) THEN [f EXCEPT ![Given(f, order)] = Tail(@)] ELSE f

\* What is given back: where it starts and how many pages, less than none
\* when there was no area.
SurplusAt(f, order)    == Address(f, order) + 2 ^ order
SurplusPages(f, order) == 2 ^ Given(f, order) - 2 ^ order

\* kmalloc finds the heap full: it takes an area of HeapOrder and gives back
\* what is over.
Grown(f) == Added(Taken(f, HeapOrder),
                  Starts(SurplusAt(f, HeapOrder), SurplusPages(f, HeapOrder)),
                  Bits(SurplusPages(f, HeapOrder)))

\* The pages an allocation of this order hands out.
HandedOut(f, order) == IF HasArea(f, order) THEN Area(Address(f, order), order) ELSE {}

Handed(h, pages) == [p \in AllPages |-> h[p] + IF p \in pages THEN 1 ELSE 0]
---------------------------------------------------------------------------
(* return_pages. *)

\* add_free_area when the heap is full.  It has read the head and the tail
\* before kmalloc changes the list and hangs the node on what it has read:
\* what has come to the list meanwhile is cut off, and the node is lost with
\* the tail when the tail has just been taken.
AddedGrowing(f, order, p) ==
    LET g    == Grown(f)
        rest == Taken(f, HeapOrder)[order]
    IN  IF f[order] # <<>> /\ rest = <<>> THEN g
        ELSE [g EXCEPT ![order] = Append(rest, p)]

\* return_pages(at, pages) when the heap is full at the node for order full;
\* NeverFull when it is not.
NeverFull == MaxOrder + 1

\* The lists when return_pages comes to this order.
Before(f, at, pages, order) ==
    Added(f, Starts(at, pages), {o \in Bits(pages) : o < order})

Returned(f, at, pages, full) ==
    LET low   == Before(f, at, pages, full)
        start == Starts(at, pages)
    IN  IF full = NeverFull THEN low
        ELSE Added(AddedGrowing(low, full, start[full]), start,
                   {o \in Bits(pages) : o > full})
---------------------------------------------------------------------------
\* The loops of init_pmm, which cuts the pages into powers of two.  The first loop moves
\* on by two pages whatever the order is.
InitAt(pages, o) == Reserved + 2 * Cardinality({b \in Bits(pages) : b < o})

InitPmm(pages) ==
    [o \in Orders |-> IF o < MaxOrder THEN IF o \in Bits(pages) THEN <<InitAt(pages, o)>> ELSE <<>>
                      ELSE [n \in 1 .. pages \div 2 ^ MaxOrder |->
                               InitAt(pages, MaxOrder) + (n - 1) * 2 ^ MaxOrder]]

Init == /\ managed \in PageCounts
        /\ free = InitPmm(managed)
        /\ held = [p \in AllPages |-> 0] /\ exhausted = FALSE

\* alloc_pages.  full is where in return_pages the heap is found full.
AllocPages(order) ==
    LET at    == SurplusAt(free, order)
        pages == SurplusPages(free, order)
        f     == Taken(free, order)
        mine  == Handed(held, HandedOut(free, order))
    IN  \/ /\ free' = Returned(f, at, pages, NeverFull)
           /\ held' = mine
           /\ exhausted' = ~ HasArea(free, order)
        \/ \E full \in Bits(pages) :
              LET low == Before(f, at, pages, full)
              IN  /\ free' = Returned(f, at, pages, full)
                  /\ held' = Handed(mine, HandedOut(low, HeapOrder))
                  /\ exhausted' = (~ HasArea(free, order) \/ ~ HasArea(low, HeapOrder))

\* Some other kmalloc finds the heap full.
HeapGrows ==
    /\ free' = Grown(free)
    /\ held' = Handed(held, HandedOut(free, HeapOrder))
    /\ exhausted' = ~ HasArea(free, HeapOrder)

Next == /\ ~ exhausted /\ UNCHANGED managed
        /\ HeapGrows \/ \E order \in AllocOrders : AllocPages(order)

Spec == Init /\ [][Next]_vars
---------------------------------------------------------------------------
(* Properties. *)

PmmTypeOK == /\ free \in [Orders -> Seq(AllPages)] /\ held \in [AllPages -> Nat]
             /\ managed \in PageCounts /\ exhausted \in BOOLEAN

\* How often a page is in the lists.
Listed(f, p) == MapThenSumSet(LAMBDA o : Cardinality({n \in DOMAIN f[o] : p \in Area(f[o][n], o)}),
                              Orders)

\* However full the heap is found in the middle of a call, a page is in the lists and
\* in somebody's hands no more often in all than init_pmm has put it into the lists.
NotGivenAgain ==
    LET init == InitPmm(managed)
    IN  \A p \in AllPages : Listed(free, p) + held[p] <= Listed(init, p)

\* The pages for which init_pmm cuts the memory without overlap.
CutApart == \A o \in Bits(managed) : o = 1

\* For such a number of pages each is in one area or in the hands of one, and it is
\* one that there is; for others init_pmm has areas that overlap or that end behind
\* the memory (start += MEMUNIT_SZ << 1), and alloc_pages gives them out once each.
\* All this until alloc_pages has found no area, which it does not look for.
PagesOnce ==
    ~ exhausted =>
        /\ NotGivenAgain
        /\ CutApart => \A p \in AllPages : Listed(free, p) + held[p] > 0 =>
              /\ p \in Reserved .. Reserved + managed - 1 /\ Listed(free, p) + held[p] = 1
=============================================================================
