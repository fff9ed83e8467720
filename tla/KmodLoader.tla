----------------------------- MODULE KmodLoader -----------------------------
(* How a module gets its address space: kernel/kmod_loader.c loads the        *)
(* segments of its ELF image, create_task (task_manager.c) adds the first     *)
(* stack and the heap, with the page-wise functions of memory/pmm.c.          *)
(*                                                                           *)
(* Addresses are bytes, a page has PageSize of them.  The page tables are    *)
(* the function mapped, which SharedMemory shows set_mapping to keep up, and  *)
(* the pages that alloc_pages gives are new ones, as Pmm shows.               *)
EXTENDS Naturals, FiniteSets, Sequences, SequencesExt, Functions, TLC

CONSTANTS PageSize,     \* MEMUNIT_SZ
          PageOrder,    \* MAX_ORDER
          Images,       \* the program headers of the images that are loaded
          StackTop,     \* KMOD_STACK_TOP
          StackPages,   \* THREAD_INIT_STACK_SIZE
          HeapPages,    \* TASK_INIT_HEAP_SIZE
          KernelPages   \* RESERVED_LIMIT

\* A header says whether the segment is loaded (PT_LOAD), where to, how many
\* bytes of it are in the file and how many it has in memory.
ProgramHeader == [load : BOOLEAN, vaddr : Nat, filesz : Nat, memsz : Nat]

PageOf(addr) == addr \div PageSize

\* What the link scripts of the modules give: the segments follow each other, and
\* each begins with a page or in the page in which the one before it ends; the
\* image lies above the kernel and far enough below the stack.
LinkedAsModule(image) ==
    LET loaded == SelectSeq(image, LAMBDA h : h.load)
    IN  /\ \A i \in DOMAIN loaded :
               LET h == loaded[i]
               IN  /\ h.filesz <= h.memsz /\ h.memsz > 0
                   /\ h.vaddr >= KernelPages * PageSize
                   /\ h.vaddr + h.memsz + (4 + HeapPages + StackPages) * PageSize <= StackTop
        /\ \A i \in 1 .. Len(loaded) - 1 : loaded[i].vaddr + loaded[i].memsz <= loaded[i + 1].vaddr
        /\ \A i \in DOMAIN loaded :
               \/ loaded[i].vaddr % PageSize = 0
               \/ i > 1 /\ PageOf(loaded[i].vaddr) = PageOf(loaded[i - 1].vaddr
                                                              + loaded[i - 1].memsz - 1)

KmodLoaderAssumption ==
    /\ PageSize \in Nat \ {0} /\ StackTop % PageSize = 0
    /\ \A image \in Images : image \in Seq(ProgramHeader) /\ LinkedAsModule(image)

VARIABLES image,       \* the image in the buffer
          next,        \* the header that is loaded next
          stage,       \* how far the task is
          mapped,      \* the page tables: from virtual pages to pages
          used,        \* the last page that alloc_pages has given
          bytes,       \* what the bytes of the pages hold
          start, end,  \* program_info, start and end
          heap_bottom

vars == <<image, next, stage, mapped, used, bytes, start, end, heap_bottom>>

TopAddress == 10 * StackTop      \* stands for 0xFFFFFFFFFFFFFFFF

Less(a, b) == IF a < b THEN a ELSE b
More(a, b) == IF a > b THEN a ELSE b

Init == /\ image \in Images
        /\ next = 1 /\ stage = "segments"
        /\ mapped = <<>> /\ used = KernelPages /\ bytes = <<>>
        /\ start = TopAddress /\ end = 0 /\ heap_bottom = 0
---------------------------------------------------------------------------
(* pmm.c, on the record m of mapped, used and bytes. *)

Memory == [mapped |-> mapped, used |-> used, bytes |-> bytes]

\* The sizes in which alloc_vpages takes n pages: the powers of two in n below
\* the highest order, and as often as needed that one.
Pieces(n) == [i \in 1 .. PageOrder |-> IF (n \div 2 ^ (i - 1)) % 2 = 1 THEN 2 ^ (i - 1) ELSE 0]
             \o [i \in 1 .. n \div 2 ^ PageOrder |-> 2 ^ PageOrder]

\* alloc_pages and set_mapping of one piece; w is the memory m and the virtual
\* page at which the piece goes.
MapPiece(w, n) ==
    [m  |-> [w.m EXCEPT !.mapped = [v \in w.at .. w.at + n - 1 |-> w.m.used + 1 + v - w.at] @@ @,
                        !.used = @ + n],
     at |-> w.at + n]

\* alloc_vpages: n pages from the page of addr on.
AllocVpages(m, addr, n) == FoldLeft(MapPiece, [m |-> m, at |-> PageOf(addr)], Pieces(n)).m

\* get_physical_address: what is not mapped is the address 0.
PhysicalAddress(m, addr) ==
    IF PageOf(addr) \in DOMAIN m.mapped THEN <<m.mapped[PageOf(addr)], addr % PageSize>>
    ELSE <<0, 0>>

\* A byte of the file is known by its segment and its place in it.
Cleared == <<0, 0>>

\* pvmemcpy and vmemset go byte by byte, each through the page tables.
PutByte(m, addr, value) == [m EXCEPT !.bytes = (PhysicalAddress(m, addr) :> value) @@ @]
Pvmemcpy(m, addr, segment, n) ==
    FoldLeft(LAMBDA x, b : PutByte(x, addr + b - 1, <<segment, b - 1>>), m, [b \in 1 .. n |-> b])
Vmemset(m, addr, n) ==
    FoldLeft(LAMBDA x, b : PutByte(x, addr + b - 1, Cleared), m, [b \in 1 .. n |-> b])
---------------------------------------------------------------------------
(* kmod_loader.c. *)

\* Mutant of PagesOf: the part that is not in the file gets no pages.
PagesOfFile(h) == (h.filesz + PageSize - 1) \div PageSize

PagesOf(h) == (h.memsz + PageSize - 1) \div PageSize

\* Rounded up: a segment that begins within a page finds that one mapped.
FirstPage(h) == ((h.vaddr + PageSize - 1) \div PageSize) * PageSize

\* load_program.
LoadProgram(m, i) ==
    LET h      == image[i]
        backed == AllocVpages(m, FirstPage(h), PagesOf(h))
        copied == Pvmemcpy(backed, h.vaddr, i, h.filesz)
    IN  Vmemset(copied, h.vaddr + h.filesz, h.memsz - h.filesz)

Becomes(m) == mapped' = m.mapped /\ used' = m.used /\ bytes' = m.bytes

\* One round of the loop in load_kmod_from_memory.
LoadSegment ==
    /\ stage = "segments" /\ next <= Len(image)
    /\ next' = next + 1
    /\ LET h == image[next]
       IN  IF h.load
           THEN /\ Becomes(LoadProgram(Memory, next))
                /\ start' = Less(start, h.vaddr)
                /\ end' = More(end, h.vaddr + h.memsz)
           ELSE UNCHANGED <<mapped, used, bytes, start, end>>
    /\ UNCHANGED <<image, stage, heap_bottom>>

\* Two pages after the end, at the beginning of a page.
HeapBottom == ((end + 2 * PageSize + PageSize - 1) \div PageSize) * PageSize

\* Its end, mapping_kernel included.
FinishImage ==
    /\ stage = "segments" /\ next > Len(image)
    /\ stage' = "image"
    /\ heap_bottom' = HeapBottom
    /\ mapped' = [v \in 0 .. KernelPages - 1 |-> v] @@ mapped
    /\ UNCHANGED <<image, next, used, bytes, start, end>>

\* __create_task: the first pages of the stack, and the heap.
CreateTask ==
    /\ stage = "image"
    /\ stage' = "task"
    /\ LET stack == AllocVpages(Memory, StackTop - StackPages * PageSize, StackPages)
       IN  Becomes(AllocVpages(stack, heap_bottom, HeapPages))
    /\ UNCHANGED <<image, next, start, end, heap_bottom>>

Next == LoadSegment \/ FinishImage \/ CreateTask

Spec == Init /\ [][Next]_vars
---------------------------------------------------------------------------
KmodLoaderTypeOK == /\ next \in 1 .. Len(image) + 1
                    /\ stage \in {"segments", "image", "task"}
                    /\ \A v \in DOMAIN mapped : mapped[v] \in 0 .. used
                    /\ start \in Nat /\ end \in Nat /\ heap_bottom \in Nat

\* What the module finds when it starts: every byte of every segment as the
\* file has it or cleared, memory of its own behind every address of the image,
\* the heap and the stack, and nothing written outside.  (load_program,
\* load_kmod_from_memory, __create_task, alloc_vpages)
ImageIsComplete ==
    stage = "task" =>
        /\ \A i \in DOMAIN image : image[i].load =>
               \A b \in 0 .. image[i].memsz - 1 :
                   LET at == PhysicalAddress(Memory, image[i].vaddr + b)
                   IN  at \in DOMAIN bytes /\ bytes[at] = IF b < image[i].filesz THEN <<i, b>> ELSE Cleared
        /\ \A n \in 0 .. HeapPages - 1 : PageOf(heap_bottom) + n \in DOMAIN mapped
        /\ \A n \in 1 .. StackPages : PageOf(StackTop) - n \in DOMAIN mapped
        /\ IsInjective(mapped)
        /\ \A at \in DOMAIN bytes : at[1] >= KernelPages
=============================================================================
