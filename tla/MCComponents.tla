---------------------------- MODULE MCComponents ----------------------------
(* The sequential components for TLC.  They share no state but through the   *)
(* calls that each of the modules has in it, so a behaviour exercises one of *)
(* them, part, while the others stay as they are.  The modules that there are *)
(* theorems about are taken in under their own names; of the others there are *)
(* instances, and one of LoaderHeap for calls in any order.                   *)
EXTENDS KHeap, MallocHeap, LoadKernel, MailRing, ThreadList, Fat32, KeyParser, RpcServer,
        Interrupts, Terminal, Console, ShowIcon, TLC

CONSTANTS Parts, part_pages, part_kheap, part_heap, part_ring, part_threads,
          part_fat, part_keys, part_tree, part_shm, part_int, part_kmod,
          part_lheap, part_long, part_serve, part_load, part_full, part_term, part_cons,
          part_log, part_icon

\* Pmm.
CONSTANTS MaxOrder, HeapOrder, Reserved, PageCounts, AllocOrders

\* MailRing: three messages, of no, one and two bytes.
CONSTANTS m0, m1, m2

MCLengthOf == m0 :> 0 @@ m1 :> 1 @@ m2 :> 2

\* ThreadList: two tasks and five places.
CONSTANTS A, B, i1, i2, i3, i4, i5

MCFirst == [k \in {A, B} |-> IF k = A THEN i1 ELSE i2]

\* SignalTree and SharedMemory, the tasks as in ThreadList.
CONSTANTS SignalLimit, Levels, Fanout, ShmStart, ShmSizes

\* KmodLoader: two segments, which meet in any way in a page or in two, and a
\* header that is not loaded between them.
KmodHeader(load, vaddr, filesz, memsz) ==
    [load |-> load, vaddr |-> vaddr, filesz |-> filesz, memsz |-> memsz]

KmodImages ==
    {<<KmodHeader(TRUE, 9, f, m), KmodHeader(FALSE, 0, 0, 0), KmodHeader(TRUE, 9 + m + gap, 1, n)>> :
         f \in {0, 2}, m \in 2 .. 12, gap \in 0 .. 2, n \in 1 .. 5}

\* As far as a link script could give them, so that pages are shared or apart.
PagesMeet(img) == \/ img[3].vaddr % 3 = 0
                  \/ img[3].vaddr \div 3 = (img[1].vaddr + img[1].memsz - 1) \div 3

\* LongMode: a memory map whose last entry ends anywhere, the end of 4 GB included.
MapEntry(available, addr, len) == [available |-> available, addr |-> addr, len |-> len]

GrubTags == {<<[type |-> "other"],
               [type |-> "mmap", entries |-> <<MapEntry(TRUE, 0, 2), MapEntry(FALSE, 2, 2),
                                               MapEntry(TRUE, addr, len)>>],
               [type |-> "framebuffer", framebuffer |-> 7]>> :
                 addr \in {4, 9, 60}, len \in 0 .. 30 \ {1, 2, 3}}

\* RpcServer: a function of one size, one of any size, and one that a caller knows
\* with another size.
MCRegistered == <<[func |-> 0, args_size |-> 5, return_size |-> 1, gives |-> 1],
                  [func |-> 2, args_size |-> -1, return_size |-> 1, gives |-> 1],
                  [func |-> 3, args_size |-> 9, return_size |-> 1, gives |-> 1]>>

\* LoadKernel: partitions that hold the files or do not, of two and three sectors, and
\* a kernel of two segments and a header that is not loaded.
MCContents == [label : {"fat32", "other"}, root : {1}, kernel : {0, 2}, setup : {0, 3}]

MCSegments == <<[load |-> TRUE, start |-> 100, limit |-> 110],
                [load |-> FALSE, start |-> 0, limit |-> 0],
                [load |-> TRUE, start |-> 110, limit |-> 125]>>

\* Console: a line that is ended, and one that is taken back.
MCStrings == {<<c, "newline">> : c \in Printables} \cup {<<"backspace", c>> : c \in Printables}

\* Output: what the loader, init, the terminal and the setup service say, of the
\* kinds "%#04X%03d", "%s%+d", "%0*d" and "%s:%p".
Says(ty, flags, width) == [ty |-> ty, flags |-> flags, star |-> FALSE, width |-> width]

LogFormats == [loader |-> {<<Says("x", {"0", "#"}, 2)>>},
               init   |-> {<<Says("x", {"0", "#"}, 4), Says("d", {"0"}, 3)>>},
               tty    |-> {<<Says("s", {}, 0), Says("d", {"+"}, 0)>>,
                           <<[Says("d", {"0"}, 0) EXCEPT !.star = TRUE]>>},
               setup  |-> {<<Says("s", {}, 0), Says("literal", {":"}, 0), Says("p", {}, 0)>>}]

VARIABLES part,                                         \* what this behaviour exercises
          managed, free_pages, held, exhausted,         \* Pmm
          tree, cur_id,                                 \* SignalTree
          tables, pgd, used, shm_ptr, regions,          \* SharedMemory
          image, header, task, mapped, given_pages, contents, start, end,
          heap_bottom,                                  \* KmodLoader
          tags, memsz, framebuffer, stage, entry, page_entries, args, registers,
          interrupts, lines,                            \* LongMode
          segments, looked_for, place_tried, over,      \* LoaderHeap
          booted, text, ready, logging_name, port, arrived, logged   \* Output

pagesVars   == <<managed, free_pages, held, exhausted>>
treeVars    == <<tree, cur_id>>
shmVars     == <<tables, pgd, used, shm_ptr, regions>>
kmodVars    == <<image, header, task, mapped, given_pages, contents, start, end, heap_bottom>>
longVars    == <<tags, memsz, framebuffer, stage, entry, page_entries, args, registers, interrupts, lines>>
lheapVars   == <<segments, looked_for, place_tried, over>>
logVars     == <<booted, text, ready, logging_name, port, arrived, logged>>

vars == <<part, pagesVars, kheapVars, mallocVars, ringVars, listVars, fatVars, keysVars,
          treeVars, shmVars, intVars, kmodVars, lheapVars, longVars, serveVars, loaderVars,
          terminalVars, consoleVars, logVars, iconVars>>

Pmm   == INSTANCE Pmm WITH free <- free_pages
Tree  == INSTANCE SignalTree WITH NoSignal <- NULL
Shm   == INSTANCE SharedMemory WITH Absent <- NULL, Sizes <- ShmSizes
Kmod  == INSTANCE KmodLoader WITH
             PageSize <- 3, PageOrder <- 2, Images <- {img \in KmodImages : PagesMeet(img)},
             StackTop <- 99, StackPages <- 3, HeapPages <- 5, KernelPages <- 3,
             next  <- header, stage <- task, used <- given_pages, bytes <- contents
Long  == INSTANCE LongMode WITH
             Tags <- GrubTags, PageSize <- 2, PerTable <- 2, Tables <- 50, Lost <- 3,
             Word <- 64, VBE_ENABLE <- TRUE, TextBuffer <- 3, written <- page_entries
Heap  == INSTANCE LoaderHeap WITH
             Bottom <- 1, Top <- 9, Slots <- 4, Sizes <- {2, 3, 5},
             table  <- segments, asked <- looked_for, candidate <- place_tried,
             spilled <- over
Full  == INSTANCE LoadKernel WITH Top <- 18
Log   == INSTANCE Output WITH
             KernelWriters <- {"init"}, ModuleWriters <- {"tty"}, SetupWriters <- {"setup"},
             Loader <- "loader", Formats <- LogFormats,
             Slots  <- [loader |-> {5}, init |-> {43}, tty |-> {5, 2}, setup |-> {43}],
             Bits   <- 3, DEC <- 3, HEX <- 4, PointerDigits <- 3, FifoSize <- 2, LineLimit <- 2,
             free   <- ready

ASSUME Assumptions ==
    /\ Pmm!PmmAssumption /\ KHeapAssumption /\ MallocAssumption
    /\ Fat32Assumption /\ KeyParserAssumption
    /\ Tree!SignalTreeAssumption /\ Shm!SharedMemoryAssumption
    /\ InterruptsAssumption /\ Kmod!KmodLoaderAssumption /\ Heap!LoaderHeapAssumption
    /\ Long!LongModeAssumption /\ RpcServerAssumption /\ LoadKernelAssumption
    /\ Log!OutputAssumption
    /\ Parts \subseteq {part_pages, part_kheap, part_heap, part_ring, part_threads,
                        part_fat, part_keys, part_tree, part_shm, part_int, part_kmod,
                        part_lheap, part_long, part_serve, part_load, part_full, part_term, part_cons,
                        part_log, part_icon}

\* Where a part has several initial states, the others begin with one of them.
MCInit ==
        /\ part \in Parts
        /\ part # part_fat   => owner = [c \in Clusters |-> Root]
        /\ part # part_kmod  => image = CHOOSE img \in KmodImages : PagesMeet(img)
        /\ part # part_long  => tags = CHOOSE t \in GrubTags : TRUE
        /\ part # part_serve => server = "module"
        /\ part # part_pages => managed = Max(PageCounts)
        /\ part \notin {part_load, part_full} => disk = [p \in 1 .. Partitions |-> CHOOSE c \in MCContents : TRUE]
        /\ Pmm!Init /\ KHeapInit /\ MallocInit /\ RingInit /\ ListInit
        /\ KeysInit /\ Tree!Init /\ Shm!Init /\ FatInit /\ IntInit /\ Kmod!Init
        /\ Heap!HeapInit /\ Long!Init /\ ServeInit /\ LoadInit
        /\ TerminalInit /\ ConsoleInit /\ Log!Init /\ IconInit

\* The part takes a step, the others keep what they have.
MCNext ==
        /\ UNCHANGED part
        /\ IF part = part_pages   THEN Pmm!Next           ELSE UNCHANGED pagesVars
        /\ IF part = part_kheap   THEN KHeapNext          ELSE UNCHANGED kheapVars
        /\ IF part = part_heap    THEN MallocNext         ELSE UNCHANGED mallocVars
        /\ IF part = part_ring    THEN RingNext           ELSE UNCHANGED ringVars
        /\ IF part = part_threads THEN ListNext           ELSE UNCHANGED listVars
        /\ IF part = part_fat     THEN FatNext            ELSE UNCHANGED fatVars
        /\ IF part = part_keys    THEN KeysNext           ELSE UNCHANGED keysVars
        /\ IF part = part_tree    THEN Tree!Next          ELSE UNCHANGED treeVars
        /\ IF part = part_shm     THEN Shm!Next           ELSE UNCHANGED shmVars
        /\ IF part = part_int     THEN IntNext            ELSE UNCHANGED intVars
        /\ IF part = part_kmod    THEN Kmod!Next          ELSE UNCHANGED kmodVars
        /\ IF part = part_lheap   THEN Heap!HeapNext      ELSE UNCHANGED lheapVars
        /\ IF part = part_long    THEN Long!Next          ELSE UNCHANGED longVars
        /\ IF part = part_serve   THEN ServeNext          ELSE UNCHANGED serveVars
        /\ CASE part = part_load   -> LoadNext
             [] part = part_full   -> Full!LoadNext
             [] OTHER              -> UNCHANGED loaderVars
        /\ IF part = part_term    THEN TerminalNext       ELSE UNCHANGED terminalVars
        /\ IF part = part_cons    THEN ConsoleNext        ELSE UNCHANGED consoleVars
        /\ IF part = part_log     THEN Log!Next           ELSE UNCHANGED logVars
        /\ IF part = part_icon    THEN IconNext           ELSE UNCHANGED iconVars

MCSpec == MCInit /\ [][MCNext]_vars
---------------------------------------------------------------------------
\* The properties of the parts, under their names and with the comments they
\* have there; those that are not here are those of the modules taken in, which
\* hold while another part is exercised too.

\* The types of every part: among them, that the free chunks of malloc are in the order
\* of their addresses, and that nothing is written behind the ring of a mailbox (insert
\* of a freed chunk, put_msg).  They do not say where a block of an allocator ends, which
\* SegmentsDescribeHeap and BlocksKeptApart do for kmalloc and lmalloc.
TypeOK == /\ part = part_pages   => Pmm!PmmTypeOK
          /\ part = part_kheap   => KHeapTypeOK
          /\ part = part_heap    => MallocTypeOK
          /\ part = part_ring    => RingTypeOK
          /\ part = part_threads => ThreadListTypeOK
          /\ part = part_fat     => Fat32TypeOK
          /\ part = part_keys    => KeyParserTypeOK
          /\ part = part_tree    => Tree!SignalTreeTypeOK
          /\ part = part_shm     => Shm!SharedMemoryTypeOK
          /\ part = part_int     => InterruptsTypeOK
          /\ part = part_kmod    => Kmod!KmodLoaderTypeOK
          /\ part = part_lheap   => Heap!LoaderHeapTypeOK
          /\ part = part_long    => Long!LongModeTypeOK
          /\ part = part_serve   => RpcServerTypeOK
          /\ part = part_load    => LoadKernelTypeOK
          /\ part = part_full    => Full!LoadKernelTypeOK
          /\ part = part_term    => TerminalTypeOK
          /\ part = part_cons    => ConsoleTypeOK
          /\ part = part_log     => Log!OutputTypeOK
          /\ part = part_icon    => ShowIconTypeOK

\* Pmm: where init_pmm cuts the memory without overlap no page is in two areas, or in
\* an area and handed out, and elsewhere none is there more often than init_pmm has
\* put it there, until the memory is used up (alloc_pages, return_pages, init_pmm).
PagesOnce == part = part_pages => Pmm!PagesOnce

\* LoaderHeap: in whatever order blocks are taken and given back, no byte is in two of
\* them, and until one is given that ends in the table all lie below it (lmalloc, lfree).
BlocksKeptApart == /\ part = part_lheap => Heap!BlocksApart
                   /\ part = part_load  => BlocksApart
                   /\ part = part_full  => Full!BlocksApart

\* SignalTree: get_signal finds every semaphore in a balanced tree.
SignalsAreFound == part = part_tree => Tree!SignalsAreFound

\* SharedMemory and LongMode: what share_memory maps stays mapped to the pages it
\* stands for, and when paging is switched on every page of the memory the kernel is
\* told of is mapped to itself (parse_mem_info, setup_paging, goto_longmode).
PagesAreMapped == /\ part = part_shm  => Shm!RegionsLeadToTheirPages
                  /\ part = part_long => Long!MemoryIsMapped

\* KmodLoader and LoadKernel: the image, the bss, the heap and the stack of a task are
\* where they have to be before it runs (load_segment, __create_task), and the space
\* the kernel is said to take holds every segment of it (load_elf).
ImageIsComplete == /\ part = part_kmod => Kmod!ImageIsComplete
                   /\ SpaceHoldsKernel

\* Output: every line of the log goes out whole and says what it was given to say
\* (write_serial_char, vsprintk).
LoggedIsSent == part = part_log => Log!LoggedIsSent
=============================================================================
