------------------------------ MODULE LoadKernel ------------------------------
(* How the loader finds the kernel and the setup module on the disk,          *)
(* lm/load_kernel.c, fs/common.c, fs/fat32.c and disk.c of                    *)
(* loader/grub_loader, in the memory that LoaderHeap gives it.                *)
(*                                                                           *)
(* Memory is counted in halves of a sector.  A sector of a file is known by   *)
(* its partition, its file and its place in it, and Fat32 shows that a file   *)
(* is read along its chain.  The disk answers every command.                  *)
EXTENDS LoaderHeap, SequencesExt, Functions

CONSTANTS Partitions,    \* how many are tried
          Contents,      \* what a partition can hold
          KernelRoom,    \* sectors in KERNEL_BIN_SIZE
          SetupRoom,     \* sectors in SETUP_MOD_SIZE
          RootRoom,      \* sectors in the buffer of the root directory
          FatRoom,       \* FAT_BUFFER_SECTORS
          Segments,      \* the program headers of the kernel
          LastAddress    \* 0xFFFFFFFF, the space before a segment is loaded

\* The file system's name, and how many sectors each file has, 0 if it is not there.
Content == [label : {"fat32", "other"}, root : Nat, kernel : Nat, setup : Nat]
KernelSegment == [load : BOOLEAN, start : Nat, limit : Nat]

SectorSize == 2     \* the size of one
ContextSize == 2    \* the size of a FAT32_CONTEXT

\* The files fit into their buffers, which nothing in the loader tests; every
\* partition has a file system, and the memory that lmalloc gives is cleared, as
\* load_fat32_fs uses the disk selector in it before it sets it.
LoadKernelAssumption ==
    /\ LoaderHeapAssumption /\ Partitions \in Nat \ {0}
    /\ {KernelRoom, SetupRoom, RootRoom, FatRoom} \subseteq Nat
    /\ Contents \subseteq Content
    /\ \A c \in Contents : c.root <= RootRoom /\ c.kernel <= KernelRoom /\ c.setup <= SetupRoom
    /\ Segments \in Seq(KernelSegment) /\ LastAddress \in Nat
    /\ \A n \in DOMAIN Segments : Segments[n].limit <= LastAddress
    /\ {SectorSize, ContextSize, KernelRoom * SectorSize, SetupRoom * SectorSize,
        RootRoom * SectorSize, FatRoom * SectorSize} \subseteq Sizes

VARIABLES disk,      \* what the partitions hold
          partition, \* i in load_kernel
          todo,      \* the calls up to the next decision
          blocks,    \* the pointers to the blocks in use
          filled,    \* what has been written, by address
          status,    \* what the two calls of load_file gave
          result,    \* the load_result_struct
          denied     \* lmalloc has returned NULL, which nobody looks for

loadVars == <<disk, partition, todo, blocks, filled, status, result, denied>>
loaderVars == <<heapVars, loadVars>>

None == [status |-> "none"]
Failed == [status |-> "false"]

\* The calls: a block taken or given back, a file read into a block.
TakeCall(name, size)    == [do |-> "lmalloc", block |-> name, size |-> size]
GiveBackCall(name)      == [do |-> "lfree", block |-> name, size |-> 0]
ReadFile(file)          == [do |-> "read", block |-> file, size |-> 0]

\* disk.c: the partition table is the first sector of the disk.
GetPartition == <<TakeCall("table", SectorSize), GiveBackCall("table")>>

\* get_fs_type.
GetFsType == GetPartition \o <<TakeCall("superblock", SectorSize), GiveBackCall("superblock")>>

LoadFat32Fs == <<TakeCall("superblock", SectorSize), TakeCall("context", ContextSize)>> \o GetPartition
               \o <<TakeCall("root", RootRoom * SectorSize),
                    TakeCall("fat", FatRoom * SectorSize), ReadFile("root"), GiveBackCall("superblock")>>

TerminateFat32Fs == <<GiveBackCall("root"), GiveBackCall("fat"), GiveBackCall("context")>>

LoadInit ==
    /\ HeapInit
    /\ disk \in [1 .. Partitions -> Contents] /\ partition = 1
    /\ todo = <<TakeCall("kernel", KernelRoom * SectorSize),
                TakeCall("setup", SetupRoom * SectorSize)>> \o GetFsType
    /\ blocks = [name \in {} |-> NoAddress] /\ filled = [a \in {} |-> <<>>]
    /\ status = <<>> /\ result = None /\ denied = FALSE
---------------------------------------------------------------------------
Searching == asked # 0
Calls(what) == todo # <<>> /\ ~ Searching /\ Head(todo).do = what

CallLmalloc == /\ Calls("lmalloc") /\ Lmalloc(Head(todo).size)
               /\ UNCHANGED loadVars

SearchOn == LookFurther /\ UNCHANGED loadVars

\* lmalloc returns a block or NULL, which the loader uses and gives back like a block.
LmallocReturns ==
    /\ Give
    /\ blocks' = [name \in DOMAIN blocks \cup {Head(todo).block} |->
                      IF name = Head(todo).block THEN Given ELSE blocks[name]]
    /\ todo' = Tail(todo)
    /\ denied' = (denied \/ Given = NoAddress)
    /\ UNCHANGED <<disk, partition, filled, status, result>>

CallLfree ==
    /\ Calls("lfree")
    /\ table' = Deleted(table, blocks[Head(todo).block])
    /\ blocks' = Restrict(blocks, DOMAIN blocks \ {Head(todo).block})
    /\ todo' = Tail(todo)
    /\ UNCHANGED <<asked, candidate, spilled, disk, partition, filled, status, result, denied>>

\* read_sector, of sector n of a file; it waits for the disk and can not fail.
SectorRead(file, n) == <<partition, file, n>>

\* load_fat32_file, and __load_file for the root directory: sector by sector.
ReadSectors ==
    /\ Calls("read")
    /\ LET file  == Head(todo).block
           at    == blocks[file]
           count == disk[partition][file]
           into  == {at + SectorSize * n : n \in 0 .. count - 1}
       IN  /\ filled' = [a \in DOMAIN filled \cup into |->
                            IF a \in into THEN SectorRead(file, (a - at) \div SectorSize) ELSE filled[a]]
           /\ status' = IF file = "root" THEN <<>> ELSE Append(status, count > 0)
    /\ todo' = Tail(todo)
    /\ UNCHANGED <<heapVars, disk, partition, blocks, result, denied>>
---------------------------------------------------------------------------
Decides(step) == todo = <<>> /\ ~ Searching /\ result = None /\ step

Mounted == "context" \in DOMAIN blocks

\* strcmp says how the names differ: every name but "fat32" is taken for FAT32.
IsFat32 == disk[partition].label # "fat32"

\* The partition that is tried next, or the end of load_kernel.
TryNext(calls) ==
    /\ partition' = partition + 1
    /\ todo' = calls \o IF partition < Partitions THEN GetFsType
                        ELSE <<GiveBackCall("kernel"), GiveBackCall("setup")>>
    /\ status' = <<>>
    /\ result' = IF partition < Partitions THEN None ELSE Failed

\* load_fs has the type: load_fat32_fs and the two files, or the next partition.
LoadFs ==
    /\ Decides(~ Mounted)
    /\ IF IsFat32
       THEN /\ todo' = LoadFat32Fs \o <<ReadFile("kernel"), ReadFile("setup")>>
            /\ UNCHANGED <<partition, status, result>>
       ELSE TryNext(<<>>)
    /\ UNCHANGED <<heapVars, disk, blocks, filled, denied>>

\* Mutant of BothLoaded: status is set by the second call instead of &=.
LastLoaded == status[2]

BothLoaded == status[1] /\ status[2]

\* load_elf, of a kernel that has been read.
LoadElf == FoldLeft(LAMBDA r, s : IF s.load THEN [start |-> Lower(r.start, s.start), limit |-> Upper(r.limit, s.limit)]
                                  ELSE r,
                    [start |-> LastAddress, limit |-> NoAddress], Segments)

Sectors(name, count) == [n \in 1 .. count |-> filled[blocks[name] + SectorSize * (n - 1)]]

\* What load_elf copies, and what the kernel finds at setup_mod.
Loaded == [status |-> "true", kernel |-> Sectors("kernel", disk[partition].kernel),
           space |-> LoadElf, setup |-> blocks["setup"]]

TryFiles ==
    /\ Decides(Mounted)
    /\ IF BothLoaded
       THEN /\ result' = Loaded
            /\ todo' = TerminateFat32Fs \o <<GiveBackCall("kernel")>>
            /\ UNCHANGED <<partition, status>>
       ELSE TryNext(TerminateFat32Fs)
    /\ UNCHANGED <<heapVars, disk, blocks, filled, denied>>

LoadNext == \/ CallLmalloc \/ SearchOn \/ LmallocReturns \/ CallLfree \/ ReadSectors
            \/ LoadFs \/ TryFiles

LoadSpec == LoadInit /\ [][LoadNext]_loaderVars
---------------------------------------------------------------------------
\* lmalloc has given every block that was asked for, and none that ends in the table.
HeapSuffices == ~ denied /\ ~ spilled

\* After a NULL the loader goes on with a block at address 0, of which nothing is said.
LoadKernelTypeOK ==
    ~ denied =>
        /\ LoaderHeapTypeOK
        /\ partition \in 1 .. Partitions + 1 /\ (partition = Partitions + 1 => result = Failed)
        /\ status \in Seq(BOOLEAN) /\ Len(status) <= 2
        /\ \A name \in DOMAIN blocks : \E i \in 1 .. Slots :
              /\ table[i].start = blocks[name] /\ table[i].start >= Bottom
              /\ ~ spilled => table[i].last < Top

\* load_fs mounts any partition but one whose file system is called "fat32".
Mountable(p) == disk[p].label # "fat32"
HasBoth(p) == disk[p].kernel > 0 /\ disk[p].setup > 0
Bootable == {p \in 1 .. Partitions : Mountable(p) /\ HasBoth(p)}
InUse == {table[i].start : i \in {j \in DOMAIN table : table[j] # Unused}}
FileOf(p, name) == [n \in 1 .. disk[p][name] |-> <<p, name, n - 1>>]

\* Of the partitions whose file system is not called "fat32", which load_fs passes
\* over although they are the ones it means to take, the loader boots the first that
\* holds both files, with these files, whole and not mixed with those of another
\* partition, and exactly when there is one; and when it is done the heap holds the
\* setup module and nothing else.  All this as long as the heap is large enough.
\* (load_kernel, load_fs, load_fat32_fs, terminate_fs)
BootsFirstMountable ==
    HeapSuffices /\ result # None /\ todo = <<>> =>
        IF Bootable = {} THEN result = Failed /\ InUse = {}
        ELSE \E p \in Bootable :
                 /\ \A q \in Bootable : p <= q
                 /\ result.status = "true"
                 /\ result.kernel = FileOf(p, "kernel")
                 /\ Sectors("setup", disk[p].setup) = FileOf(p, "setup")
                 /\ InUse = {result.setup}

\* The space the kernel is said to take reaches from the first of the segments that
\* load_elf loads to the end of the last, in whatever order they come.  (load_elf)
SpaceHoldsKernel ==
    LET loaded == {n \in DOMAIN Segments : Segments[n].load}
    IN  result.status = "true" /\ loaded # {} =>
            /\ result.space.start \in {Segments[n].start : n \in loaded}
            /\ result.space.limit \in {Segments[n].limit : n \in loaded}
            /\ \A n \in loaded : /\ result.space.start <= Segments[n].start
                                 /\ Segments[n].limit <= result.space.limit
=============================================================================
