------------------------------- MODULE Fat32 -------------------------------
(* Files on the boot disk, module/setup/fs/fat32.c; the loader has the same  *)
(* code in loader/grub_loader/fs/fat32.c.  A file is a chain of clusters in  *)
(* the file allocation table, of which a few sectors are kept in fat_buffer. *)
(*                                                                          *)
(* The content of a cluster is its number, a directory entry the number of  *)
(* the first cluster.  The disk only changes between two starts.             *)
EXTENDS Naturals, Sequences, FiniteSetsExt

CONSTANTS Files,            \* the files of the root directory
          Root,             \* the root directory, a file as well
          Nobody,           \* who a free cluster belongs to
          LastCluster,      \* the clusters are numbered from 2
          EntriesPerSector, \* FAT32_ENTRIES_PER_SECTOR
          BufferSectors,    \* FAT_BUFFER_SECTORS
          InOrder           \* are files only loaded that lie behind the buffer's start?

ASSUME Fat32Assumption ==
    /\ Root \notin Files /\ Nobody \notin Files \cup {Root}
    /\ LastCluster \in Nat /\ InOrder \in BOOLEAN
    /\ EntriesPerSector \in Nat \ {0} /\ BufferSectors \in Nat \ {0}

VARIABLES owner,        \* whose each cluster is
          buffer_start, \* the first sector of the table in fat_buffer
          file,         \* the file of the last or present load_file
          clus,         \* the cluster that is read next
          dst,          \* what has been read
          loaded        \* what load_file returned, or "loading"

fatVars == <<owner, buffer_start, file, clus, dst, loaded>>

Clusters == 2 .. LastCluster

\* The mark at the end of a chain; every number from 0x0FFFFFF0 on is one.
EndMark == LastCluster + 1

OwnedBy(f) == {c \in Clusters : owner[c] = f}

FirstOf(set) == IF set = {} THEN EndMark ELSE Min(set)

\* The table: the next cluster of the same file.  BOUND: the clusters of a file
\* lie in ascending order.
Fat(c) == FirstOf({d \in OwnedBy(owner[c]) : d > c})

\* get_file_start_clus: what the directory says.
StartClus(f) == FirstOf(OwnedBy(f))

\* load_fat32_fs, as far as the root directory.
FatInit == /\ owner \in [Clusters -> Files \cup {Root, Nobody}]
           /\ OwnedBy(Root) # {}
           /\ buffer_start = 0
           /\ file = Root /\ clus = StartClus(Root) /\ dst = <<>> /\ loaded = "loading"
---------------------------------------------------------------------------
Sector(c) == c \div EntriesPerSector

\* Mutant of Unbuffered: the sector behind the buffer is taken to be in it.
UnbufferedLate(c) == Sector(c) > buffer_start + BufferSectors

\* "Not in the buffer": only a sector behind it counts.
Unbuffered(c) == Sector(c) >= buffer_start + BufferSectors

BufferStart(c) == IF Unbuffered(c) THEN Sector(c) ELSE buffer_start

\* What is at the place of the entry in the buffer: in front of and behind the
\* buffer lies other memory.
Entries(c) == IF Sector(c) \in BufferStart(c) .. BufferStart(c) + BufferSectors - 1
              THEN {Fat(c)} ELSE Clusters \cup {EndMark}

Ahead(f) == Sector(StartClus(f)) >= buffer_start

LoadFat32File(f) ==
    /\ loaded # "loading"
    /\ InOrder => Ahead(f)
    /\ file' = f
    /\ clus' = StartClus(f)
    /\ dst' = <<>>
    /\ loaded' = IF StartClus(f) = EndMark THEN "false" ELSE "loading"
    /\ UNCHANGED <<owner, buffer_start>>

\* One round of the loop of __load_file.  BOUND: a chain of garbage is given up
\* when it is longer than the disk.
LoadCluster ==
    /\ loaded = "loading" /\ clus < EndMark /\ Len(dst) < LastCluster
    /\ dst' = Append(dst, clus)
    /\ buffer_start' = BufferStart(clus)
    /\ clus' \in Entries(clus)
    /\ UNCHANGED <<owner, file, loaded>>

LoadEnds == /\ loaded = "loading" /\ clus = EndMark
            /\ loaded' = "true"
            /\ UNCHANGED <<owner, buffer_start, file, clus, dst>>

FatNext == LoadCluster \/ LoadEnds \/ \E f \in Files : LoadFat32File(f)

FatSpec == FatInit /\ [][FatNext]_fatVars
---------------------------------------------------------------------------
Fat32TypeOK == /\ owner \in [Clusters -> Files \cup {Root, Nobody}]
               /\ buffer_start \in 0 .. Sector(LastCluster)
               /\ file \in Files \cup {Root} /\ clus \in Clusters \cup {EndMark}
               /\ dst \in Seq(Clusters) /\ loaded \in {"loading", "true", "false"}

\* The numbers of the set, each once and in ascending order.
Ascending(seq, set) == /\ {seq[i] : i \in DOMAIN seq} = set
                       /\ \A i, j \in DOMAIN seq : i < j => seq[i] < seq[j]

\* load_file says true only when dst holds the file, every cluster of it in
\* order, however its clusters lie on the disk and whatever was loaded before,
\* and false only when there is no such file.
LoadsFile == /\ loaded = "true"  => Ascending(dst, OwnedBy(file))
             /\ loaded = "false" => OwnedBy(file) = {}
=============================================================================
