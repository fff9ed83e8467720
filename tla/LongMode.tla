------------------------------- MODULE LongMode -------------------------------
(* From GRUB to the kernel: loader/grub_loader/main.c takes the memory map     *)
(* from the multiboot tags (info_parser.c) and lm/setup_lm.c builds the page   *)
(* tables for all of the memory and switches the processor over.               *)
(*                                                                            *)
(* A table is a page of PerTable entries, an entry is known by its page and    *)
(* its place in it.  Addresses in the tables are pages, those in the memory    *)
(* map bytes.                                                                  *)
EXTENDS Naturals, FiniteSets, Sequences, SequencesExt, Functions, TLC

CONSTANTS Tags,        \* the lists of tags that GRUB may give
          PageSize,    \* MEMUNIT_SZ
          PerTable,    \* the entries of a table
          Tables,      \* the page of PAGE_ADDRESS
          Lost,        \* 0x20000, what the map leaves out at its end
          Word,        \* the numbers of a dword
          VBE_ENABLE,  \* whether the loader is built for graphics
          TextBuffer   \* 0xB8000

\* The memory map, a framebuffer, or a tag that is not looked at.
Tag == [type : {"mmap"}, entries : Seq([available : BOOLEAN, addr : Nat, len : Nat])]
       \cup [type : {"framebuffer"}, framebuffer : Nat] \cup [type : {"other"}]

\* Where an entry of the map ends, in a dword.
EndOf(e) == (e.addr + e.len) % Word

\* GRUB gives a memory map and, where it is asked to, a framebuffer.  No entry ends so
\* close below a multiple of 4 GB that memsz no longer fits into memory_size.
LongModeAssumption ==
    /\ \A tags \in Tags : /\ tags \in Seq(Tag)
                          /\ \E i \in DOMAIN tags : tags[i].type = "mmap"
                          /\ VBE_ENABLE => \E i \in DOMAIN tags : tags[i].type = "framebuffer"
                          /\ \A i \in DOMAIN tags : tags[i].type = "mmap" =>
                                 \A n \in DOMAIN tags[i].entries : EndOf(tags[i].entries[n]) + Lost < Word
    /\ VBE_ENABLE \in BOOLEAN /\ TextBuffer \in Nat
    /\ PageSize \in Nat \ {0} /\ PerTable \in Nat \ {0, 1} /\ Lost \in Nat \ {0}

VARIABLES tags,        \* the tags that are left
          memsz, framebuffer,
          stage,       \* what goto_longmode does next
          entry,       \* no in the loops of setup_paging
          written,     \* the entries of the tables
          args,        \* the boot arguments
          registers,   \* what has been set in the control registers
          interrupts,  \* IF
          lines        \* the interrupt lines that are enabled

vars == <<tags, memsz, framebuffer, stage, entry, written, args, registers, interrupts, lines>>

NoArgs == [magic |-> FALSE]

Init == /\ tags \in Tags
        /\ memsz = 0 /\ framebuffer = 0
        /\ stage = "tags" /\ entry = 0 /\ written = <<>>
        /\ args = NoArgs /\ registers = {} /\ interrupts = FALSE /\ lines = {}
---------------------------------------------------------------------------
Larger(a, b) == IF a > b THEN a ELSE b

ParseMemInfo(entries) ==
    FoldLeft(LAMBDA m, e : IF e.available THEN Larger(m, EndOf(e)) ELSE m, 0, entries) + Lost

\* One round of the loop of parse_args.
ParseTag ==
    /\ stage = "tags" /\ tags # <<>>
    /\ tags' = Tail(tags)
    /\ LET tag == Head(tags)
       IN  /\ memsz' = IF tag.type = "mmap" THEN ParseMemInfo(tag.entries) ELSE memsz
           /\ framebuffer' = IF tag.type = "framebuffer" THEN tag.framebuffer ELSE framebuffer
    /\ UNCHANGED <<stage, entry, written, args, registers, interrupts, lines>>

\* The line show_icon enables.
Clock == 0

\* The end of parse_args, the rest of loader_main, and load_kernel, which LoadKernel
\* models.  show_icon, see ShowIcon, leaves the clock on; its handler masks the line
\* and enables it again, so that a tick changes nothing here.
GotoLongMode ==
    /\ stage = "tags" /\ tags = <<>>
    /\ interrupts' = TRUE
    /\ framebuffer' = IF VBE_ENABLE THEN framebuffer ELSE TextBuffer
    /\ lines' = IF VBE_ENABLE THEN {Clock} ELSE {}
    /\ \E status \in BOOLEAN : stage' = IF status THEN "paging" ELSE "halted"
    /\ UNCHANGED <<tags, memsz, entry, written, args, registers>>
---------------------------------------------------------------------------
(* setup_paging. *)

\* How many tables hold n entries.
Above(n) == (n + PerTable - 1) \div PerTable

PageNum == (memsz + PageSize - 1) \div PageSize

PtNum   == Above(PageNum)
PdNum   == Above(PtNum)
PdptNum == Above(PdNum)
Pml4Num == Above(PdptNum)

Pml4Start == Tables
PdptStart == Pml4Start + Pml4Num
PdStart   == PdptStart + PdptNum
PtStart   == PdStart + PdNum
PageStart == PtStart + PtNum

\* The loops in their order: the tables of a level, how many there are, how
\* many entries are used and where the first of them leads.
Level(name) ==
    CASE name = "pt"   -> [start |-> PtStart,   count |-> PtNum,   used |-> PageNum, target |-> 0,         after |-> "pd"]
      [] name = "pd"   -> [start |-> PdStart,   count |-> PdNum,   used |-> PtNum,   target |-> PtStart,   after |-> "pdpt"]
      [] name = "pdpt" -> [start |-> PdptStart, count |-> PdptNum, used |-> PdNum,   target |-> PdStart,   after |-> "pml4"]
      [] name = "pml4" -> [start |-> Pml4Start, count |-> Pml4Num, used |-> PdptNum, target |-> PdptStart, after |-> "args"]

TableLevels == {"pt", "pd", "pdpt", "pml4"}
Absent == [p |-> FALSE, address |-> 0]

\* More than one table at the top is too much memory.
SetupPaging ==
    /\ stage = "paging"
    /\ stage' = IF Pml4Num = 1 THEN "pt" ELSE "halted"
    /\ entry' = 0
    /\ UNCHANGED <<tags, memsz, framebuffer, written, args, registers, interrupts, lines>>

EntryOf(level, no) == IF no < level.used THEN [p |-> TRUE, address |-> level.target + no] ELSE Absent

\* One entry of the loops; the last one of a level goes on to the next level.
WriteEntry ==
    /\ stage \in TableLevels
    /\ LET level == Level(stage)
       IN  /\ written' = (<<level.start + entry \div PerTable, entry % PerTable>> :> EntryOf(level, entry))
                         @@ written
           /\ IF entry + 1 < level.count * PerTable
              THEN entry' = entry + 1 /\ UNCHANGED stage
              ELSE entry' = 0 /\ stage' = level.after
    /\ UNCHANGED <<tags, memsz, framebuffer, args, registers, interrupts, lines>>
---------------------------------------------------------------------------
InitBootArgs ==
    /\ stage = "args"
    /\ args' = [magic |-> TRUE, framebuffer |-> framebuffer, memory_size |-> memsz % Word,
                page_start |-> Pml4Start, page_limit |-> PageStart]
    /\ stage' = "mask"
    /\ UNCHANGED <<tags, memsz, framebuffer, entry, written, registers, interrupts, lines>>

\* A round of the loop over the lines.
DisableIrq ==
    /\ stage = "mask"
    /\ lines' = lines \ {entry}
    /\ IF entry < 15 THEN entry' = entry + 1 /\ UNCHANGED stage
                     ELSE entry' = 0 /\ stage' = "cli"
    /\ UNCHANGED <<tags, memsz, framebuffer, written, args, registers, interrupts>>

DisableInterrupts ==
    /\ stage = "cli"
    /\ interrupts' = FALSE
    /\ stage' = "registers"
    /\ UNCHANGED <<tags, memsz, framebuffer, entry, written, args, registers, lines>>

\* What setup_longmode sets, in its order.
Order == <<"cr3", "pae", "lme", "pg">>

\* setup_longmode, one register at a time, and the jump to the kernel.
SetupLongmode ==
    /\ stage = "registers"
    /\ LET n == Cardinality(registers) + 1
       IN  /\ registers' = registers \cup {Order[n]}
           /\ stage' = IF n = Len(Order) THEN "kernel" ELSE stage
    /\ UNCHANGED <<tags, memsz, framebuffer, entry, written, args, interrupts, lines>>

Next == \/ ParseTag \/ GotoLongMode \/ SetupPaging \/ WriteEntry \/ InitBootArgs
        \/ DisableIrq \/ DisableInterrupts \/ SetupLongmode

Spec == Init /\ [][Next]_vars
---------------------------------------------------------------------------
LongModeTypeOK == /\ memsz \in Nat /\ framebuffer \in Nat /\ entry \in Nat
                  /\ stage \in TableLevels \cup {"tags", "paging", "args", "mask", "cli", "registers", "kernel", "halted"}
                  /\ registers \subseteq Range(Order) /\ interrupts \in BOOLEAN
                  /\ lines \subseteq {Clock}
                  /\ \A at \in DOMAIN written : written[at] \in [p : BOOLEAN, address : Nat]

\* How the processor finds a page: an entry of each level, from the top.
Walk(v) ==
    LET index(level) == (v \div PerTable ^ (level - 1)) % PerTable
        step(at, level) == IF at.p /\ <<at.address, index(level)>> \in DOMAIN written
                           THEN written[<<at.address, index(level)>>] ELSE Absent
    IN  FoldLeft(step, [p |-> TRUE, address |-> args.page_start], <<4, 3, 2, 1>>)

\* When paging is switched on, with PAE and long mode set before, no line enabled and no
\* interrupt possible, every page of the memory the kernel is told of leads to
\* itself and no other page anywhere, and the tables fill exactly the pages
\* that the kernel is told of.  (setup_paging, setup_longmode, init_boot_args)
MemoryIsMapped ==
    "pg" \in registers =>
        /\ registers = Range(Order) /\ ~ interrupts /\ lines = {} /\ args.magic
        /\ \A v \in 0 .. PerTable ^ 4 - 1 :
               Walk(v) = IF v * PageSize < args.memory_size THEN [p |-> TRUE, address |-> v] ELSE Absent
        /\ {at[1] : at \in DOMAIN written} = args.page_start .. args.page_limit - 1
=============================================================================
