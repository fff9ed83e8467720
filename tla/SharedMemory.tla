---------------------------- MODULE SharedMemory ----------------------------
(* Memory that tasks share: the page tables (kernel/memory/paging.c) and the *)
(* two calls of the system task that map pages (kernel/syscall/sys_task.c).  *)
(* The system task is of level 0 and does not sleep in a call.               *)
(*                                                                          *)
(* A virtual address is the number of a page; every level of the tables      *)
(* looks at one digit of it.  The page allocator is what Pmm shows it to be: *)
(* no page is given out twice.  The rights of an entry are left out: every   *)
(* module runs in a ring that the us bit does not keep out.                  *)
EXTENDS Naturals, FiniteSets, Sequences, SequencesExt, TLC

CONSTANTS Tasks,
          Levels,   \* 4
          Fanout,   \* the entries of a table, 512
          ShmStart, \* DEFAULT_SHM_START
          Sizes,    \* the sizes of the requests, in pages
          Absent    \* an entry that is not present

SharedMemoryAssumption == /\ Levels \in Nat \ {0} /\ Fanout \in Nat \ {0, 1}
                          /\ ShmStart \in 0 .. Fanout ^ Levels - 1
                          /\ Sizes \subseteq Nat \ {0}

VARIABLES tables,  \* the page tables in memory, by their page
          pgd,     \* the top table of a task
          used,    \* the pages that have been given out are 1 .. used
          shm_ptr, \* where the next region of a task begins
          regions  \* what the calls have returned: the region, and its pages

vars == <<tables, pgd, used, shm_ptr, regions>>

VirtualPages == 0 .. Fanout ^ Levels - 1

\* Mutant of Index: the digits of the lowest two levels are not told apart.
IndexHigh(v, level) == (v \div Fanout ^ (IF level = 0 THEN 1 ELSE level)) % Fanout

\* pml4e_idx, pdpte_idx, pde_idx and pte_idx are levels 3, 2, 1 and 0.
Index(v, level) == (v \div Fanout ^ level) % Fanout

\* __get_free_page: a page that memset has cleared.
EmptyTable == [i \in 0 .. Fanout - 1 |-> Absent]

\* Every task has the top table of create_pgd.
Init == /\ pgd = CHOOSE f \in [Tasks -> 1 .. Cardinality(Tasks)] : IsInjective(f)
        /\ used = Cardinality(Tasks)
        /\ tables = [p \in 1 .. used |-> EmptyTable]
        /\ shm_ptr = [t \in Tasks |-> ShmStart]
        /\ regions = {}
---------------------------------------------------------------------------
(* paging.c.  The memory m is [tables, used]. *)

Memory == [tables |-> tables, used |-> used]

\* The entry for v in table, with a new table of the next level if there is
\* none; w is [m, at]: the memory, and the table that the walk has reached.
Descended(w, v, level) ==
    LET i     == Index(v, level)
        entry == w.m.tables[w.at][i]
        new   == w.m.used + 1
    IN  IF entry # Absent THEN [w EXCEPT !.at = entry]
        ELSE [m  |-> [tables |-> [w.m.tables EXCEPT ![w.at][i] = new] @@ (new :> EmptyTable),
                      used   |-> new],
              at |-> new]

\* The levels that lead to a table, from the top.
Upper == [n \in 1 .. Levels - 1 |-> Levels - n]

\* __set_mapping.
SetEntry(m, top, v, page) ==
    LET w == FoldLeft(LAMBDA x, level : Descended(x, v, level), [m |-> m, at |-> top], Upper)
    IN  [w.m EXCEPT !.tables[w.at][Index(v, 0)] = page]

\* set_mapping, of page after page.
SetMapping(m, top, v, pages) ==
    FoldLeft(LAMBDA x, n : SetEntry(x, top, v + n - 1, pages[n]), m, [n \in DOMAIN pages |-> n])

\* get_physical_address; Absent is NULL.
PhysicalAddress(m, top, v) ==
    LET table == FoldLeft(LAMBDA at, level :
                              IF at = Absent THEN Absent ELSE m.tables[at][Index(v, level)],
                          top, Upper)
    IN  IF table = Absent THEN Absent ELSE m.tables[table][Index(v, 0)]
---------------------------------------------------------------------------
(* sys_task.c. *)

Moved(t, n) == [shm_ptr EXCEPT ![t] = @ + n]

\* BOUND: the region of shared memory is not used up; shm_end is never looked
\* at.
HasRoom(t, n) == shm_ptr[t] + n - 1 \in VirtualPages

Region(t, v, pages) == [task |-> t, at |-> v, pages |-> pages]

\* __create_share_memory: n pages for a task.  BOUND: the pages come in one
\* piece, before the tables that they need.
CreateShareMemory(t, n) ==
    /\ HasRoom(t, n)
    /\ LET pages == [i \in 1 .. n |-> used + i]
           m     == SetMapping([Memory EXCEPT !.used = used + n], pgd[t], shm_ptr[t], pages)
       IN  /\ tables' = m.tables /\ used' = m.used
           /\ regions' = regions \cup {Region(t, shm_ptr[t], pages)}
    /\ shm_ptr' = Moved(t, n)
    /\ UNCHANGED pgd

\* __share_memory: a region of one task, or the beginning of one, for another
\* task or for the task itself.  The pages are looked up one by one while the
\* mappings are made.
ShareMemory(r, n, target) ==
    /\ n <= Len(r.pages) /\ HasRoom(target, n)
    /\ LET step(m, i) == SetEntry(m, pgd[target], shm_ptr[target] + i - 1,
                                  PhysicalAddress(m, pgd[r.task], r.at + i - 1))
           m == FoldLeft(step, Memory, [i \in 1 .. n |-> i])
       IN  tables' = m.tables /\ used' = m.used
    /\ regions' = regions \cup {Region(target, shm_ptr[target], SubSeq(r.pages, 1, n))}
    /\ shm_ptr' = Moved(target, n)
    /\ UNCHANGED pgd

Next == \/ \E t \in Tasks, n \in Sizes : CreateShareMemory(t, n)
        \/ \E r \in regions, n \in Sizes, target \in Tasks : ShareMemory(r, n, target)

Spec == Init /\ [][Next]_vars
---------------------------------------------------------------------------
SharedMemoryTypeOK ==
    /\ DOMAIN tables \subseteq 1 .. used
    /\ \A p \in DOMAIN tables : \A i \in 0 .. Fanout - 1 : tables[p][i] \in 1 .. used \cup {Absent}
    /\ shm_ptr \in [Tasks -> Nat]

\* Every region that a call has returned leads, page by page and for good, to
\* the pages it stands for: the pages of the task that created it, whoever it
\* was shared with, whatever has been mapped since and whichever tables the
\* mappings have in common.  No page of a region is a page table.
RegionsLeadToTheirPages ==
    \A r \in regions : \A i \in DOMAIN r.pages :
        /\ PhysicalAddress(Memory, pgd[r.task], r.at + i - 1) = r.pages[i]
        /\ r.pages[i] \notin DOMAIN tables
=============================================================================
