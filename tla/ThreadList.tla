----------------------------- MODULE ThreadList -----------------------------
(* The list of the threads of a task, kernel/task/thread.c: thread_info     *)
(* structs in the kernel heap, linked from task->threads through next and   *)
(* last, and the stacks they are given one below the other.                 *)
(*                                                                          *)
(* Freed memory keeps what it held until kmalloc gives it out again, so a   *)
(* pointer that was left behind can be followed here as in the code.        *)
EXTENDS Naturals, FiniteSets, Functions

CONSTANTS Tasks,       \* the tasks
          Infos,       \* the places in the kernel heap for a thread_info
          FirstThread, \* where the first thread of each task is
          NULL,        \* the null pointer
          Room,        \* the stacks between KMOD_STACK_TOP and RESERVED_LIMIT
          MaxStacks,   \* bound on the threads a task creates
          FirstDies    \* may the first thread of a task end?

ASSUME ThreadListAssumption ==
    /\ Tasks # {} /\ IsFiniteSet(Infos) /\ NULL \notin Infos
    /\ FirstThread \in Injection(Tasks, Infos)
    /\ Room \in Nat /\ MaxStacks \in Nat \ {0} /\ FirstDies \in BOOLEAN

VARIABLES mem,     \* what each place holds: next, last, task, the stack and
                   \* whether it is allocated
          threads, \* task->threads
          stacks   \* the stacks given out below KMOD_STACK_TOP, per task

listVars == <<mem, threads, stacks>>

Pointer == Infos \cup {NULL}

ThreadInfo == [next : Pointer, last : Pointer, task : Tasks, stack : Nat, used : BOOLEAN]

\* create_thread_info: no neighbours; the stack is the task's next one down.
NewInfo(task) == [next |-> NULL, last |-> NULL, task |-> task,
                  stack |-> stacks[task], used |-> TRUE]

\* __create_task: every task has been created with its first thread.
ListInit ==
    /\ threads = FirstThread
    /\ mem = [i \in Infos |->
                [next |-> NULL, last |-> NULL, stack |-> 0, used |-> i \in Range(FirstThread),
                 task |-> CHOOSE k \in Tasks : \/ FirstThread[k] = i
                                              \/ i \notin Range(FirstThread)]]
    /\ stacks = [k \in Tasks |-> 1]
---------------------------------------------------------------------------
\* The pointers that following next from i passes, as far as the list goes.
Path(i) ==
    LET reach[n \in 0 .. Cardinality(Infos)] ==
            IF n = 0 THEN {i}
            ELSE reach[n - 1] \cup ({mem[p].next : p \in reach[n - 1]} \ {NULL})
    IN  reach[Cardinality(Infos)]

\* Mutant of LastOf: the search stops one node early.
LastOfEarly(task, p) ==
    p \in Path(threads[task]) /\ \E q \in {p, mem[p].next} \ {NULL} : mem[q].next = NULL

\* p ends the list of the task: where the loop of __create_thread__ stops.
LastOf(task, p) == p \in Path(threads[task]) /\ mem[p].next = NULL

\* The new thread behind the last.  The struct is allocated and cleared
\* before the list is searched.
Appended(parent, new, task) ==
    LET m == [mem EXCEPT ![new] = NewInfo(task)]
    IN  [m EXCEPT ![parent].next = new, ![new].last = parent]

\* The stack of the next thread lies below this one.
NextStack(task) == stacks' = [stacks EXCEPT ![task] = @ + 1]

\* The places kmalloc can return.
FreePlaces == {i \in Infos : ~mem[i].used}

Living(task) == {i \in Infos : mem[i].used /\ mem[i].task = task}

\* __create_thread__, called by a thread of the task.  If the list has become
\* a circle the loop does not end, with interrupts off: nothing is enabled.
CreateThread(task) ==
    /\ Living(task) # {} /\ stacks[task] < MaxStacks
    /\ \E new \in FreePlaces :
          \* The list has an end; new may be on it, if it is what
          \* task->threads was left pointing to.
          \E parent \in Infos :
             /\ IF new \in Path(threads[task])
                THEN parent = new
                ELSE LastOf(task, parent)
             /\ mem' = Appended(parent, new, task)
    /\ NextStack(task) /\ UNCHANGED threads

\* remove_thread: the neighbours are linked to each other; task->threads is
\* left as it is.
Unlinked(t) ==
    [i \in Infos |->
        [mem[i] EXCEPT !.next = IF i = mem[t].last THEN mem[t].next ELSE @,
                       !.last = IF i = mem[t].next THEN mem[t].last ELSE @]]

\* The memory goes back to the heap, where its contents stay.
RemoveThread(t) ==
    /\ mem[t].used
    /\ FirstDies \/ t # threads[mem[t].task]
    /\ mem' = [Unlinked(t) EXCEPT ![t].used = FALSE]
    /\ UNCHANGED <<threads, stacks>>

ListNext == \/ \E task \in Tasks : CreateThread(task)
        \/ \E t \in Infos : RemoveThread(t)

ListSpec == ListInit /\ [][ListNext]_listVars
---------------------------------------------------------------------------
ThreadListTypeOK == /\ mem \in [Infos -> ThreadInfo]
                    /\ threads \in [Tasks -> Infos]
                    /\ stacks \in [Tasks -> 1 .. MaxStacks]

\* A thread in the list of a task, where get_thread_by_tid finds it, is of
\* that task.
NoForeignThread == \A task \in Tasks :
    \A i \in Path(threads[task]) : mem[i].used => mem[i].task = task

\* next and last agree: removing a thread unlinks it on both sides.
DoublyLinked == \A i \in Infos : mem[i].used =>
    /\ mem[i].next # NULL => mem[i].next # i /\ mem[mem[i].next].last = i
    /\ mem[i].last # NULL => mem[mem[i].last].next = i

\* The list of a task holds its threads and nothing else, linked both ways, so
\* that get_thread_by_tid finds them and __create_thread__ and remove_thread
\* write to threads of the task.
ListIsThreads == DoublyLinked /\ \A task \in Tasks : Path(threads[task]) = Living(task)

\* The threads of a task have stacks of their own.
StacksApart == \A i, j \in Infos :
    i # j /\ mem[i].used /\ mem[j].used /\ mem[i].task = mem[j].task
        => mem[i].stack # mem[j].stack

\* However threads are created and end, each is in the list of its task and on a
\* stack of its own.
ThreadsKeptApart == ListIsThreads /\ StacksApart

\* No stack reaches into the memory reserved for the kernel.
StacksOutsideKernel == \A i \in Infos : mem[i].used => mem[i].stack < Room
============================================================================
