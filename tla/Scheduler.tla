----------------------------- MODULE Scheduler -----------------------------
(***************************************************************************)
(* The kernel's thread scheduler: kernel/task/task_manager.c (the two      *)
(* ready lists), task_scheduler.c (should_switch, do_switch), thread.c     *)
(* (creation and removal of threads) and the interrupt handlers that end   *)
(* in after_syscall.                                                       *)
(*                                                                         *)
(* Every gate of the IDT is an interrupt gate, so a handler runs with      *)
(* interrupts off and is one action here.  What runs between handlers is   *)
(* the current thread, which only acts through system calls; the one       *)
(* exception is init, which calls create_task directly.                    *)
(*                                                                         *)
(* The globals a handler reads and writes are the record sched, and each   *)
(* function of the code is an operator from such a record to the next, so  *)
(* that a handler is the composition of the functions it calls.            *)
(***************************************************************************)
EXTENDS Integers, Sequences, Functions

CONSTANTS Threads,       \* the thread_info structs that can exist
          Tasks,         \* the tasks they belong to
          EmptyThread,   \* the thread of the empty task (pid -1)
          InitThread,    \* the first thread, init()
          TaskOf,        \* thread->task
          Level,         \* task->level
          Priority       \* task->priority

ASSUME ThreadsAssumption == /\ EmptyThread \notin Threads
                            /\ InitThread \in Threads
                            /\ TaskOf \in [Threads -> Tasks]
ASSUME LevelAssumption    == Level \in [Tasks -> {0, 1}]
ASSUME PriorityAssumption == Priority \in [Tasks -> Nat \ {0}]

VARIABLES sched,        \* the scheduler's globals and the threads' fields
          do_schedule,  \* has init called start_schedule?
          tasks         \* the tasks in task_list

schedVars == <<sched, do_schedule, tasks>>

AllThreads == Threads \cup {EmptyThread}

Ready   == {"READY", "SUBBMITED"}
Blocked == {"WAITING", "WAITING_IPC"}
Dying   == {"TERMINATED", "EXCEPTION"}

\* "UNUSED" stands for a thread_info that is not allocated.
ThreadState == Ready \cup Blocked \cup Dying \cup {"RUNNING", "UNUSED"}

LevelOf(t) == IF t = EmptyThread THEN -1 ELSE Level[TaskOf[t]]

PriorityOf(t) == IF t = EmptyThread THEN -1 ELSE Priority[TaskOf[t]]

\* The time slices a thread is created with, and a thread of level 1 is given
\* whenever it is scheduled.
Slices(t) == PriorityOf(t) * 3

SchedRecord == [state   : [AllThreads -> ThreadState],
                count   : [AllThreads -> Int],
                current : AllThreads,
                level0  : Seq(Threads),
                level1  : Seq(Threads)]

Queued(s) == Range(s.level0) \cup Range(s.level1)
---------------------------------------------------------------------------
(* The ready lists. *)

SetState(s, t, st) == [s EXCEPT !.state[t] = st]
SetCount(s, t, n)  == [s EXCEPT !.count[t] = n]
SetThread(s, t, st, n) == [s EXCEPT !.state[t] = st, !.count[t] = n]

\* Mutants of Enqueue: the queue as a stack; each level its own list.
EnqueueFirst(s, t) == [s EXCEPT !.level0 = <<t>> \o @]
EnqueueByLevel(s, t) ==
    IF LevelOf(t) = 0 THEN [s EXCEPT !.level0 = Append(@, t)]
    ELSE [s EXCEPT !.level1 = Append(@, t)]

\* enqueue_thread: a thread of level 1 goes to the list of level 0 as well,
\* and a thread of any other level (the empty one) to none.
Enqueue(s, t) ==
    IF LevelOf(t) \in {0, 1} THEN [s EXCEPT !.level0 = Append(@, t)] ELSE s

HasLevel0(s) == s.level0 # <<>>
HasLevel1(s) == s.level1 # <<>>

\* get_next_run_thread, with the dequeue it makes.
NextRunThread(s) ==
    IF HasLevel0(s) THEN [s EXCEPT !.current = Head(s.level0), !.level0 = Tail(@)]
    ELSE IF HasLevel1(s) THEN [s EXCEPT !.current = Head(s.level1), !.level1 = Tail(@)]
    ELSE [s EXCEPT !.current = EmptyThread]

\* A waiting thread is made ready: the tail of __up_signal, __send_msg and
\* dummy_send_msg.
Wake(s, t) == Enqueue(SetState(s, t, "READY"), t)

\* create_thread_info followed by enqueue_thread.
Submit(s, t) == Enqueue(SetThread(s, t, "SUBBMITED", Slices(t)), t)

\* remove_thread frees the thread_info.
RemoveThread(s, t) == SetThread(s, t, "UNUSED", 0)
---------------------------------------------------------------------------
(* The switch. *)

\* Mutants of ShouldSwitch: a slice too many; level 0 preempted like level 1.
ShouldSwitchLate(s) ==
    LET c == s.current
    IN  do_schedule /\ (\/ LevelOf(c) = -1
                        \/ s.state[c] # "RUNNING"
                        \/ LevelOf(c) = 1 /\ (HasLevel0(s) \/ s.count[c] < 0))
ShouldSwitchAny(s) ==
    do_schedule /\ (s.state[s.current] # "RUNNING" \/ HasLevel0(s))

ShouldSwitch(s) ==
    LET c == s.current
    IN  /\ do_schedule
        /\ \/ LevelOf(c) = -1
           \/ s.state[c] # "RUNNING"
           \/ /\ LevelOf(c) = 1
              /\ HasLevel0(s) \/ s.count[c] <= 0

\* Mutants of DownThread: a preempted thread is not queued again; a thread
\* that faulted is not freed.
DownThreadUnqueued(s) ==
    CASE s.state[s.current] = "RUNNING" -> SetState(s, s.current, "READY")
      [] s.state[s.current] \in Dying   -> RemoveThread(s, s.current)
      [] OTHER                          -> s
DownThreadKeepsFaulty(s) ==
    CASE s.state[s.current] = "RUNNING"    -> Wake(s, s.current)
      [] s.state[s.current] = "TERMINATED" -> RemoveThread(s, s.current)
      [] OTHER                             -> s

\* A preempted thread goes back to its list; a dead one is freed.
DownThread(s) ==
    CASE s.state[s.current] = "RUNNING" -> Wake(s, s.current)
      [] s.state[s.current] \in Dying   -> RemoveThread(s, s.current)
      [] OTHER                          -> s

UpThread(s) == SetState(s, s.current, "RUNNING")

RefillSlices(s) ==
    IF LevelOf(s.current) = 1
    THEN SetCount(s, s.current, Slices(s.current))
    ELSE s

DoSwitch(s) == RefillSlices(UpThread(NextRunThread(DownThread(s))))

AfterSyscall(s) == IF ShouldSwitch(s) THEN DoSwitch(s) ELSE s

\* The end of clock_int_handler.
TakeSlice(s) ==
    IF LevelOf(s.current) = 1
    THEN SetCount(s, s.current, s.count[s.current] - 1)
    ELSE s
---------------------------------------------------------------------------
(* The threads and the interrupts. *)

SchedInit ==
    /\ sched = [state   |-> [t \in AllThreads |->
                                CASE t = InitThread  -> "RUNNING"
                                  [] t = EmptyThread -> "SUBBMITED"
                                  [] OTHER           -> "UNUSED"],
                count   |-> [t \in AllThreads |->
                                IF t \in {InitThread, EmptyThread} THEN Slices(t) ELSE 0],
                current |-> InitThread,
                level0  |-> <<>>,
                level1  |-> <<>>]
    /\ do_schedule = FALSE
    /\ tasks = {TaskOf[InitThread]}

\* The thread that executes between two handlers.  Until start_schedule init
\* makes no call that concerns the scheduler (kernel.c:174-181).
Executes(t) == /\ do_schedule
               /\ sched.current = t

FreeSlots(k) == {t \in Threads : TaskOf[t] = k /\ sched.state[t] = "UNUSED"}

StartSchedule ==
    /\ ~do_schedule
    /\ do_schedule' = TRUE
    /\ UNCHANGED <<sched, tasks>>

\* init creates a task with its first thread.  It is a plain call: no
\* after_syscall follows.
CreateTask(k) ==
    /\ Executes(InitThread)
    /\ k \notin tasks
    /\ \E t \in FreeSlots(k) : sched' = Submit(sched, t)
    /\ tasks' = tasks \cup {k}
    /\ UNCHANGED do_schedule

CreateThread(c) ==
    /\ Executes(c)
    /\ \E t \in FreeSlots(TaskOf[c]) : sched' = AfterSyscall(Submit(sched, t))
    /\ UNCHANGED <<do_schedule, tasks>>

\* A system call that leaves the state of every thread as it is.
SyscallOnly(c) ==
    /\ Executes(c)
    /\ sched' = AfterSyscall(sched)
    /\ UNCHANGED <<do_schedule, tasks>>

\* down_signal or check_ipc puts the caller to sleep.
SyscallBlock(c, st) ==
    /\ Executes(c)
    /\ sched' = AfterSyscall(SetState(sched, c, st))
    /\ UNCHANGED <<do_schedule, tasks>>

\* up_signal or send_msg wakes another thread.
SyscallWake(c, t) ==
    /\ Executes(c)
    /\ sched.state[t] \in Blocked
    /\ sched' = AfterSyscall(Wake(sched, t))
    /\ UNCHANGED <<do_schedule, tasks>>

ExitThread(c) ==
    /\ Executes(c)
    /\ sched' = AfterSyscall(SetState(sched, c, "TERMINATED"))
    /\ UNCHANGED <<do_schedule, tasks>>

\* general_exception_handler: the thread that faulted never runs again.
Exception(c) ==
    /\ Executes(c)
    /\ sched' = AfterSyscall(SetState(sched, c, "EXCEPTION"))
    /\ UNCHANGED <<do_schedule, tasks>>

\* The interrupt of a device wakes the thread of its driver; the switch is
\* left to the next clock tick or system call.
IrqWake(t) ==
    /\ do_schedule
    /\ sched.state[t] = "WAITING_IPC"
    /\ sched' = Wake(sched, t)
    /\ UNCHANGED <<do_schedule, tasks>>

ClockTick ==
    /\ do_schedule
    /\ sched' = TakeSlice(AfterSyscall(sched))
    /\ UNCHANGED <<do_schedule, tasks>>

\* The steps in which no thread waits for, or is woken by, another.
SchedOwnStep ==
    \/ StartSchedule
    \/ ClockTick
    \/ \E k \in Tasks : CreateTask(k)
    \/ \E c \in Threads : \/ CreateThread(c)
                         \/ SyscallOnly(c)
                         \/ ExitThread(c)
                         \/ Exception(c)

SchedNext ==
    \/ SchedOwnStep
    \/ \E c \in Threads, st \in Blocked : SyscallBlock(c, st)
    \/ \E c, t \in Threads : SyscallWake(c, t)
    \/ \E t \in Threads : IrqWake(t)

SchedSpec == SchedInit /\ [][SchedNext]_schedVars

\* The clock keeps ticking, and a driver (a task of level 0) that runs ends
\* up waiting for a message or a semaphore: its main function ends in
\* down_signal and its message loop calls check_ipc (libkmod/init.c).
DriverBlocks ==
    \E c \in Threads, st \in Blocked : LevelOf(c) = 0 /\ SyscallBlock(c, st)

FairSchedSpec == SchedSpec /\ WF_schedVars(ClockTick) /\ WF_schedVars(DriverBlocks)
---------------------------------------------------------------------------
(* Properties. *)

\* The fields have their types; a level 1 thread's slice counter never leaves
\* 0 .. priority * 3, although should_switch tests it and clock_int_handler
\* decrements it at different moments.
SchedTypeOK ==
    /\ sched \in SchedRecord
    /\ \A t \in Threads : sched.count[t] \in 0 .. Slices(t)
    /\ do_schedule \in BOOLEAN
    /\ tasks \subseteq Tasks

\* A thread is in a ready list exactly when its state says it may be chosen,
\* and it is there once: no handler loses a runnable thread, queues one twice
\* or leaves a sleeping or freed one behind in a list.
QueueConsistent ==
    /\ \A t \in Threads : t \in Queued(sched) <=> sched.state[t] \in Ready
    /\ IsInjective(sched.level0) /\ IsInjective(sched.level1)
    /\ Range(sched.level0) \cap Range(sched.level1) = {}

\* Exactly the current thread is RUNNING, and a thread that exits or faults
\* is freed by the handler it died in: no dead thread is left in the system.
OneRunning ==
    /\ \A t \in AllThreads : sched.state[t] = "RUNNING" <=> t = sched.current
    /\ \A t \in AllThreads : sched.state[t] \notin Dying

\* doc/kernel details, FCFS: a thread of level 0 keeps the processor until it
\* cannot go on; neither the clock nor a thread it wakes takes it away.
Level0NotPreempted ==
    [][LET c == sched.current
       IN  sched'.current # c /\ LevelOf(c) = 0
              => sched'.state[c] \in Blocked \cup {"UNUSED"}]_sched

\* First come, first served: no thread overtakes another in the ready list.
\* A handler takes at most the head out, and what it queues comes behind all
\* that wait already.
NoOvertaking ==
    [][LET old == sched.level0
           new == sched'.level0
       IN  \E k \in {0, 1} :
              /\ Len(old) - k \in 0 .. Len(new)
              /\ SubSeq(new, 1, Len(old) - k) = SubSeq(old, k + 1, Len(old))]_sched

\* Every thread that becomes ready runs, as long as the clock ticks and the
\* drivers block: level 1 cannot be starved by other level 1 threads that
\* never make a system call, nor by drivers waking each other for ever.
ReadyRuns == \A t \in Threads : sched.state[t] \in Ready ~> sched.current = t

\* The documentation (kernel details, lines 20-21): a thread of level 1 holds
\* priority * 3 slices.  It is preempted only when they are used up or for a
\* thread of level 0.
KeepsItsSlices ==
    [][LET c == sched.current
       IN  LevelOf(c) = 1 /\ sched'.state[c] = "READY"
              => \/ sched.count[c] <= 0
                 \/ \E t \in Queued(sched) : LevelOf(t) = 0]_sched

\* The documentation (kernel details, line 23): as long as level 0 has a
\* thread that can be scheduled, level 1 is not.
Level0First ==
    [][LET c == sched'.current
       IN  c # sched.current /\ LevelOf(c) = 1
              => \A t \in Queued(sched) : LevelOf(t) # 0]_sched
=============================================================================
