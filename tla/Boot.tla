-------------------------------- MODULE Boot --------------------------------
(* How the system starts: init creates the modules one after the other and   *)
(* waits for each to report, while the modules set up their mailboxes and   *)
(* already call each other.  Most modules are files that the setup task      *)
(* reads from the disk for it.  This module composes the scheduler, the         *)
(* semaphores and the messages, and gives every thread the program it runs: *)
(* kernel.c (init), sys_task.c, setup, and libkmod's init.c, ipc.c, rpc.c.   *)
(*                                                                          *)
(* Every step of a program is one system call.  A thread of level 1 can lose *)
(* the processor between any two, and before the first.                      *)
EXTENDS Semaphore, Ipc

CONSTANTS Systems,   \* BOUND: the tasks init starts, in their order, and the remote
                     \* calls in their kmod_main: one of these
          Main,      \* the first thread of each task
          Workers,   \* the threads of a task that answer requests
          Helpers,   \* the thread that kmod_init creates (the echo thread of tty)
          Open,      \* the tasks whose kmod_init lets everybody send
          Functions, \* the remote functions, each known by the length of a request
          BodyCalls, \* the calls a function makes before it returns
          ResultOf,  \* the length of the answer of a function
          Informed,  \* the task that init sends a message to once it is there
          Setup,     \* the task that reads files
          Loaded,    \* the tasks whose image is a file
          Sectors,   \* BOUND: the sectors of a file
          StatusLength, NameLength, AddressLength, InfoLength, \* other messages
          IrqLimit   \* BOUND: how many interrupts come

Results == {ResultOf[f] : f \in Functions}

ASSUME BootAssumption ==
    /\ \A y \in Systems : /\ y.order \in Seq(Tasks)
                          /\ y.calls \in [Tasks -> Seq([to : Tasks, fn : Functions])]
    /\ Main \in [Tasks -> Threads]
    /\ Workers \in [Tasks -> SUBSET Threads] /\ Helpers \in [Tasks -> SUBSET Threads]
    /\ Open \subseteq Tasks /\ Informed \in Tasks
    /\ BodyCalls \in [Functions -> Seq([to : Tasks, fn : Functions])]
    /\ ResultOf \in [Functions -> Lengths \ Functions]
    /\ Cardinality({StatusLength, NameLength, AddressLength, InfoLength}) = 4
    /\ {StatusLength, NameLength, AddressLength, InfoLength} \cap (Functions \cup Results) = {}
    /\ Setup \in Tasks /\ Loaded \subseteq Tasks \ {Setup} /\ Sectors \in Nat \ {0}
    /\ IrqLimit \in Nat

VARIABLES system,  \* which of Systems
          pc,      \* where each thread is in its program
          started, \* how many tasks init has created
          waits,   \* the semaphore a thread waits for
          msg,     \* the message a loop has read, or the request a worker answers
          made,    \* how many of its calls a thread has begun
          open,    \* the threads that are in the list of ipc.c for their replies
          refused, \* the tasks whose reply was refused
          irqs,    \* how many interrupts have come
          disk,    \* what the disk does with the command it was given
          buffer   \* of load_mod_by_setup: if setup can write to it, what it has

diskVars == <<disk, buffer>>

bootVars == <<sched, do_schedule, tasks, ipc, irq_tasks, signals,
              system, pc, started, waits, msg, made, open, refused, irqs, diskVars>>

Starting == system.order[started]
InitTask == TaskOf[InitThread]

\* A task of the kernel handles its messages in its first thread, a module
\* has a thread for that.
LoopThreads == {MailOwner[k] : k \in Tasks} \ {InitThread}

WorksFor(t) == t \in Workers[TaskOf[t]]

\* What kmod_init begins with: set_allow in video and the test benches, reg_irq
\* in the I/O manager of the keyboard, the echo thread in tty.
StartOf(t) == CASE t \in LoopThreads \cup {InitThread} -> "set_mailbuffer"
                [] WorksFor(t)                       -> "calls"
                [] t \in Helpers[TaskOf[t]]          -> "wait_key"
                [] TaskOf[t] \in Open                -> "allow_init"
                [] TaskOf[t] \in IrqUsers            -> "reg_irq"
                [] Helpers[TaskOf[t]] # {}           -> "create_signal"
                [] OTHER                             -> "create_thread"

Nothing == [source |-> NULL_TASK, length |-> 0]

BootInit == /\ IpcInit /\ signals = <<>> /\ system \in Systems
            /\ pc = [t \in Threads |-> StartOf(t)]
            /\ started = 0 /\ refused = {} /\ irqs = 0
            /\ waits = [t \in Threads |-> 0]
            /\ msg = [t \in Threads |-> Nothing] /\ made = [t \in Threads |-> 0] /\ open = {}
            /\ disk = [state |-> "idle", left |-> 0] /\ buffer = [mapped |-> FALSE, sectors |-> 0]
---------------------------------------------------------------------------
Goes(c, from, to) == pc[c] = from /\ pc' = [pc EXCEPT ![c] = to]

KeepsIpc    == UNCHANGED <<ipc, irq_tasks>>
KeepsCalls  == UNCHANGED <<msg, made, open, refused>>
KeepsLocals == UNCHANGED <<started, waits>> /\ KeepsCalls

\* The thread t is the one that is created.
Creates(t) == sched.state[t] = "UNUSED" /\ sched'.state[t] # "UNUSED"

\* down_signal, and the return from it at once or later.
Downs(c, from, to) == /\ Goes(c, from, to) /\ DownSignal(c, waits[c])
                      /\ KeepsIpc /\ KeepsLocals

NewSignalFor(c, from, to, max) ==
    /\ Goes(c, from, to)
    /\ CreateSignal(c, [max |-> max, value |-> 0, soft |-> FALSE])
    /\ waits' = [waits EXCEPT ![c] = Len(signals) + 1]
    /\ KeepsIpc /\ UNCHANGED started
---------------------------------------------------------------------------
(* init, kernel.c. *)

\* The next task, if there is one and its image is in memory.
InitCreates ==
    /\ started < Len(system.order)
    /\ Goes(InitThread, IF system.order[started + 1] \in Loaded THEN "load_kmod" ELSE "create_task", "set_allow")
    /\ started' = started + 1
    /\ CreateTask(system.order[started + 1]) /\ Creates(Main[system.order[started + 1]])
    /\ KeepsIpc /\ KeepsCalls /\ UNCHANGED <<signals, waits>>

InitAllows == /\ Goes(InitThread, "set_allow", "check_ipc")
              /\ SetAllow(InitThread, Starting)
              /\ KeepsLocals /\ UNCHANGED signals

ReadsReport ==
    /\ Goes(InitThread, "recv_msg", IF Starting = Informed THEN "send_info" ELSE "create_task")
    /\ RecvMsg(InitThread)
    /\ KeepsLocals /\ UNCHANGED signals

\* Mutant of InitReceives: recv_msg without check_ipc.
InitReceivesAtOnce ==
    \/ /\ Goes(InitThread, "check_ipc", "recv_msg") /\ SyscallOnly(InitThread)
       /\ KeepsIpc /\ KeepsLocals /\ UNCHANGED signals
    \/ ReadsReport

InitReceives == \/ /\ Goes(InitThread, "check_ipc", "recv_msg") /\ CheckIpc(InitThread)
                   /\ KeepsLocals /\ UNCHANGED signals
                \/ ReadsReport

\* The video driver is told where the screen is; the result is not looked at.
InitInforms == /\ Goes(InitThread, "send_info", "create_task")
               /\ SendMsg(InitThread, Informed, InfoLength)
               /\ KeepsLocals /\ UNCHANGED signals

\* With all of them started init waits for a message nobody sends.
InitEnds == /\ started = Len(system.order)
            /\ Goes(InitThread, "create_task", "end") /\ CheckIpc(InitThread)
            /\ KeepsLocals /\ UNCHANGED signals

InitSteps == /\ InitCreates \/ InitAllows \/ InitReceives \/ InitInforms \/ InitEnds
             /\ UNCHANGED diskVars
---------------------------------------------------------------------------
(* Files: load_mod_by_setup, and kmod_main and disk.c of setup. *)

\* send_msg and assert(send_ret).
Sends(c, from, to, dst, len) ==
    /\ Goes(c, from, IF Fits(dst, len) /\ Accepts(dst, TaskOf[c]) THEN to ELSE "assertion_failure")
    /\ SendMsg(c, dst, len)
    /\ KeepsLocals /\ UNCHANGED signals

\* What a thread does without a system call.
Computes(c, from, to) ==
    /\ Goes(c, from, to) /\ Executes(c)
    /\ UNCHANGED <<sched, do_schedule, tasks, signals>> /\ KeepsIpc /\ KeepsLocals

Allows(c, from, to, pid) == Goes(c, from, to) /\ SetAllow(c, pid) /\ KeepsLocals /\ UNCHANGED signals
ChecksMail(c, from, to)  == Goes(c, from, to) /\ CheckIpc(c) /\ KeepsLocals /\ UNCHANGED signals
ReadsMail(c, from, to)   == Goes(c, from, to) /\ RecvMsg(c) /\ KeepsLocals /\ UNCHANGED signals

\* Mutant of InitMaps: the page tables of setup stay as they are.
InitMapsNot(c) == Computes(c, "set_mapping", "allow_setup") /\ UNCHANGED diskVars

\* The buffer becomes visible in the page tables of setup.
InitMaps(c) == /\ Computes(c, "set_mapping", "allow_setup")
               /\ buffer' = [buffer EXCEPT !.mapped = TRUE] /\ UNCHANGED disk

\* The name, a new buffer, its address, and the answer.
InitLoads(c) ==
    /\ c = InitThread
    /\ \/ /\ started < Len(system.order) /\ system.order[started + 1] \in Loaded
          /\ Sends(c, "create_task", "send_buffer", Setup, NameLength)
          /\ buffer' = [mapped |-> FALSE, sectors |-> 0] /\ UNCHANGED disk
       \/ InitMaps(c)
       \/ /\ \/ Sends(c, "send_buffer", "set_mapping", Setup, AddressLength)
             \/ Allows(c, "allow_setup", "check_file", Setup)
             \/ ChecksMail(c, "check_file", "recv_file")
             \/ ReadsMail(c, "recv_file", "load_kmod")
          /\ UNCHANGED diskVars

\* reg_irq, at the beginning.
SetupRegisters(c, from, to) == Goes(c, from, to) /\ RegIrq(c) /\ KeepsLocals /\ UNCHANGED signals

SetupAllowsIrq(c) == Allows(c, "set_allow_irq", "command", DUMMY_TASK)

\* What recv_msg gives the thread.
NextMail(c) == ipc[TaskOf[c]].mail
IsIrq(mail) == mail # <<>> /\ Head(mail).source = DUMMY_TASK

\* recv_msg of read_ide0_sector: with another message it is the wrong irq, and
\* the sector is not read.
SetupReadsSector(c) ==
    /\ ReadsMail(c, "recv_irq", IF disk.left > 1 THEN "set_allow_irq" ELSE "send_status")
    /\ buffer' = IF IsIrq(NextMail(c)) /\ disk.state = "done" /\ buffer.mapped
                 THEN [buffer EXCEPT !.sectors = @ + 1] ELSE buffer
    /\ disk' = [state |-> "idle", left |-> disk.left - 1]

\* The second message: load_file begins.  BOUND: every file has Sectors sectors.
SetupTakesBuffer(c) == /\ ReadsMail(c, "recv_buffer", "set_allow_irq")
                       /\ disk' = [state |-> "idle", left |-> Sectors] /\ UNCHANGED buffer

SetupCommands(c) == /\ Computes(c, "command", "check_irq")
                    /\ disk' = [disk EXCEPT !.state = "busy"] /\ UNCHANGED buffer

SetupSteps(c) ==
    /\ TaskOf[c] = Setup
    /\ \/ /\ \/ SetupRegisters(c, "reg_irq14", "reg_irq15") \/ SetupRegisters(c, "reg_irq15", "set_allow_init")
             \/ Allows(c, "set_allow_init", "check_name", InitTask)
             \/ ChecksMail(c, "check_name", "recv_name")
             \/ ReadsMail(c, "recv_name", "check_buffer")
             \/ ChecksMail(c, "check_buffer", "recv_buffer")
             \/ SetupAllowsIrq(c)
             \/ ChecksMail(c, "check_irq", "recv_irq")
             \/ Sends(c, "send_status", "set_allow_init", InitTask, StatusLength)
          /\ UNCHANGED diskVars
       \/ SetupTakesBuffer(c) \/ SetupCommands(c) \/ SetupReadsSector(c)

\* The disk has the sector: its interrupt, which is lost if setup does not
\* take it.
DiskAnswers ==
    /\ disk.state = "busy" /\ disk' = [disk EXCEPT !.state = "done"]
    /\ IF Setup \in irq_tasks /\ Fits(Setup, IrqLength) /\ AcceptsIrq(Setup)
       THEN Irq(Setup) ELSE UNCHANGED ipcVars
    /\ UNCHANGED <<signals, pc, started, waits, msg, made, open, refused, irqs, buffer>>
---------------------------------------------------------------------------
(* The first thread of a module, and a remote call: __kmod_init__ and       *)
(* __rpc_call.                                                              *)

\* kmod_init of each module, as StartOf says.
KmodInit(c) ==
    \/ Allows(c, "allow_init", "create_thread", ANY_TASK)
    \/ /\ Goes(c, "reg_irq", "create_thread") /\ RegIrq(c)
       /\ KeepsLocals /\ UNCHANGED signals
    \/ NewSignalFor(c, "create_signal", "create_helper", 1) /\ KeepsCalls
    \/ /\ Goes(c, "create_helper", "create_thread") /\ CreateThread(c)
       /\ \E h \in Helpers[TaskOf[c]] : Creates(h) /\ waits' = [waits EXCEPT ![h] = waits[c]]
       /\ KeepsIpc /\ KeepsCalls /\ UNCHANGED <<signals, started>>

CreateLoop(c) ==
    /\ Goes(c, "create_thread", "calls")
    /\ CreateThread(c) /\ Creates(MailOwner[TaskOf[c]])
    /\ KeepsIpc /\ KeepsLocals /\ UNCHANGED signals

\* The calls a thread has to make, and the one it is at.
Calls(c)  == IF WorksFor(c) THEN BodyCalls[msg[c].length] ELSE system.calls[TaskOf[c]]
CallOf(c) == Calls(c)[made[c]]

HasCalls(c)  == sched.current = c /\ pc[c] = "calls"
CallsMade(c) == HasCalls(c) /\ made[c] = Len(Calls(c))

\* A semaphore, the request, and the wait.
RpcCall(c) ==
    \/ /\ HasCalls(c) /\ made[c] < Len(Calls(c))
       /\ made' = [made EXCEPT ![c] = @ + 1]
       /\ NewSignalFor(c, "calls", "request", 2)
       /\ UNCHANGED <<msg, open, refused>>
    \/ /\ Goes(c, "request", "wait") /\ SendMsg(c, CallOf(c).to, CallOf(c).fn)
       /\ open' = open \cup {c}
       /\ UNCHANGED <<signals, started, waits, msg, made, refused>>
    \/ Downs(c, "wait", "calls")

\* After kmod_main the thread sleeps for ever; that of the keyboard driver does
\* so in fifo_read_bytes.
KmodEnd(c) == \/ /\ ~WorksFor(c) /\ CallsMade(c)
                 /\ NewSignalFor(c, "calls", "sleep", 1) /\ KeepsCalls
              \/ Downs(c, "sleep", "ended")

\* echo_input waits for a key.  What becomes of keys is left to Terminal.
WaitsForKey(c) == Downs(c, "wait_key", "wait_key")

MainSteps(c) == KmodInit(c) \/ CreateLoop(c) \/ RpcCall(c) \/ KmodEnd(c) \/ WaitsForKey(c)
---------------------------------------------------------------------------
(* The message loop: __message_loop and message_loop, sys_task, and init's *)
(* own mailbox.                                                             *)

\* init goes on to create the tasks; the others let everybody send.
SetsMailbuffer(c) ==
    /\ Goes(c, "set_mailbuffer", IF c = InitThread THEN "create_task" ELSE "allow_any")
    /\ SetMailbuffer(c)
    /\ KeepsLocals /\ UNCHANGED signals

AllowsAny(c) == /\ Goes(c, "allow_any", "status") /\ SetAllow(c, ANY_TASK)
                /\ KeepsLocals /\ UNCHANGED signals

\* The report to init, and assert(send_ret).
SendsStatus(c) ==
    Sends(c, "status", IF TaskOf[c] = Setup THEN "reg_irq14" ELSE "check", InitTask, StatusLength)

Checks(c) == /\ Goes(c, "check", "receive") /\ CheckIpc(c)
             /\ KeepsLocals /\ UNCHANGED signals

\* recv_msg, and what kind of message came.
Receives(c) ==
    LET box == ipc[TaskOf[c]]
        got == IF box.used_size = 0 THEN Nothing ELSE Head(box.mail)
    IN  /\ Goes(c, "receive", CASE got.length \in Functions -> "answer"
                                [] got.length \in Results   -> "up_signal"
                                [] got.length = InfoLength  -> "allow_again"
                                [] OTHER                    -> "check")
        /\ RecvMsg(c)
        /\ msg' = [msg EXCEPT ![c] = got]
        /\ UNCHANGED <<signals, started, waits, made, open, refused>>

\* normal_ipc_handler of the video driver and the test benches.
AllowsAgain(c) == Allows(c, "allow_again", "check", ANY_TASK)

\* Whether the answer to a request is taken; only sys_task looks.
AnswerTaken(req, k) == Fits(req.source, ResultOf[req.length]) /\ Accepts(req.source, k)

SendsAnswer(c, from, to) ==
    /\ Goes(c, from, to) /\ SendMsg(c, msg[c].source, ResultOf[msg[c].length])
    /\ refused' = IF AnswerTaken(msg[c], TaskOf[c]) THEN refused ELSE refused \cup {msg[c].source}
    /\ UNCHANGED <<signals, started, waits, msg, made, open>>

\* deal_rpc_request of sys_task, with assert(send_ret): it stays there for ever.
SysTaskAnswers(c) ==
    SendsAnswer(c, "answer", IF AnswerTaken(msg[c], TaskOf[c]) THEN "check" ELSE "answer_failed")

\* deal_rpc_request of a module creates a thread that answers.
ModuleAnswers(c) ==
    /\ Goes(c, "answer", "check") /\ CreateThread(c)
    /\ \E w \in Workers[TaskOf[c]] :
          Creates(w) /\ msg' = [msg EXCEPT ![w] = msg[c]] /\ made' = [made EXCEPT ![w] = 0]
    /\ KeepsIpc /\ UNCHANGED <<signals, started, waits, open, refused>>

Answers(c) == IF Workers[TaskOf[c]] = {} THEN SysTaskAnswers(c) ELSE ModuleAnswers(c)


\* The thread whose call it was goes on.
UpsSignal(c) ==
    \E t \in open :
        /\ TaskOf[t] = TaskOf[c]
        /\ msg[c] = [source |-> CallOf(t).to, length |-> ResultOf[CallOf(t).fn]]
        /\ Goes(c, "up_signal", "check") /\ UpSignal(c, waits[t])
        /\ open' = open \ {t}
        /\ KeepsIpc /\ UNCHANGED <<started, waits, msg, made, refused>>

LoopSteps(c) == \/ SetsMailbuffer(c) \/ AllowsAny(c) \/ SendsStatus(c)
                \/ Checks(c) \/ Receives(c) \/ AllowsAgain(c) \/ Answers(c) \/ UpsSignal(c)

\* A worker makes the calls of the function (RpcCall), sends the answer, whose
\* fate it does not look at, and is gone.
WorkerSteps(c) ==
    \/ /\ WorksFor(c) /\ CallsMade(c)
       /\ SendsAnswer(c, "calls", "exit_thread")
    \/ /\ Goes(c, "exit_thread", "calls") /\ ExitThread(c)
       /\ KeepsIpc /\ KeepsLocals /\ UNCHANGED signals
---------------------------------------------------------------------------
\* Only the current thread executes.
Programs ==
    /\ \E c \in {sched.current} \cap Threads :
          \/ c = InitThread /\ InitSteps
          \/ InitLoads(c)
          \/ SetupSteps(c)
          \/ (MainSteps(c) \/ LoopSteps(c) \/ WorkerSteps(c)) /\ UNCHANGED diskVars
    /\ UNCHANGED irqs

Ticks == /\ StartSchedule \/ ClockTick
         /\ UNCHANGED <<ipc, irq_tasks, signals, pc, started, waits, msg, made, open, refused,
                        irqs, diskVars>>

\* BOUND: a keyboard that never stops would keep its driver, of level 0, at
\* work for ever, and nothing else would run.
Interrupts == /\ irqs < IrqLimit /\ irqs' = irqs + 1
              /\ \E k \in Tasks \ {Setup} : Irq(k)
              /\ UNCHANGED <<signals, pc, started, waits, msg, made, open, refused, diskVars>>

BootNext == (Programs \/ Ticks \/ Interrupts \/ DiskAnswers) /\ UNCHANGED system

BootSpec == BootInit /\ [][BootNext]_bootVars

\* The processor executes the current thread, the clock ticks, and the disk
\* answers.
FairBootSpec == /\ BootSpec /\ WF_bootVars(Programs /\ UNCHANGED system) /\ WF_bootVars(Ticks /\ UNCHANGED system)
                /\ WF_bootVars(DiskAnswers /\ UNCHANGED system)
---------------------------------------------------------------------------
BootTypeOK == /\ started \in 0 .. Len(system.order)
              /\ waits \in [Threads -> 0 .. Len(signals)]
              /\ open \subseteq Threads /\ refused \subseteq Tasks /\ irqs \in 0 .. IrqLimit
              /\ \A t \in Threads : WorksFor(t) /\ msg[t] # Nothing => made[t] \in 0 .. Len(Calls(t))

\* The report of a module is never refused (assert(send_ret), libkmod's
\* init.c:45 and sys_task.c:99): whenever it sends it, init lets it.
StatusAccepted == \A t \in Threads : pc[t] # "assertion_failure"

\* When init is told that a file is loaded, it is the setup task that says so and
\* every sector of the file has come into the buffer: setup has found each of the
\* messages it waited for, the disk's interrupts included, and it wrote to the
\* buffer only when that was mapped.  (load_mod_by_setup, kmod_main of setup,
\* read_ide0_sector)
FileIsInBuffer ==
    pc[InitThread] = "recv_file" /\ sched.current = InitThread =>
        /\ NextMail(InitThread) # <<>>
        /\ Head(NextMail(InitThread)) = [source |-> Setup, length |-> StatusLength]
        /\ buffer = [mapped |-> TRUE, sectors |-> Sectors]

\* When init reads a report it is that of the task it has just created.
ReportIsOfStarted ==
    pc[InitThread] = "recv_msg" /\ sched.current = InitThread =>
        LET mail == ipc[TaskOf[InitThread]].mail
        IN  mail # <<>> /\ Head(mail).source = Starting

\* init gets the report of every task it starts, from that task, when it waits for
\* it.  (create_task, set_allow and check_ipc in kernel.c, __message_loop)
ReportsArrive == StatusAccepted /\ ReportIsOfStarted

\* No reply to a call is refused: the caller's mailbox is there by then.
RepliesAccepted == refused = {}

\* A module of level 0 is not preempted while it sets its mailbox up, and the
\* first come, first served list runs its message loop before an answer comes.
DriverRepliesAccepted == \A k \in refused : Level[k] # 0

\* The kmod_main of a module is through with its calls.
Through(k) == LET m == Main[k]
              IN  \/ pc[m] \in {"sleep", "ended"}
                  \/ pc[m] = "calls" /\ made[m] = Len(system.calls[k]) /\ m \notin open

\* When a module takes up a request of a driver its own kmod_main is through with its
\* calls: the fifo that the keyboard's I/O manager shares is made there
\* (ioman/main.c:151), and nothing but the order of the steps sees to it.  A request of
\* level 1 may come before; tty's comes from a test bench that asks it to print while
\* it creates its consoles, which the TODO at vdd/tty/main.c:66 knows.
DriversReady ==
    \A w \in Threads :
        WorksFor(w) /\ HasCalls(w) /\ made[w] = 0 /\ Level[msg[w].source] = 0 => Through(TaskOf[w])

\* No module has two calls out at a time, in its kmod_main and in the answers it is
\* working at, unless one of them is made for a module of level 1: with two of them
\* remove_rpc_result may go round for ever (RpcClient).
OneCallEach ==
    \A t, v \in open : TaskOf[t] = TaskOf[v] /\ t # v =>
        \E w \in {t, v} : WorksFor(w) /\ Level[msg[w].source] = 1

\* What a driver asks for comes back to it, what it asks of a driver finds that ready,
\* and its calls do not meet.
DriversServe == DriverRepliesAccepted /\ DriversReady /\ OneCallEach

\* The assertion of sys_task that its answer is taken (kernel/syscall/rpc.c:101) fails:
\* at level 0 it keeps the processor for ever.
SysTaskStops == \E t \in Threads : pc[t] = "answer_failed"

\* The system comes up: init ends, and every call in the kmod_main of a driver returns,
\* the ones the callee makes for it included; unless sys_task has stopped, which by
\* DriverRepliesAccepted it only does at an answer to a module of level 1.
Callers == {k \in Range(system.order) : Level[k] = 0 /\ system.calls[k] # <<>>}

=============================================================================
