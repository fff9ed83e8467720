-------------------------------- MODULE Ipc --------------------------------
(* Messages between tasks, kernel/syscall/syscalls.c, on top of the         *)
(* scheduler.  A task has one mailbox, one filter (allow_pid) and one thread *)
(* that handles its messages; a thread that finds the mailbox empty sleeps  *)
(* until send_msg or the interrupt of a device puts something in.           *)
(*                                                                          *)
(* A message is its sender and its length.  The ring of bytes it is copied  *)
(* into is abstracted to the sequence of the messages; what the code        *)
(* compares is kept: mail_size, used_size and allow_pid.                    *)
EXTENDS Scheduler, FiniteSets

CONSTANTS MailOwner,  \* the thread of a task that runs its message loop
          AllowPids,  \* the filters the threads of a task set
          IrqUsers,   \* the tasks that call reg_irq
          Lengths,    \* the lengths of messages
          MailSize,   \* the size of a mail buffer
          HeaderSize, \* sizeof(msgpack_struct)
          IrqLength   \* sizeof(int): the length of an interrupt message

\* The special pids of task_struct.h: nobody, everybody, the devices.
CONSTANTS NULL_TASK, ANY_TASK, DUMMY_TASK

\* The thread pointers that are NULL.
CONSTANT NoThread

Specials == {NULL_TASK, ANY_TASK, DUMMY_TASK}

ASSUME MailAssumption ==
    /\ MailOwner \in [Tasks -> Threads]
    /\ \A k \in Tasks : TaskOf[MailOwner[k]] = k
    /\ AllowPids \in [Tasks -> SUBSET (Tasks \cup Specials)]
    /\ IrqUsers \subseteq Tasks
    /\ Lengths \subseteq Nat /\ IrqLength \in Nat
    /\ MailSize \in Nat \ {0} /\ HeaderSize \in Nat \ {0}
    /\ Specials \cap Tasks = {} /\ Cardinality(Specials) = 3
    /\ NoThread \notin AllThreads

VARIABLES ipc,       \* task->ipc_info
          irq_tasks  \* IRQ_HANDLE_TASKS: the tasks that asked for interrupts

ipcVars == <<sched, do_schedule, tasks, ipc, irq_tasks>>

Messages == [source : Tasks \cup {DUMMY_TASK}, length : Lengths \cup {IrqLength}]

IpcInfo == [mail      : Seq(Messages),
            mail_size : Nat,
            used_size : Nat,
            allow_pid : Tasks \cup Specials,
            handler   : Threads \cup {NoThread}]

\* __init_ipc_info.  A mail_size of 0 stands for the NULL mail as well.
NoMail == [mail |-> <<>>, mail_size |-> 0, used_size |-> 0,
           allow_pid |-> NULL_TASK, handler |-> NoThread]

IpcInit == /\ SchedInit
           /\ ipc = [k \in Tasks |-> NoMail]
           /\ irq_tasks = {}

\* The end of every call that leaves the threads alone.
Return == /\ sched' = AfterSyscall(sched)
          /\ UNCHANGED <<do_schedule, tasks, irq_tasks>>
---------------------------------------------------------------------------
(* The pieces of __send_msg and dummy_send_msg. *)

Footprint(len) == len + HeaderSize

\* Mutant of Fits: the header is not counted.
FitsBody(k, len) == ipc[k].used_size + len <= ipc[k].mail_size

Fits(k, len) == ipc[k].used_size + Footprint(len) <= ipc[k].mail_size

Delivered(box, msg) == [box EXCEPT !.mail = Append(@, msg),
                                   !.used_size = @ + Footprint(msg.length)]

HandlerSleeps(k) == /\ ipc[k].handler # NoThread
                    /\ sched.state[ipc[k].handler] = "WAITING_IPC"

\* Mutants of Notified: a task that waits for one sender is not woken; the
\* handler is made ready but not queued.
NotifiedForAny(k) == IF HandlerSleeps(k) /\ ipc[k].allow_pid = ANY_TASK
                     THEN Wake(sched, ipc[k].handler) ELSE sched
NotifiedUnqueued(k) == IF HandlerSleeps(k)
                       THEN SetState(sched, ipc[k].handler, "READY") ELSE sched

\* The scheduler after the message is in: its handler is woken.
Notified(k) == IF HandlerSleeps(k) THEN Wake(sched, ipc[k].handler) ELSE sched

Accepts(k, source) == ipc[k].allow_pid \in {source, ANY_TASK}
AcceptsIrq(k)      == ipc[k].allow_pid \in {DUMMY_TASK, ANY_TASK}
---------------------------------------------------------------------------
(* The system calls. *)

SendMsg(c, dst, len) ==
    /\ Executes(c)
    /\ \/ /\ dst \in tasks /\ Fits(dst, len) /\ Accepts(dst, TaskOf[c])
          /\ ipc' = [ipc EXCEPT ![dst] = Delivered(@, [source |-> TaskOf[c], length |-> len])]
          /\ sched' = AfterSyscall(Notified(dst))
       \/ /\ ~(dst \in tasks /\ Fits(dst, len) /\ Accepts(dst, TaskOf[c]))
          /\ sched' = AfterSyscall(sched)
          /\ UNCHANGED ipc
    /\ UNCHANGED <<do_schedule, tasks, irq_tasks>>

\* Only the thread that handles the messages of its task calls check_ipc,
\* recv_msg, clear_mail and set_mailbuffer: init (kernel.c), sys_task, setup
\* and the message loops of libkmod/init.c.
OwnsMail(c) == MailOwner[TaskOf[c]] = c

CheckIpc(c) ==
    /\ Executes(c) /\ OwnsMail(c)
    /\ LET box == ipc[TaskOf[c]]
       IN  sched' = AfterSyscall(IF box.mail_size > 0 /\ box.used_size = 0
                                 THEN SetState(sched, c, "WAITING_IPC") ELSE sched)
    /\ UNCHANGED <<do_schedule, tasks, irq_tasks, ipc>>

Received(box) == [box EXCEPT !.mail = Tail(@),
                             !.used_size = @ - Footprint(Head(box.mail).length)]

\* With nothing in the mailbox recv_msg returns a message from nobody.
RecvMsg(c) ==
    /\ Executes(c) /\ OwnsMail(c)
    /\ ipc' = [ipc EXCEPT ![TaskOf[c]] = IF @.used_size > 0 THEN Received(@) ELSE @]
    /\ Return

SetAllow(c, pid) ==
    /\ Executes(c)
    /\ ipc' = [ipc EXCEPT ![TaskOf[c]].allow_pid = pid]
    /\ Return

\* Mutant of NewMailbox: the handler is not set.
NewMailboxNoHandler(box, c) ==
    [box EXCEPT !.mail = <<>>, !.mail_size = MailSize, !.used_size = 0]

NewMailbox(box, c) == [box EXCEPT !.mail = <<>>, !.mail_size = MailSize,
                                  !.used_size = 0, !.handler = c]

\* init calls it before start_schedule; nothing else runs then, so here it
\* may call it first thing after.
SetMailbuffer(c) ==
    /\ Executes(c) /\ OwnsMail(c)
    /\ ipc' = [ipc EXCEPT ![TaskOf[c]] = NewMailbox(@, c)]
    /\ Return

RegIrq(c) ==
    /\ Executes(c) /\ TaskOf[c] \in IrqUsers
    /\ irq_tasks' = irq_tasks \cup {TaskOf[c]}
    /\ sched' = AfterSyscall(sched)
    /\ UNCHANGED <<do_schedule, tasks, ipc>>

\* normal_irq_handler and dummy_send_msg: no switch follows.
Irq(k) ==
    /\ do_schedule
    /\ k \in irq_tasks /\ Fits(k, IrqLength) /\ AcceptsIrq(k)
    /\ ipc' = [ipc EXCEPT ![k] = Delivered(@, [source |-> DUMMY_TASK, length |-> IrqLength])]
    /\ sched' = Notified(k)
    /\ UNCHANGED <<do_schedule, tasks, irq_tasks>>
---------------------------------------------------------------------------
IpcStep(c) ==
    \/ \E dst \in Tasks, len \in Lengths : SendMsg(c, dst, len)
    \/ CheckIpc(c) \/ RecvMsg(c) \/ SetMailbuffer(c) \/ RegIrq(c)
    \/ \E pid \in AllowPids[TaskOf[c]] : SetAllow(c, pid)

\* A thread that waits for a semaphore is none of the mailboxes' business.
SignalWait == \E c \in Threads :
                  \/ SyscallBlock(c, "WAITING")
                  \/ \E t \in Threads : sched.state[t] = "WAITING" /\ SyscallWake(c, t)

IpcNext == \/ \E c \in Threads : IpcStep(c)
           \/ \E k \in Tasks : Irq(k)
           \/ SchedOwnStep /\ UNCHANGED <<ipc, irq_tasks>>
           \/ SignalWait /\ UNCHANGED <<ipc, irq_tasks>>

IpcSpec == IpcInit /\ [][IpcNext]_ipcVars
---------------------------------------------------------------------------
(* Properties. *)

IpcTypeOK == /\ ipc \in [Tasks -> IpcInfo]
             /\ irq_tasks \subseteq Tasks

\* The room the first n messages of a mailbox take, n = 0, 1, ...
IsRoom(room, mail) ==
    /\ room[0] = 0
    /\ \A n \in 1 .. Len(mail) : room[n] = room[n - 1] + Footprint(mail[n].length)

\* used_size is the room the messages in the buffer take, headers included,
\* and never more than the buffer has: the writer of the ring never runs over
\* what has not been read, and the assertion of __recv_msg holds.
MailAccounting ==
    \A k \in Tasks :
        LET box == ipc[k]
        IN  \E room \in [0 .. Len(box.mail) -> 0 .. box.mail_size] :
                IsRoom(room, box.mail) /\ room[Len(box.mail)] = box.used_size

\* A handler never sleeps on a mailbox that has something in it: whatever the
\* order of send_msg, interrupts, set_allow and check_ipc, no wake-up is lost.
NoLostWakeup ==
    \A k \in Tasks, t \in Threads :
        ipc[k].handler = t /\ sched.state[t] = "WAITING_IPC"
            => ipc[k].used_size = 0 /\ ipc[k].mail = <<>>

\* A thread that waits for a message is the one the senders to its task wake.
WaiterIsHandler ==
    \A t \in Threads : sched.state[t] = "WAITING_IPC" => ipc[TaskOf[t]].handler = t

\* Seen through the threads alone the messages are the abstract blocking and
\* waking system calls and the interrupts of the scheduler.
IpcImplementsSched == SchedSpec
=============================================================================
