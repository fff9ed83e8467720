----------------------------- MODULE Interrupts -----------------------------
(***************************************************************************)
(* How the processor gets into the kernel and out of it again:             *)
(* kernel/intterup/init_int.c (the two 8259s and the IDT), int_handlers.S  *)
(* (what the entries push and pop), irq_handler.c, exception.c, clock.c,   *)
(* syscall.c and the copying of contexts in task_scheduler.c.              *)
(*                                                                         *)
(* A context is what the entry code pushes and iretq takes back: which     *)
(* thread's code it is, how far that has come, the result register and the *)
(* page table.  Interrupts and system calls push it at the top of one      *)
(* stack, that of IST 1; exceptions of the tasks push it at the top of the *)
(* stack rsp0 of the TSS, which is also the stack init runs on.            *)
(*                                                                         *)
(* Which thread is chosen at a switch is the concern of Scheduler: here it *)
(* is any that is ready.                                                   *)
(***************************************************************************)
EXTENDS Naturals, Sequences, FiniteSetsExt

CONSTANTS Threads,     \* the threads but the empty one
          InitThread,  \* the thread that runs init(), the only one of ring 0
          EmptyThread, \* the thread of the empty task
          Kernel,      \* stands for the code of the handlers
          Lines,       \* the interrupt lines on which a device may raise one
          Faulting,    \* the threads that may cause an exception
          MaxSteps     \* the steps a thread makes (bound)

InterruptsAssumption == /\ InitThread \in Threads /\ EmptyThread \notin Threads
                        /\ Kernel \notin Threads \cup {EmptyThread}
                        /\ Lines \subseteq 0 .. 15 /\ Faulting \subseteq Threads
                        /\ MaxSteps \in Nat

VARIABLES imr, irr, isr,  \* masked, raised and in service, of both 8259s
          enabled,        \* the lines initialize() has enabled so far: 0 .. enabled - 1
          IF_flag,        \* rflags.IF
          cpu,            \* the context the processor runs
          frame,          \* what lies where an entry pushes its context
          calls,          \* the entries that have not returned, the innermost first
          entered_handler, do_schedule,
          current,        \* current_thread
          state,          \* its and the other threads' state
          saved,          \* thread->registers
          real,           \* ghost: the context each thread has got to
          overwritten,    \* ghost: a context was pushed over init's stack
          faulted         \* ghost: the threads that have caused an exception

picVars  == <<imr, irr, isr>>
kernVars == <<entered_handler, do_schedule, current, state, saved>>
intVars  == <<picVars, enabled, IF_flag, cpu, frame, calls, kernVars, real, overwritten, faulted>>

AllThreads == Threads \cup {EmptyThread}
Stacks     == {"ist1", "rsp0", "own"}

\* The page table of each thread's task, named after the thread.
Context == [thread : AllThreads \cup {Kernel}, step : 0 .. MaxSteps, rax : 0 .. MaxSteps,
            pgd : AllThreads \cup {Kernel}]

Start(t)  == [thread |-> t, step |-> 0, rax |-> 0, pgd |-> t]
InKernel  == [thread |-> Kernel, step |-> 0, rax |-> 0, pgd |-> Kernel]
---------------------------------------------------------------------------
(* The interrupt controllers. *)

Chip(irq) == IF irq < 8 THEN 0 .. 7 ELSE 8 .. 15

disable_irq(irq) == imr \cup {irq}

enable_irq(irq)  == imr \ {irq}

\* The 8259: an end of interrupt takes the most urgent line out of service.
EndOf(chip, s) == IF s \cap chip = {} THEN s ELSE s \ {Min(s \cap chip)}

\* Mutant of send_eoi: the slave is never told.
send_eoi_master(irq) == EndOf(0 .. 7, isr)

\* send_eoi tells the slave from line 9 on, and the master always.
send_eoi(irq) == EndOf(0 .. 7, IF irq > 8 THEN EndOf(8 .. 15, isr) ELSE isr)

\* The 8259: a line is presented if it is not masked and no line of its chip
\* that is as urgent is in service; those of the slave come through line 2.
Presented(irq) ==
    /\ irq \in irr \ imr
    /\ \A i \in isr \cap Chip(irq) : irq < i
    /\ irq >= 8 => /\ 2 \notin imr
                   /\ \A i \in isr \cap 0 .. 7 : 2 < i

Acknowledged(irq) == isr \cup {irq} \cup (IF irq >= 8 THEN {2} ELSE {})

\* A device raises its line.
Raise(irq) == /\ irq \in Lines \ irr
              /\ irr' = irr \cup {irq}
              /\ UNCHANGED <<imr, isr, enabled, IF_flag, cpu, frame, calls, kernVars, real,
                             overwritten, faulted>>
---------------------------------------------------------------------------
(* The gates and the code behind them. *)

\* __init_descs: the exceptions have no stack of their own.
Gate(what) == [type |-> "GATE_INTERRUPT", ist |-> IF what = "exception" THEN 0 ELSE 1]

\* Where the processor pushes the context: the IST stack of the gate; else, from
\* a ring above 0, the stack of the TSS; else where the stack pointer is.
PushedOn(what) == IF Gate(what).ist = 1 THEN "ist1"
                  ELSE IF cpu.thread \notin {InitThread, Kernel} THEN "rsp0" ELSE "own"

\* The processor follows a gate, the entry pushes the context and calls the
\* handler, which takes the kernel's page table.
Enter(what, irq) ==
    LET on == PushedOn(what)
    IN  /\ frame' = [frame EXCEPT ![on] = cpu]
        /\ calls' = <<[what |-> what, irq |-> irq, pc |-> "entered", on |-> on,
                       flag |-> entered_handler]>> \o calls
        /\ cpu' = InKernel
        /\ IF_flag' = (IF_flag /\ Gate(what).type # "GATE_INTERRUPT")
        /\ overwritten' = (overwritten \/ (on = "rsp0" /\ state[InitThread] # "gone"))

\* The context is popped, iretq turns interrupts on as they were.
Return == /\ calls # <<>>
          /\ Head(calls).pc = "done"
          /\ cpu' = frame[Head(calls).on]
          /\ calls' = Tail(calls)
          /\ IF_flag' = TRUE
          /\ UNCHANGED <<picVars, enabled, frame, kernVars, real, overwritten, faulted>>

\* What the innermost handler does from one of its places to the next.
Handler(what, from, to) ==
    /\ calls # <<>>
    /\ Head(calls).what = what /\ Head(calls).pc = from
    /\ calls' = [calls EXCEPT ![1].pc = to]
    /\ UNCHANGED <<enabled, IF_flag, cpu, real, overwritten, faulted>>

Irq == Head(calls).irq
On  == Head(calls).on
---------------------------------------------------------------------------
(* The switch, on the context of the innermost handler. *)

\* thread->registers after down_thread.
Registers(t) == IF t = current THEN frame[On] ELSE saved[t]

\* up_thread: the page table is that of the thread's task.
UpThread(t) == [Registers(t) EXCEPT !.pgd = t]

\* down_thread: a running thread is ready again, a dead one is freed.
DownState == CASE state[current] = "running" -> "ready"
               [] state[current] = "dying"   -> "gone"
               [] OTHER                      -> state[current]

\* The threads get_next_run_thread may return: the empty one if no other can run.
Runnable == LET ready == {t \in Threads : IF t = current THEN DownState = "ready"
                                          ELSE state[t] = "ready"}
            IN  IF ready = {} THEN {EmptyThread} ELSE ready

DoSwitch == \E t \in Runnable :
                /\ saved' = [saved EXCEPT ![current] = frame[On]]
                /\ frame' = [frame EXCEPT ![On] = UpThread(t)]
                /\ state' = [state EXCEPT ![current] = DownState, ![t] = "running"]
                /\ current' = t

\* after_syscall: the empty thread and one that does not run any more have to
\* give way, any other may have to.
AfterSyscall == \/ do_schedule /\ DoSwitch
                \/ /\ ~do_schedule \/ (current # EmptyThread /\ state[current] = "running")
                   /\ UNCHANGED <<saved, frame, state, current>>
---------------------------------------------------------------------------
(* The handlers of the interrupt lines. *)

\* The processor takes an interrupt, the controllers note that it has.
TakeIrq(irq) == /\ IF_flag
                /\ Presented(irq)
                /\ irr' = irr \ {irq}
                /\ isr' = Acknowledged(irq)
                /\ Enter("irq", irq)
                /\ UNCHANGED <<imr, enabled, kernVars, real, faulted>>

\* general_irq_handler up to send_eoi: the line is masked.
MaskLine == /\ Handler("irq", "entered", "masked")
            /\ entered_handler' = TRUE
            /\ imr' = disable_irq(Irq)
            /\ UNCHANGED <<irr, isr, frame, do_schedule, current, state, saved>>

\* Its call of send_eoi.
SendEoi == /\ Handler("irq", "masked", "acked")
           /\ isr' = send_eoi(Irq)
           /\ UNCHANGED <<imr, irr, frame, kernVars>>

\* clock_int_handler: the only handler of a line that switches.
clock_int_handler == AfterSyscall

\* normal_irq_handler: a message is sent, which may wake the thread it is for.
normal_irq_handler ==
    /\ \/ UNCHANGED state
       \/ \E t \in Threads : /\ state[t] = "waiting"
                             /\ state' = [state EXCEPT ![t] = "ready"]
    /\ UNCHANGED <<saved, frame, current>>

\* Its call of IRQ_HANDLERS[irq], as initialize() has registered them.
CallHandler == /\ Handler("irq", "acked", "handled")
               /\ IF Irq = 0 THEN clock_int_handler ELSE normal_irq_handler
               /\ UNCHANGED <<picVars, entered_handler, do_schedule>>

\* Its end: the line is enabled again.
UnmaskLine == /\ Handler("irq", "handled", "done")
              /\ imr' = enable_irq(Irq)
              /\ entered_handler' = Head(calls).flag
              /\ UNCHANGED <<irr, isr, frame, do_schedule, current, state, saved>>
---------------------------------------------------------------------------
(* System calls and exceptions. *)

\* Thread t runs code of its own, and initialize() is behind.  The instruction with
\* which init has caused an exception before start_schedule is tried again and again.
GoesOn(t) == IF_flag /\ cpu.thread = t /\ state[t] = "running"

\* Thread t makes a system call, int 0x40.
EnterSyscall(t) == /\ GoesOn(t)
                   /\ Enter("syscall", 0)
                   /\ UNCHANGED <<picVars, enabled, kernVars, real, faulted>>

\* syscall_int_handler up to after_syscall, by what the call does to threads: it
\* may put the caller to sleep, end it or wake another, but for the one call init makes
\* before start_schedule, set_mailbuffer; its value goes into the context that was
\* pushed.
Syscall ==
    LET value == real[current].step
        st    == {[state EXCEPT ![current] = "waiting"], [state EXCEPT ![current] = "dying"],
                  state} \cup
                 {[state EXCEPT ![t] = "ready"] : t \in {u \in Threads : state[u] = "waiting"}}
    IN  /\ calls # <<>>
        /\ Head(calls).what = "syscall" /\ Head(calls).pc = "entered"
        /\ calls' = [calls EXCEPT ![1].pc = "called"]
        /\ state' \in IF do_schedule THEN st ELSE {state}
        /\ frame' = [frame EXCEPT ![On].rax = value]
        /\ real' = [real EXCEPT ![current].rax = value]
        /\ entered_handler' = TRUE
        /\ UNCHANGED <<picVars, enabled, IF_flag, cpu, do_schedule, current, saved,
                       overwritten, faulted>>

\* The rest of it: a nested call does not switch.
EndSyscall == /\ Handler("syscall", "called", "done")
              /\ entered_handler' = Head(calls).flag
              /\ IF Head(calls).flag THEN UNCHANGED <<saved, frame, state, current>>
                 ELSE AfterSyscall
              /\ UNCHANGED <<picVars, do_schedule>>

\* An instruction of thread t causes an exception.  The kernel's own code, initialize()
\* and the handlers, is not taken to cause one.
EnterException(t) == /\ IF_flag /\ cpu.thread = t
                     /\ t \in Faulting
                     /\ Enter("exception", 0)
                     /\ faulted' = faulted \cup {t}
                     /\ UNCHANGED <<picVars, enabled, kernVars, real>>

\* general_exception_handler up to after_syscall: the thread will not run again.
Exception == /\ Handler("exception", "entered", "called")
             /\ state' = [state EXCEPT ![current] = "dying"]
             /\ UNCHANGED <<picVars, frame, entered_handler, do_schedule, current, saved>>

\* Its call of after_syscall.
EndException == /\ Handler("exception", "called", "done")
                /\ AfterSyscall
                /\ UNCHANGED <<picVars, entered_handler, do_schedule>>
---------------------------------------------------------------------------
(* The start, and the threads between the handlers. *)

\* init_pic masks every line; entry() makes init the current thread.
IntInit == /\ imr = 0 .. 15 /\ irr = {} /\ isr = {}
           /\ enabled = 0
           /\ IF_flag = FALSE
           /\ cpu = Start(InitThread)
           /\ frame = [on \in Stacks |-> InKernel]
           /\ calls = <<>>
           /\ entered_handler = FALSE /\ do_schedule = FALSE
           /\ current = InitThread
           /\ state = [t \in AllThreads |-> IF t = InitThread THEN "running" ELSE "ready"]
           /\ saved = [t \in AllThreads |-> Start(t)]
           /\ real = [t \in AllThreads |-> Start(t)]
           /\ overwritten = FALSE /\ faulted = {}

\* initialize: the lines are enabled one after the other, then interrupts.
EnableLines == /\ ~IF_flag /\ calls = <<>>
               /\ IF enabled < 16
                  THEN /\ imr' = enable_irq(enabled)
                       /\ enabled' = enabled + 1
                       /\ UNCHANGED IF_flag
                  ELSE /\ IF_flag' = TRUE
                       /\ UNCHANGED <<imr, enabled>>
               /\ UNCHANGED <<irr, isr, cpu, frame, calls, kernVars, real, overwritten, faulted>>

start_schedule == /\ GoesOn(InitThread)
                  /\ ~do_schedule
                  /\ do_schedule' = TRUE
                  /\ UNCHANGED <<picVars, enabled, IF_flag, cpu, frame, calls, entered_handler,
                                 current, state, saved, real, overwritten, faulted>>

\* Thread t goes on with its own code.
Execute(t) == /\ GoesOn(t)
              /\ cpu.step < MaxSteps
              /\ cpu' = [cpu EXCEPT !.step = @ + 1]
              /\ real' = [real EXCEPT ![t].step = @ + 1]
              /\ UNCHANGED <<picVars, enabled, IF_flag, frame, calls, kernVars, overwritten,
                             faulted>>

ThreadStep(t) == Execute(t) \/ (t \in Threads /\ (EnterSyscall(t) \/ EnterException(t)))

HandlerStep == \/ MaskLine \/ SendEoi \/ CallHandler \/ UnmaskLine
               \/ Syscall \/ EndSyscall \/ Exception \/ EndException
               \/ Return

IntNext == \/ EnableLines \/ start_schedule \/ HandlerStep
           \/ \E irq \in Lines : Raise(irq) \/ TakeIrq(irq)
           \/ \E t \in AllThreads : ThreadStep(t)

IntSpec == IntInit /\ [][IntNext]_intVars
---------------------------------------------------------------------------
InterruptsTypeOK ==
    /\ imr \subseteq 0 .. 15 /\ irr \subseteq Lines /\ isr \subseteq 0 .. 15
    /\ enabled \in 0 .. 16
    /\ {IF_flag, entered_handler, do_schedule, overwritten} \subseteq BOOLEAN
    /\ cpu \in Context /\ frame \in [Stacks -> Context]
    /\ current \in AllThreads
    /\ state \in [AllThreads -> {"running", "ready", "waiting", "dying", "gone"}]
    /\ saved \in [AllThreads -> Context] /\ real \in [AllThreads -> Context]
    /\ faulted \subseteq Faulting

\* Whatever interrupts what, a thread goes on where it was, with the result of
\* its last system call and on its own page table; and nothing but an exception
\* of a task is pushed over the stack of init.  (int_handlers.S, do_switch, the
\* IST of the gates, kernel.c:294)
ContextsKept ==
    /\ calls = <<>> => cpu.thread = current /\ cpu = real[current]
    /\ \A t \in AllThreads \ {current} : state[t] # "gone" => saved[t] = real[t]
    /\ overwritten => faulted # {}

\* When no handler runs, every line that has been enabled is, nothing is in
\* service and the next system call will switch: no interrupt is left that would
\* keep out another.  (general_irq_handler, send_eoi, entered_handler)
NothingLeftInService ==
    calls = <<>> => /\ isr = {}
                    /\ imr = enabled .. 15
                    /\ ~entered_handler

\* An interrupt, a system call or an exception leaves no trace but what it is for.
EntriesLeaveNoTrace == ContextsKept /\ NothingLeftInService
=============================================================================
