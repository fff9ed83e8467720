----------------------------- MODULE Semaphore -----------------------------
(* The kernel's semaphores, kernel/task/signal.c, on top of the scheduler.  *)
(* A hard semaphore counts below zero: the absolute value is the number of  *)
(* threads in its wait queue.  A soft one only counts.  The tree the kernel *)
(* looks an identifier up in is left out here: identifiers are handed out   *)
(* in order and never freed, so the table is a sequence.                    *)
EXTENDS Scheduler

CONSTANTS SignalParams,  \* the arguments of create_signal its callers use
          SignalLimit,   \* bound: semaphores that are created
          SoftFloor      \* bound: how far a soft semaphore is counted down

ASSUME SignalAssumption ==
    /\ SignalLimit \in Nat /\ SoftFloor \in Nat
    /\ SignalParams \subseteq [max : Nat \ {0}, value : Nat, soft : BOOLEAN]
    /\ \A p \in SignalParams : p.value <= p.max

VARIABLE signals

semVars == <<sched, do_schedule, tasks, signals>>

SignalRecord == [signals : Int, max : Nat \ {0}, soft : BOOLEAN, wt : Seq(Threads)]

NewSignal(p) == [signals |-> p.value, max |-> p.max, soft |-> p.soft, wt |-> <<>>]

\* The identifiers that have been handed out; callers use no other.
Created == DOMAIN signals
---------------------------------------------------------------------------
SemInit == SchedInit /\ signals = <<>>

CreateSignal(c, p) ==
    /\ Executes(c)
    /\ Len(signals) < SignalLimit
    /\ signals' = Append(signals, NewSignal(p))
    /\ sched' = AfterSyscall(sched)
    /\ UNCHANGED <<do_schedule, tasks>>

\* The wait queue.
EnqueueWt(sg, t) == [sg EXCEPT !.wt = Append(@, t)]
DequeueWt(sg)    == [sg EXCEPT !.wt = Tail(@)]

\* Mutant of Raised: the count is not held at the maximum.
RaisedFreely(sg) == [sg EXCEPT !.signals = @ + 1]

\* The first half of __up_signal: the count, up to the maximum.
Raised(sg) == IF sg.signals < sg.max THEN [sg EXCEPT !.signals = @ + 1] ELSE sg

Releases(sg) == ~sg.soft /\ Raised(sg).signals <= 0

\* Mutants of Release: the thread that came last is woken instead of the
\* first; the thread is made ready but not queued.
ReleaseLast(sg)     == Wake(sched, sg.wt[Len(sg.wt)])
ReleaseUnqueued(sg) == SetState(sched, Head(sg.wt), "READY")

\* The second half: the first thread of the wait queue becomes ready.
Release(sg) == Wake(sched, Head(sg.wt))

UpSignal(c, id) ==
    /\ Executes(c)
    /\ LET sg == signals[id]
       IN  \/ /\ Releases(sg)
              /\ signals' = [signals EXCEPT ![id] = DequeueWt(Raised(sg))]
              /\ sched' = AfterSyscall(Release(sg))
           \/ /\ ~Releases(sg)
              /\ signals' = [signals EXCEPT ![id] = Raised(sg)]
              /\ sched' = AfterSyscall(sched)
    /\ UNCHANGED <<do_schedule, tasks>>

Lowered(sg) == [sg EXCEPT !.signals = @ - 1]

\* Mutant of MustWait: the last unit is not handed out.
MustWaitEarly(sg) == ~sg.soft /\ Lowered(sg).signals <= 0

MustWait(sg) == ~sg.soft /\ Lowered(sg).signals < 0

DownSignal(c, id) ==
    /\ Executes(c)
    /\ signals[id].soft => signals[id].signals > -SoftFloor
    /\ LET sg == signals[id]
       IN  \/ /\ MustWait(sg)
              /\ signals' = [signals EXCEPT ![id] = EnqueueWt(Lowered(sg), c)]
              /\ sched' = AfterSyscall(SetState(sched, c, "WAITING"))
           \/ /\ ~MustWait(sg)
              /\ signals' = [signals EXCEPT ![id] = Lowered(sg)]
              /\ sched' = AfterSyscall(sched)
    /\ UNCHANGED <<do_schedule, tasks>>

SignalStep(c) == \/ \E p \in SignalParams : CreateSignal(c, p)
                 \/ \E id \in Created : UpSignal(c, id) \/ DownSignal(c, id)

\* A thread that waits for a message is none of the semaphores' business.
MailStep == \/ \E c \in Threads : SyscallBlock(c, "WAITING_IPC")
            \/ \E t \in Threads : /\ sched.state[t] = "WAITING_IPC"
                                  /\ IrqWake(t) \/ \E c \in Threads : SyscallWake(c, t)

SemNext == \/ \E c \in Threads : SignalStep(c)
           \/ SchedOwnStep /\ UNCHANGED signals
           \/ MailStep /\ UNCHANGED signals

SemSpec == SemInit /\ [][SemNext]_semVars
---------------------------------------------------------------------------
(* Properties. *)

SemTypeOK == signals \in Seq(SignalRecord)

\* The count and the queue agree: below zero the count says how many threads
\* wait, so an up that finds a count at or below zero after adding one always
\* has a thread to release (dequeue_wt never returns the null pointer that
\* __up_signal would write through).
CountIsQueue ==
    \A id \in Created :
        LET sg == signals[id]
        IN  /\ sg.signals <= sg.max
            /\ ~sg.soft => Len(sg.wt) = (IF sg.signals < 0 THEN -sg.signals ELSE 0)
            /\ sg.soft => sg.wt = <<>>

\* A thread is WAITING exactly when it is in a wait queue, and then it is in
\* one queue, once: it cannot be released twice nor be left behind.
WaitsOnce ==
    /\ \A t \in Threads : sched.state[t] = "WAITING"
                             <=> \E id \in Created : t \in Range(signals[id].wt)
    /\ \A id \in Created : IsInjective(signals[id].wt)
    /\ \A id1, id2 \in Created :
          id1 # id2 => Range(signals[id1].wt) \cap Range(signals[id2].wt) = {}

\* The kernel's semaphores are counting semaphores.
CS == INSTANCE CountingSemaphore WITH
          Ids     <- 1 .. SignalLimit,
          Users   <- Threads,
          max     <- [id \in 1 .. SignalLimit |->
                        IF id \in Created /\ ~signals[id].soft THEN signals[id].max ELSE 0],
          free    <- [id \in 1 .. SignalLimit |->
                        IF id \in Created /\ ~signals[id].soft /\ signals[id].signals > 0
                        THEN signals[id].signals ELSE 0],
          waiting <- [id \in 1 .. SignalLimit |->
                        IF id \in Created THEN Range(signals[id].wt) ELSE {}]

ImplementsCountingSemaphore == CS!Spec

\* Seen through the threads alone the semaphores are the abstract blocking and
\* waking system calls of the scheduler.
SemImplementsSched == SchedSpec
=============================================================================
