-------------------------- MODULE Scheduler_proofs --------------------------
(* Proofs about the scheduler.  A handler works on the scheduler's record   *)
(* in two phases: what the call itself does to the threads (Wake, Submit,   *)
(* SetState), then after_syscall.  Settled holds between handlers; InCall   *)
(* is what the first phase keeps and after_syscall turns into Settled.      *)
EXTENDS Scheduler, QueueLemmas

USE ThreadsAssumption, LevelAssumption, PriorityAssumption

\* The types of the fields, with the bounds of the slice counters.
WellTyped(s) ==
    /\ s \in SchedRecord
    /\ \A t \in Threads : s.count[t] \in 0 .. Slices(t)

\* The ready lists hold every thread that is ready, once.
QueuesHold(s) ==
    /\ \A t \in Threads : t \in Queued(s) <=> s.state[t] \in Ready
    /\ IsInjective(s.level0) /\ IsInjective(s.level1)
    /\ Range(s.level0) \cap Range(s.level1) = {}

\* Inside a handler: the current thread may have gone to sleep or died.
InCall(s) ==
    /\ WellTyped(s)
    /\ QueuesHold(s)
    /\ \A t \in AllThreads : s.state[t] \in Dying \cup {"RUNNING"} => t = s.current
    /\ s.state[s.current] \in Dying \cup Blocked \cup {"RUNNING"}

Settled(s) ==
    /\ InCall(s)
    /\ s.state[s.current] = "RUNNING"

\* Between the two halves of do_switch: no thread runs.
Switching(s) ==
    /\ WellTyped(s)
    /\ QueuesHold(s)
    /\ \A t \in AllThreads : s.state[t] \notin Dying \cup {"RUNNING"}

USE DEF Ready, Blocked, Dying

\* The names of the states and of the threads.
LEMMA Names ==
    /\ \A t \in Threads : t \in AllThreads /\ t # EmptyThread
    /\ \A t \in AllThreads : t \in Threads \/ t = EmptyThread
    /\ EmptyThread \in AllThreads
    /\ Ready \cup Blocked \cup Dying \cup {"RUNNING", "UNUSED"} = ThreadState
    /\ \A st \in Ready \cup Blocked \cup Dying \cup {"RUNNING", "UNUSED"} : st \in ThreadState
BY DEF AllThreads, ThreadState

\* Priorities make the number of slices positive.
LEMMA SlicesType ==
    ASSUME NEW t \in Threads
    PROVE  Slices(t) \in Nat /\ Slices(t) >= 3
<1>1. TaskOf[t] \in Tasks /\ t # EmptyThread  OBVIOUS
<1>2. Priority[TaskOf[t]] \in Nat \ {0}  BY <1>1
<1> QED BY <1>1, <1>2 DEF Slices, PriorityOf

\* Every thread is of level 0 or 1, the empty one of neither.
LEMMA LevelType ==
    /\ \A t \in Threads : LevelOf(t) \in {0, 1}
    /\ LevelOf(EmptyThread) = -1
BY DEF LevelOf

\* enqueue_thread puts a thread that is in no list at the end of level 0.
LEMMA EnqueueThread ==
    ASSUME NEW s \in SchedRecord, NEW t \in Threads
    PROVE  /\ Enqueue(s, t) = [s EXCEPT !.level0 = Append(s.level0, t)]
           /\ Enqueue(s, t) \in SchedRecord
           /\ Enqueue(s, t).state = s.state
           /\ Enqueue(s, t).count = s.count
           /\ Enqueue(s, t).current = s.current
           /\ Enqueue(s, t).level1 = s.level1
           /\ Range(Enqueue(s, t).level0) = Range(s.level0) \cup {t}
           /\ t \notin Range(s.level0) /\ IsInjective(s.level0)
                 => IsInjective(Enqueue(s, t).level0)
<1>1. Enqueue(s, t) = [s EXCEPT !.level0 = Append(s.level0, t)]
    BY LevelType DEF Enqueue
<1>2. s.level0 \in Seq(Threads)  BY DEF SchedRecord
<1>3. /\ Append(s.level0, t) \in Seq(Threads)
      /\ Range(Append(s.level0, t)) = Range(s.level0) \cup {t}
      /\ IsInjective(s.level0) /\ t \notin Range(s.level0) => IsInjective(Append(s.level0, t))
    BY <1>2, AppendQueue
<1> QED BY <1>1, <1>3 DEF SchedRecord

\* Assigning to the state and the counter of one thread.
LEMMA UpdateThread ==
    ASSUME NEW s \in SchedRecord, NEW t \in AllThreads,
           NEW st \in ThreadState, NEW n \in Int
    PROVE  /\ SetThread(s, t, st, n) \in SchedRecord
           /\ SetThread(s, t, st, n).state = [s.state EXCEPT ![t] = st]
           /\ SetThread(s, t, st, n).count = [s.count EXCEPT ![t] = n]
           /\ SetThread(s, t, st, n).current = s.current
           /\ SetThread(s, t, st, n).level0 = s.level0
           /\ SetThread(s, t, st, n).level1 = s.level1
BY DEF SetThread, SchedRecord

\* Assigning to the state alone.
LEMMA SetStateFields ==
    ASSUME NEW s \in SchedRecord, NEW t \in AllThreads, NEW st \in ThreadState
    PROVE  /\ SetState(s, t, st) \in SchedRecord
           /\ SetState(s, t, st).state = [s.state EXCEPT ![t] = st]
           /\ SetState(s, t, st).count = s.count
           /\ SetState(s, t, st).current = s.current
           /\ SetState(s, t, st).level0 = s.level0
           /\ SetState(s, t, st).level1 = s.level1
BY DEF SetState, SchedRecord

\* Assigning to the slice counter alone.
LEMMA SetCountFields ==
    ASSUME NEW s \in SchedRecord, NEW t \in AllThreads, NEW n \in Int
    PROVE  /\ SetCount(s, t, n) \in SchedRecord
           /\ SetCount(s, t, n).state = s.state
           /\ SetCount(s, t, n).count = [s.count EXCEPT ![t] = n]
           /\ SetCount(s, t, n).current = s.current
           /\ SetCount(s, t, n).level0 = s.level0
           /\ SetCount(s, t, n).level1 = s.level1
BY DEF SetCount, SchedRecord

\* A thread that is in no list is given a ready state and queued.
LEMMA QueueThread ==
    ASSUME NEW s, WellTyped(s), QueuesHold(s),
           NEW t \in Threads, s.state[t] \notin Ready,
           NEW st \in Ready,
           NEW m, WellTyped(m),
           m.state = [s.state EXCEPT ![t] = st],
           m.current = s.current, m.level0 = s.level0, m.level1 = s.level1
    PROVE  /\ WellTyped(Enqueue(m, t))
           /\ QueuesHold(Enqueue(m, t))
           /\ Enqueue(m, t).state = [s.state EXCEPT ![t] = st]
           /\ Enqueue(m, t).current = s.current
<1> DEFINE r == Enqueue(m, t)
<1>1. t \notin Range(s.level0) /\ t \notin Range(s.level1)
    BY DEF QueuesHold, Queued
<1>2. /\ r \in SchedRecord
      /\ r.state = m.state /\ r.count = m.count
      /\ r.current = m.current /\ r.level1 = m.level1
      /\ Range(r.level0) = Range(m.level0) \cup {t}
      /\ IsInjective(r.level0)
    BY <1>1, EnqueueThread DEF QueuesHold, WellTyped
<1> HIDE DEF r
<1>3. WellTyped(r)  BY <1>2 DEF WellTyped
<1>4. QueuesHold(r)
    <2>1. \A u \in Threads : u \in Queued(r) <=> u \in Queued(s) \/ u = t
        BY <1>2 DEF Queued
    <2>2. \A u \in Threads : r.state[u] \in Ready <=> s.state[u] \in Ready \/ u = t
        BY SMTT(30), <1>2, Names DEF WellTyped, SchedRecord
    <2> QED BY <2>1, <2>2, <1>1, <1>2 DEF QueuesHold
<1> QED BY <1>2, <1>3, <1>4 DEF r

\* Waking a blocked or preempted thread: the tail of __up_signal, __send_msg,
\* dummy_send_msg and down_thread.
LEMMA WakeThread ==
    ASSUME NEW s, WellTyped(s), QueuesHold(s),
           NEW t \in Threads, s.state[t] \notin Ready
    PROVE  /\ WellTyped(Wake(s, t))
           /\ QueuesHold(Wake(s, t))
           /\ Wake(s, t).state = [s.state EXCEPT ![t] = "READY"]
           /\ Wake(s, t).current = s.current
<1> DEFINE m == SetState(s, t, "READY")
<1>0. s \in SchedRecord /\ t \in AllThreads /\ "READY" \in ThreadState
    BY Names DEF WellTyped
<1>1. /\ m \in SchedRecord
      /\ m.state = [s.state EXCEPT ![t] = "READY"]
      /\ m.count = s.count /\ m.current = s.current
      /\ m.level0 = s.level0 /\ m.level1 = s.level1
    BY <1>0, SetStateFields
<1>2. WellTyped(m)  BY <1>1 DEF WellTyped
<1>3. "READY" \in Ready  OBVIOUS
<1> HIDE DEF m, Ready
<1>4. /\ WellTyped(Enqueue(m, t))
      /\ QueuesHold(Enqueue(m, t))
      /\ Enqueue(m, t).state = [s.state EXCEPT ![t] = "READY"]
      /\ Enqueue(m, t).current = s.current
    BY <1>1, <1>2, <1>3, QueueThread
<1> QED BY <1>4 DEF Wake, m

\* A new thread is submitted: create_task and __create_thread__.
LEMMA SubmitThread ==
    ASSUME NEW s, InCall(s), NEW t \in Threads, s.state[t] = "UNUSED"
    PROVE  InCall(Submit(s, t)) /\ Submit(s, t).current = s.current
           /\ Submit(s, t).state = [s.state EXCEPT ![t] = "SUBBMITED"]
<1> DEFINE m == SetThread(s, t, "SUBBMITED", Slices(t))
<1>0. /\ WellTyped(s) /\ QueuesHold(s)
      /\ s \in SchedRecord /\ t \in AllThreads /\ "SUBBMITED" \in ThreadState
    BY Names DEF InCall, WellTyped
<1>1. Slices(t) \in Int /\ Slices(t) \in 0 .. Slices(t)  BY SlicesType
<1>2. /\ m \in SchedRecord
      /\ m.state = [s.state EXCEPT ![t] = "SUBBMITED"]
      /\ m.count = [s.count EXCEPT ![t] = Slices(t)]
      /\ m.current = s.current
      /\ m.level0 = s.level0 /\ m.level1 = s.level1
    BY <1>0, <1>1, UpdateThread
<1> HIDE DEF m
<1>3. WellTyped(m)  BY <1>0, <1>1, <1>2 DEF WellTyped, SchedRecord
<1>4. "SUBBMITED" \in Ready /\ s.state[t] \notin Ready  OBVIOUS
<1> HIDE DEF Ready
<1>5. /\ WellTyped(Enqueue(m, t))
      /\ QueuesHold(Enqueue(m, t))
      /\ Enqueue(m, t).state = [s.state EXCEPT ![t] = "SUBBMITED"]
      /\ Enqueue(m, t).current = s.current
    BY <1>0, <1>2, <1>3, <1>4, QueueThread
<1> QED BY <1>0, <1>5, Names DEF Submit, m, InCall, WellTyped, SchedRecord

\* A wake-up inside a handler.
LEMMA WakeInCall ==
    ASSUME NEW s, InCall(s), NEW t \in Threads, s.state[t] \in Blocked, t # s.current
    PROVE  InCall(Wake(s, t)) /\ Wake(s, t).current = s.current
           /\ Wake(s, t).state = [s.state EXCEPT ![t] = "READY"]
<1>1. s.state[t] \notin Ready  OBVIOUS
<1>2. /\ WellTyped(Wake(s, t))
      /\ QueuesHold(Wake(s, t))
      /\ Wake(s, t).state = [s.state EXCEPT ![t] = "READY"]
      /\ Wake(s, t).current = s.current
    BY <1>1, WakeThread DEF InCall
<1> QED BY <1>2 DEF InCall, WellTyped, SchedRecord

\* The current thread goes to sleep or dies.
LEMMA StopInCall ==
    ASSUME NEW s, Settled(s), s.current \in Threads, NEW st \in Blocked \cup Dying
    PROVE  InCall(SetState(s, s.current, st))
           /\ SetState(s, s.current, st).current = s.current
           /\ SetState(s, s.current, st).state = [s.state EXCEPT ![s.current] = st]
<1> DEFINE r == SetState(s, s.current, st)
<1>0. s \in SchedRecord /\ s.current \in AllThreads /\ st \in ThreadState
    BY Names DEF Settled, InCall, WellTyped
<1>1. /\ r \in SchedRecord
      /\ r.state = [s.state EXCEPT ![s.current] = st]
      /\ r.count = s.count /\ r.current = s.current
      /\ r.level0 = s.level0 /\ r.level1 = s.level1
    BY <1>0, SetStateFields
<1>2. s.state[s.current] = "RUNNING"  BY DEF Settled
<1> HIDE DEF r
<1>3. WellTyped(r)  BY <1>1 DEF WellTyped, Settled, InCall
<1>4. QueuesHold(r)
    BY <1>1, <1>2 DEF QueuesHold, Queued, Settled, InCall, WellTyped, SchedRecord
<1>5. \A t \in AllThreads : r.state[t] = IF t = s.current THEN st ELSE s.state[t]
    BY <1>1 DEF Settled, InCall, WellTyped, SchedRecord
<1>6. s.current \in AllThreads  BY <1>1 DEF Settled, InCall, WellTyped, SchedRecord
<1> QED BY <1>1, <1>2, <1>3, <1>4, <1>5, <1>6 DEF InCall, Settled, r

\* down_thread leaves no thread running.
LEMMA DownThreadSwitches ==
    ASSUME NEW s, InCall(s)
    PROVE  /\ Switching(DownThread(s))
           /\ DownThread(s).current = s.current
<1> DEFINE c == s.current
<1>0. /\ c \in AllThreads
      /\ s \in SchedRecord
      /\ {"READY", "UNUSED"} \subseteq ThreadState
      /\ s.state \in [AllThreads -> ThreadState]
      /\ WellTyped(s) /\ QueuesHold(s)
      /\ \A t \in AllThreads : s.state[t] \in Dying \cup {"RUNNING"} => t = c
    BY Names DEF InCall, WellTyped, SchedRecord
<1>1. CASE s.state[c] = "RUNNING" /\ c \in Threads
    <2>1. DownThread(s) = Wake(s, c)  BY <1>1 DEF DownThread
    <2>2. /\ WellTyped(Wake(s, c)) /\ QueuesHold(Wake(s, c))
          /\ Wake(s, c).state = [s.state EXCEPT ![c] = "READY"]
          /\ Wake(s, c).current = c
        BY <1>0, <1>1, WakeThread
    <2> QED BY <1>0, <2>1, <2>2 DEF Switching
<1>2. CASE s.state[c] = "RUNNING" /\ c = EmptyThread
    <2>1. DownThread(s) = SetState(s, c, "READY")
        BY <1>2, LevelType DEF DownThread, Wake, Enqueue
    <2> DEFINE r == SetState(s, c, "READY")
    <2>2. /\ r \in SchedRecord
          /\ r.state = [s.state EXCEPT ![c] = "READY"]
          /\ r.count = s.count /\ r.current = c
          /\ r.level0 = s.level0 /\ r.level1 = s.level1
        BY <1>0, SetStateFields
    <2> HIDE DEF r
    <2>3. WellTyped(r)  BY <1>0, <2>2 DEF WellTyped
    <2>4. QueuesHold(r)  BY <1>0, <1>2, <2>2, ThreadsAssumption DEF QueuesHold, Queued
    <2> QED BY <1>0, <2>1, <2>2, <2>3, <2>4 DEF Switching, r
<1>3. CASE s.state[c] \in Dying
    <2>1. DownThread(s) = RemoveThread(s, c)  BY <1>3 DEF DownThread
    <2> DEFINE r == RemoveThread(s, c)
    <2>2. /\ r \in SchedRecord
          /\ r.state = [s.state EXCEPT ![c] = "UNUSED"]
          /\ r.count = [s.count EXCEPT ![c] = 0] /\ r.current = c
          /\ r.level0 = s.level0 /\ r.level1 = s.level1
        BY <1>0, UpdateThread DEF RemoveThread
    <2> HIDE DEF r
    <2>3. WellTyped(r)  BY <1>0, <2>2, SlicesType DEF WellTyped, SchedRecord
    <2>4. QueuesHold(r)  BY <1>0, <1>3, <2>2 DEF QueuesHold, Queued
    <2> QED BY <1>0, <2>1, <2>2, <2>3, <2>4 DEF Switching, r
<1>4. CASE s.state[c] \in Blocked
    <2>1. DownThread(s) = s  BY <1>4 DEF DownThread
    <2> QED BY <1>0, <1>4, <2>1 DEF Switching
<1> QED BY <1>0, <1>1, <1>2, <1>3, <1>4, Names DEF InCall

\* get_next_run_thread hands out the head of a list, which leaves it, or the
\* empty thread.
LEMMA NextRunThreadPicks ==
    ASSUME NEW s, Switching(s)
    PROVE  LET r == NextRunThread(s)
           IN  /\ WellTyped(r)
               /\ r.state = s.state
               /\ \A t \in Threads :
                     t \in Queued(r) <=> s.state[t] \in Ready /\ t # r.current
               /\ IsInjective(r.level0) /\ IsInjective(r.level1)
               /\ Range(r.level0) \cap Range(r.level1) = {}
<1> DEFINE r == NextRunThread(s)
<1>0. /\ s \in SchedRecord
      /\ s.level0 \in Seq(Threads) /\ s.level1 \in Seq(Threads)
      /\ QueuesHold(s) /\ WellTyped(s)
    BY DEF Switching, WellTyped, SchedRecord
<1>1. CASE HasLevel0(s)
    <2>1. s.level0 # <<>> /\ IsInjective(s.level0)  BY <1>0, <1>1 DEF HasLevel0, QueuesHold
    <2>2. /\ Tail(s.level0) \in Seq(Threads)
          /\ Head(s.level0) \in Threads
          /\ Head(s.level0) \in Range(s.level0)
          /\ Range(Tail(s.level0)) = Range(s.level0) \ {Head(s.level0)}
          /\ IsInjective(Tail(s.level0))
        BY <1>0, <2>1, TailQueue
    <2>3. /\ r \in SchedRecord
          /\ r.state = s.state /\ r.count = s.count
          /\ r.current = Head(s.level0)
          /\ r.level0 = Tail(s.level0) /\ r.level1 = s.level1
        BY <1>0, <1>1, <2>2, Names DEF NextRunThread, SchedRecord
    <2> HIDE DEF r
    <2>4. \A t \in Threads : t \in Queued(r) <=> t \in Queued(s) /\ t # r.current
        BY <1>0, <2>2, <2>3 DEF Queued, QueuesHold
    <2> QED BY <1>0, <2>2, <2>3, <2>4 DEF QueuesHold, WellTyped, r
<1>2. CASE ~HasLevel0(s) /\ HasLevel1(s)
    <2>1. s.level1 # <<>> /\ IsInjective(s.level1)  BY <1>0, <1>2 DEF HasLevel1, QueuesHold
    <2>2. /\ Tail(s.level1) \in Seq(Threads)
          /\ Head(s.level1) \in Threads
          /\ Head(s.level1) \in Range(s.level1)
          /\ Range(Tail(s.level1)) = Range(s.level1) \ {Head(s.level1)}
          /\ IsInjective(Tail(s.level1))
        BY <1>0, <2>1, TailQueue
    <2>3. /\ r \in SchedRecord
          /\ r.state = s.state /\ r.count = s.count
          /\ r.current = Head(s.level1)
          /\ r.level0 = s.level0 /\ r.level1 = Tail(s.level1)
        BY <1>0, <1>2, <2>2, Names DEF NextRunThread, SchedRecord
    <2> HIDE DEF r
    <2>4. \A t \in Threads : t \in Queued(r) <=> t \in Queued(s) /\ t # r.current
        BY <1>0, <2>2, <2>3 DEF Queued, QueuesHold
    <2> QED BY <1>0, <2>2, <2>3, <2>4 DEF QueuesHold, WellTyped, r
<1>3. CASE ~HasLevel0(s) /\ ~HasLevel1(s)
    <2>1. /\ r \in SchedRecord
          /\ r.state = s.state /\ r.count = s.count
          /\ r.current = EmptyThread
          /\ r.level0 = s.level0 /\ r.level1 = s.level1
        BY <1>0, <1>3, Names DEF NextRunThread, SchedRecord
    <2> HIDE DEF r
    <2> QED BY <1>0, <2>1, Names DEF QueuesHold, WellTyped, Queued, r
<1> QED BY <1>1, <1>2, <1>3

\* do_switch turns any state a handler can leave behind into a settled one,
\* and gives a thread of level 1 a full set of slices.
LEMMA DoSwitchSettles ==
    ASSUME NEW s, InCall(s)
    PROVE  /\ Settled(DoSwitch(s))
           /\ LevelOf(DoSwitch(s).current) = 1
                 => DoSwitch(s).count[DoSwitch(s).current] > 0
<1> DEFINE d == DownThread(s)
           n == NextRunThread(d)
           u == UpThread(n)
           r == RefillSlices(u)
           c == n.current
<1>1. Switching(d)  BY DownThreadSwitches
<1>2. /\ WellTyped(n)
      /\ n.state = d.state
      /\ \A t \in Threads : t \in Queued(n) <=> d.state[t] \in Ready /\ t # c
      /\ IsInjective(n.level0) /\ IsInjective(n.level1)
      /\ Range(n.level0) \cap Range(n.level1) = {}
    BY <1>1, NextRunThreadPicks
<1>3. \A t \in AllThreads : d.state[t] \notin Dying \cup {"RUNNING"}
    BY <1>1 DEF Switching
<1> HIDE DEF d, n
<1>4. n \in SchedRecord /\ c \in AllThreads /\ "RUNNING" \in ThreadState
    BY <1>2, Names DEF WellTyped, SchedRecord
<1>5. /\ u \in SchedRecord
      /\ u.state = [n.state EXCEPT ![c] = "RUNNING"]
      /\ u.count = n.count /\ u.current = c
      /\ u.level0 = n.level0 /\ u.level1 = n.level1
    BY <1>4, SetStateFields DEF UpThread
<1> HIDE DEF u
<1>6. Settled(u)
    <2>1. \A t \in AllThreads :
             u.state[t] = IF t = c THEN "RUNNING" ELSE d.state[t]
        BY <1>2, <1>4, <1>5 DEF SchedRecord
    <2>2. WellTyped(u)  BY <1>2, <1>5 DEF WellTyped
    <2>3. QueuesHold(u)  BY <1>2, <1>5, <2>1, Names DEF QueuesHold, Queued
    <2> QED BY <1>3, <1>4, <1>5, <2>1, <2>2, <2>3 DEF Settled, InCall
<1>7. CASE LevelOf(c) = 1
    <2>1. c \in Threads  BY <1>4, <1>7, Names, LevelType
    <2>2. Slices(c) \in Nat /\ Slices(c) >= 3  BY <2>1, SlicesType
    <2>3. r = SetCount(u, c, Slices(c)) /\ Slices(c) \in Int  BY <1>5, <1>7, <2>2 DEF RefillSlices
    <2>4. /\ r \in SchedRecord
          /\ r.state = u.state /\ r.current = c
          /\ r.count = [u.count EXCEPT ![c] = Slices(c)]
          /\ r.level0 = u.level0 /\ r.level1 = u.level1
        BY <1>4, <1>5, <2>3, SetCountFields
    <2> HIDE DEF r
    <2>5. WellTyped(r)
        <3>1. WellTyped(u)  BY <1>6 DEF Settled, InCall
        <3>2. u.count \in [AllThreads -> Int]  BY <3>1 DEF WellTyped, SchedRecord
        <3>3. ASSUME NEW t \in Threads  PROVE r.count[t] \in 0 .. Slices(t)
            <4>1. CASE t = c  BY <1>4, <2>2, <2>4, <3>2, <4>1
            <4>2. CASE t # c  BY <2>4, <3>1, <3>2, <4>2, Names DEF WellTyped
            <4> QED BY <4>1, <4>2
        <3> QED BY <2>4, <3>3 DEF WellTyped
    <2>6. r.count[c] > 0  BY <1>4, <1>5, <2>2, <2>4 DEF SchedRecord
    <2>7. Settled(r)  BY <1>5, <1>6, <2>4, <2>5 DEF Settled, InCall, QueuesHold, Queued
    <2> QED BY <2>4, <2>6, <2>7 DEF DoSwitch, r, u, n, d
<1>8. CASE LevelOf(c) # 1
    <2>1. r = u  BY <1>5, <1>8 DEF RefillSlices
    <2> QED BY <1>5, <1>6, <1>8, <2>1 DEF DoSwitch, r, u, n, d
<1> QED BY <1>7, <1>8

\* after_syscall, once scheduling has started.
LEMMA AfterSyscallSettles ==
    ASSUME NEW s, InCall(s), do_schedule
    PROVE  /\ Settled(AfterSyscall(s))
           /\ LevelOf(AfterSyscall(s).current) = 1
                 => AfterSyscall(s).count[AfterSyscall(s).current] > 0
<1>1. CASE ShouldSwitch(s)  BY <1>1, DoSwitchSettles DEF AfterSyscall
<1>2. CASE ~ShouldSwitch(s)
    <2>1. AfterSyscall(s) = s  BY <1>2 DEF AfterSyscall
    <2>2. s.state[s.current] = "RUNNING"  BY <1>2 DEF ShouldSwitch
    <2>3. LevelOf(s.current) = 1 => ~(s.count[s.current] <= 0)  BY <1>2 DEF ShouldSwitch
    <2>4. s.count[s.current] \in Int  BY DEF InCall, WellTyped, SchedRecord
    <2> QED BY <2>1, <2>2, <2>3, <2>4 DEF Settled
<1> QED BY <1>1, <1>2

\* The clock takes a slice only from a thread that has one left.
LEMMA ClockSettles ==
    ASSUME Settled(sched), do_schedule
    PROVE  Settled(TakeSlice(AfterSyscall(sched)))
<1> DEFINE s == AfterSyscall(sched)
           c == s.current
           r == TakeSlice(s)
<1>1. Settled(s) /\ (LevelOf(c) = 1 => s.count[c] > 0)
    BY AfterSyscallSettles DEF Settled
<1> HIDE DEF s
<1>2. CASE LevelOf(c) = 1
    <2>0. s \in SchedRecord /\ c \in AllThreads  BY <1>1 DEF Settled, InCall, WellTyped, SchedRecord
    <2>1. c \in Threads  BY <2>0, <1>2, Names, LevelType
    <2>2. s.count[c] \in 0 .. Slices(c) /\ s.count[c] > 0 /\ Slices(c) \in Nat
        BY <1>1, <1>2, <2>1, SlicesType DEF Settled, InCall, WellTyped
    <2>3. s.count[c] - 1 \in 0 .. Slices(c) /\ s.count[c] - 1 \in Int  BY <2>2
    <2>4. r = SetCount(s, c, s.count[c] - 1)  BY <1>2 DEF TakeSlice
    <2>5. /\ r \in SchedRecord
          /\ r.state = s.state /\ r.current = c
          /\ r.count = [s.count EXCEPT ![c] = s.count[c] - 1]
          /\ r.level0 = s.level0 /\ r.level1 = s.level1
        BY <2>0, <2>3, <2>4, SetCountFields
    <2> HIDE DEF r
    <2>6. WellTyped(r)  BY <1>1, <2>0, <2>3, <2>5 DEF WellTyped, Settled, InCall, SchedRecord
    <2>7. Settled(r)  BY <1>1, <2>5, <2>6 DEF Settled, InCall, QueuesHold, Queued
    <2> QED BY <2>7 DEF r, s
<1>3. CASE LevelOf(c) # 1  BY <1>1, <1>3 DEF TakeSlice, s
<1> QED BY <1>2, <1>3
---------------------------------------------------------------------------
(* The inductive invariant of the scheduler. *)

SchedInv ==
    /\ Settled(sched)
    /\ do_schedule \in BOOLEAN
    /\ tasks \subseteq Tasks

LEMMA SchedInitInv == SchedInit => SchedInv
<1> SUFFICES ASSUME SchedInit PROVE SchedInv  OBVIOUS
<1>1. /\ InitThread \in AllThreads /\ EmptyThread \in AllThreads
      /\ InitThread # EmptyThread
      /\ {"RUNNING", "SUBBMITED", "UNUSED"} \subseteq ThreadState
    BY Names
<1>2. Slices(InitThread) \in Nat /\ Slices(EmptyThread) \in Int
    BY SlicesType DEF Slices, PriorityOf
<1>3. \A t \in AllThreads :
        (IF t \in {InitThread, EmptyThread} THEN Slices(t) ELSE 0) \in Int
    BY <1>2
<1>4. \A t \in AllThreads :
        /\ sched.state[t] = CASE t = InitThread  -> "RUNNING"
                               [] t = EmptyThread -> "SUBBMITED"
                               [] OTHER           -> "UNUSED"
        /\ sched.count[t] = IF t \in {InitThread, EmptyThread} THEN Slices(t) ELSE 0
    BY DEF SchedInit
<1>5. /\ sched.current = InitThread
      /\ sched.level0 = <<>> /\ sched.level1 = <<>>
    BY DEF SchedInit
<1>6. sched \in SchedRecord
    <2>1. [t \in AllThreads |-> CASE t = InitThread  -> "RUNNING"
                                  [] t = EmptyThread -> "SUBBMITED"
                                  [] OTHER           -> "UNUSED"]
             \in [AllThreads -> ThreadState]
        BY <1>1
    <2>2. [t \in AllThreads |->
              IF t \in {InitThread, EmptyThread} THEN Slices(t) ELSE 0]
             \in [AllThreads -> Int]
        BY <1>3
    <2>3. <<>> \in Seq(Threads)  BY EmptySeq
    <2> QED BY <1>1, <2>1, <2>2, <2>3 DEF SchedInit, SchedRecord
<1>7. WellTyped(sched)
    <2>1. ASSUME NEW t \in Threads PROVE sched.count[t] \in 0 .. Slices(t)
        <3>1. Slices(t) \in Nat  BY SlicesType
        <3>2. sched.count[t] = IF t \in {InitThread, EmptyThread} THEN Slices(t) ELSE 0
            BY <1>4, Names
        <3> QED BY <3>1, <3>2
    <2> QED BY <1>6, <2>1 DEF WellTyped
<1>8. QueuesHold(sched)
    <2>1. Range(sched.level0) = {} /\ Range(sched.level1) = {}  BY <1>5, EmptyQueue
    <2>2. \A t \in Threads : sched.state[t] \notin Ready  BY <1>4, Names
    <2> QED BY <1>5, <2>1, <2>2, EmptyQueue DEF QueuesHold, Queued
<1>9. Settled(sched)
    <2>1. \A t \in AllThreads : sched.state[t] \in Dying \cup {"RUNNING"} => t = InitThread
        BY <1>4
    <2>2. sched.state[InitThread] = "RUNNING"  BY <1>1, <1>4
    <2> QED BY <1>5, <1>7, <1>8, <2>1, <2>2 DEF Settled, InCall
<1> QED BY <1>9 DEF SchedInv, SchedInit

\* Every handler keeps it.
LEMMA SchedStepInv ==
    ASSUME SchedInv, [SchedNext]_schedVars
    PROVE  SchedInv'
<1>0. /\ Settled(sched) /\ InCall(sched)
      /\ sched.state[sched.current] = "RUNNING"
      /\ sched \in SchedRecord
    BY DEF SchedInv, Settled, InCall, WellTyped
<1>1. CASE UNCHANGED schedVars
    BY <1>1 DEF schedVars, SchedInv, Settled, InCall, WellTyped, QueuesHold, Queued
<1> DEFINE SameTasks == UNCHANGED <<do_schedule, tasks>>
<1>2. SUFFICES ASSUME SchedNext
               PROVE  /\ do_schedule' \in BOOLEAN /\ tasks' \subseteq Tasks
                      /\ Settled(sched')
    BY <1>1, <1>2 DEF SchedInv
<1>3. ASSUME NEW s, InCall(s), do_schedule, sched' = AfterSyscall(s), SameTasks
      PROVE  do_schedule' \in BOOLEAN /\ tasks' \subseteq Tasks /\ Settled(sched')
    BY <1>3, AfterSyscallSettles DEF SchedInv
<1>4. CASE StartSchedule
    BY <1>0, <1>4 DEF StartSchedule, SchedInv
<1>5. CASE ClockTick
    BY <1>0, <1>5, ClockSettles DEF ClockTick, SchedInv
<1>6. ASSUME NEW k \in Tasks, CreateTask(k)
      PROVE  do_schedule' \in BOOLEAN /\ tasks' \subseteq Tasks /\ Settled(sched')
    <2>1. PICK t \in FreeSlots(k) : sched' = Submit(sched, t)  BY <1>6 DEF CreateTask
    <2>2. t \in Threads /\ sched.state[t] = "UNUSED" /\ t \in AllThreads
        BY <2>1, Names DEF FreeSlots
    <2>3. /\ InCall(sched') /\ sched'.current = sched.current
          /\ sched'.state = [sched.state EXCEPT ![t] = "SUBBMITED"]
        BY <1>0, <2>1, <2>2, SubmitThread
    <2>4. sched'.state[sched'.current] = "RUNNING"
        BY <1>0, <2>2, <2>3 DEF SchedRecord
    <2> QED BY <1>6, <2>3, <2>4 DEF CreateTask, SchedInv, Settled
<1>7. ASSUME NEW c \in Threads, CreateThread(c)
      PROVE  do_schedule' \in BOOLEAN /\ tasks' \subseteq Tasks /\ Settled(sched')
    <2>1. PICK t \in FreeSlots(TaskOf[c]) : sched' = AfterSyscall(Submit(sched, t))
        BY <1>7 DEF CreateThread
    <2>2. t \in Threads /\ sched.state[t] = "UNUSED"  BY <2>1 DEF FreeSlots
    <2>3. InCall(Submit(sched, t))  BY <1>0, <2>2, SubmitThread
    <2> QED BY <1>3, <1>7, <2>1, <2>3 DEF CreateThread, Executes
<1>8. ASSUME NEW c \in Threads, SyscallOnly(c)
      PROVE  do_schedule' \in BOOLEAN /\ tasks' \subseteq Tasks /\ Settled(sched')
    BY <1>0, <1>3, <1>8 DEF SyscallOnly, Executes
<1>9. ASSUME NEW c \in Threads, NEW st \in Blocked \cup Dying,
             Executes(c), sched' = AfterSyscall(SetState(sched, c, st)), SameTasks
      PROVE  do_schedule' \in BOOLEAN /\ tasks' \subseteq Tasks /\ Settled(sched')
    <2>1. c = sched.current /\ do_schedule  BY <1>9 DEF Executes
    <2>2. InCall(SetState(sched, c, st))  BY <1>0, <1>9, <2>1, StopInCall
    <2> QED BY <1>3, <1>9, <2>1, <2>2
<1>10. ASSUME NEW c \in Threads, NEW st \in Blocked, SyscallBlock(c, st)
       PROVE  do_schedule' \in BOOLEAN /\ tasks' \subseteq Tasks /\ Settled(sched')
    BY <1>9, <1>10 DEF SyscallBlock
<1>11. ASSUME NEW c \in Threads, ExitThread(c)
       PROVE  do_schedule' \in BOOLEAN /\ tasks' \subseteq Tasks /\ Settled(sched')
    BY <1>9, <1>11 DEF ExitThread
<1>12. ASSUME NEW c \in Threads, Exception(c)
       PROVE  do_schedule' \in BOOLEAN /\ tasks' \subseteq Tasks /\ Settled(sched')
    BY <1>9, <1>12 DEF Exception
<1>13. ASSUME NEW c \in Threads, NEW t \in Threads, SyscallWake(c, t)
       PROVE  do_schedule' \in BOOLEAN /\ tasks' \subseteq Tasks /\ Settled(sched')
    <2>1. sched.state[t] \in Blocked /\ t # sched.current
        BY <1>0, <1>13 DEF SyscallWake
    <2>2. InCall(Wake(sched, t))  BY <1>0, <2>1, WakeInCall
    <2> QED BY <1>3, <1>13, <2>2 DEF SyscallWake, Executes
<1>14. ASSUME NEW t \in Threads, IrqWake(t)
       PROVE  do_schedule' \in BOOLEAN /\ tasks' \subseteq Tasks /\ Settled(sched')
    <2>1. /\ sched.state[t] \in Blocked /\ t # sched.current /\ t \in AllThreads
          /\ sched' = Wake(sched, t)
        BY <1>0, <1>14, Names DEF IrqWake
    <2>2. /\ InCall(sched') /\ sched'.current = sched.current
          /\ sched'.state = [sched.state EXCEPT ![t] = "READY"]
        BY <1>0, <2>1, WakeInCall
    <2>3. sched'.state[sched'.current] = "RUNNING"
        BY <1>0, <2>1, <2>2 DEF SchedRecord
    <2> QED BY <1>14, <2>2, <2>3 DEF IrqWake, SchedInv, Settled
<1> QED BY <1>2, <1>4, <1>5, <1>6, <1>7, <1>8, <1>10, <1>11, <1>12, <1>13, <1>14
        DEF SchedNext, SchedOwnStep

LEMMA SchedInvariance == SchedSpec => []SchedInv
<1>1. SchedInv /\ [SchedNext]_schedVars => SchedInv'  BY SchedStepInv
<1> QED BY SchedInitInv, <1>1, PTL DEF SchedSpec

\* Type correctness: in particular the slice counter of a thread never leaves
\* its range, for any priorities.
THEOREM SchedTypeCorrect == SchedSpec => []SchedTypeOK
<1>1. SchedInv => SchedTypeOK
    BY DEF SchedInv, SchedTypeOK, Settled, InCall, WellTyped
<1> QED BY SchedInvariance, <1>1, PTL

\* The ready lists hold exactly the threads that are ready, each once.
THEOREM QueueCorrect == SchedSpec => []QueueConsistent
<1>1. SchedInv => QueueConsistent
    BY DEF SchedInv, QueueConsistent, Settled, InCall, QueuesHold
<1> QED BY SchedInvariance, <1>1, PTL

\* One thread runs, and dead threads are gone when the handler ends.
THEOREM OneRunningCorrect == SchedSpec => []OneRunning
<1>1. SchedInv => OneRunning
    BY DEF SchedInv, OneRunning, Settled, InCall, WellTyped, SchedRecord
<1> QED BY SchedInvariance, <1>1, PTL
---------------------------------------------------------------------------
(* First come, first served on level 0. *)

\* Refilling the slices touches neither the state nor the current thread.
LEMMA RefillFrame ==
    ASSUME NEW s \in SchedRecord
    PROVE  RefillSlices(s).state = s.state /\ RefillSlices(s).current = s.current
BY DEF RefillSlices, SetCount, SchedRecord

\* A thread of level 0 that was running when the handler began is only
\* switched away if the handler put it to sleep or killed it.
LEMMA Level0Switch ==
    ASSUME NEW s, InCall(s), LevelOf(s.current) = 0
    PROVE  AfterSyscall(s).current # s.current
              => AfterSyscall(s).state[s.current] \in Blocked \cup {"UNUSED"}
<1> DEFINE c == s.current
           d == DownThread(s)
           n == NextRunThread(d)
           u == UpThread(n)
<1>1. SUFFICES ASSUME ShouldSwitch(s), AfterSyscall(s).current # c
               PROVE  AfterSyscall(s).state[c] \in Blocked \cup {"UNUSED"}
    BY DEF AfterSyscall
<1>2. AfterSyscall(s) = RefillSlices(u)  BY <1>1 DEF AfterSyscall, DoSwitch
<1>3. s.state[c] \in Dying \cup Blocked  BY <1>1 DEF ShouldSwitch, InCall
<1>4. s \in SchedRecord /\ c \in AllThreads /\ "UNUSED" \in ThreadState
    BY Names DEF InCall, WellTyped, SchedRecord
<1>5. d \in SchedRecord /\ Switching(d)
    BY DownThreadSwitches DEF Switching, WellTyped
<1>6. d.state[c] \in Blocked \cup {"UNUSED"}
    <2>1. CASE s.state[c] \in Dying
        <3>1. d = SetThread(s, c, "UNUSED", 0)  BY <2>1 DEF DownThread, RemoveThread
        <3> HIDE DEF c, d
        <3>2. SetThread(s, c, "UNUSED", 0).state = [s.state EXCEPT ![c] = "UNUSED"]
            BY <1>4 DEF SetThread, SchedRecord
        <3> QED BY <1>4, <3>1, <3>2 DEF SchedRecord
    <2>2. CASE s.state[c] \in Blocked
        <3>1. d = s  BY <2>2 DEF DownThread
        <3> QED BY <2>2, <3>1
    <2> QED BY <1>3, <2>1, <2>2
<1> HIDE DEF d
<1>7. /\ n.state = d.state
      /\ n \in SchedRecord
    BY <1>5, NextRunThreadPicks DEF WellTyped
<1> HIDE DEF n
<1>8. n.current \in AllThreads /\ "RUNNING" \in ThreadState  BY <1>7, Names DEF SchedRecord
<1>9. /\ u \in SchedRecord
      /\ u.state = [n.state EXCEPT ![n.current] = "RUNNING"]
      /\ u.current = n.current
    BY <1>7, <1>8, SetStateFields DEF UpThread
<1> HIDE DEF u
<1>10. RefillSlices(u).state = u.state /\ RefillSlices(u).current = u.current
    BY <1>9, RefillFrame
<1>11. n.current # c  BY <1>1, <1>2, <1>9, <1>10
<1>12. u.state[c] = d.state[c]  BY <1>4, <1>7, <1>9, <1>11 DEF SchedRecord
<1> QED BY <1>2, <1>6, <1>10, <1>12

\* Taking a slice touches neither the state nor the current thread.
LEMMA TakeSliceFrame ==
    ASSUME NEW s, Settled(s)
    PROVE  TakeSlice(s).state = s.state /\ TakeSlice(s).current = s.current
<1>1. s \in SchedRecord /\ s.current \in AllThreads
    BY DEF Settled, InCall, WellTyped, SchedRecord
<1>2. s.count[s.current] - 1 \in Int  BY <1>1 DEF SchedRecord
<1> QED BY <1>1, <1>2, SetCountFields DEF TakeSlice

\* The clock, an interrupt, a wake-up: nothing takes the processor from a
\* thread of level 0 that can go on.
THEOREM Level0KeepsRunning == SchedSpec => Level0NotPreempted
<1> DEFINE Kept == sched'.current # sched.current /\ LevelOf(sched.current) = 0
                      => sched'.state[sched.current] \in Blocked \cup {"UNUSED"}
<1>1. ASSUME SchedInv, SchedNext PROVE Kept
    <2>0. /\ Settled(sched) /\ InCall(sched)
          /\ sched.state[sched.current] = "RUNNING"
        BY <1>1 DEF SchedInv, Settled
    <2>1. ASSUME NEW s, InCall(s), s.current = sched.current, sched' = AfterSyscall(s)
          PROVE  Kept
        BY <2>1, Level0Switch
    <2>2. CASE StartSchedule  BY <2>2 DEF StartSchedule
    <2>3. CASE ClockTick
        <3>1. Settled(AfterSyscall(sched))  BY <2>0, <2>3, AfterSyscallSettles DEF ClockTick
        <3>2. /\ sched'.state = AfterSyscall(sched).state
              /\ sched'.current = AfterSyscall(sched).current
            BY <2>3, <3>1, TakeSliceFrame DEF ClockTick
        <3> QED BY <2>0, <3>2, Level0Switch
    <2>4. ASSUME NEW k \in Tasks, CreateTask(k) PROVE Kept
        <3>1. PICK t \in FreeSlots(k) : sched' = Submit(sched, t)  BY <2>4 DEF CreateTask
        <3> QED BY <2>0, <3>1, SubmitThread DEF FreeSlots
    <2>5. ASSUME NEW c \in Threads, CreateThread(c) PROVE Kept
        <3>1. PICK t \in FreeSlots(TaskOf[c]) : sched' = AfterSyscall(Submit(sched, t))
            BY <2>5 DEF CreateThread
        <3>2. t \in Threads /\ sched.state[t] = "UNUSED"  BY <3>1 DEF FreeSlots
        <3>3. InCall(Submit(sched, t)) /\ Submit(sched, t).current = sched.current
            BY <2>0, <3>2, SubmitThread
        <3> QED BY <2>1, <3>1, <3>3
    <2>6. ASSUME NEW c \in Threads, SyscallOnly(c) PROVE Kept
        BY <2>0, <2>1, <2>6 DEF SyscallOnly
    <2>7. ASSUME NEW c \in Threads, NEW st \in Blocked \cup Dying,
                 Executes(c), sched' = AfterSyscall(SetState(sched, c, st))
          PROVE  Kept
        <3>1. c = sched.current  BY <2>7 DEF Executes
        <3>2. /\ InCall(SetState(sched, c, st))
              /\ SetState(sched, c, st).current = sched.current
            BY <2>0, <2>7, <3>1, StopInCall
        <3> QED BY <2>1, <2>7, <3>2
    <2>8. ASSUME NEW c \in Threads, NEW st \in Blocked, SyscallBlock(c, st) PROVE Kept
        BY <2>7, <2>8 DEF SyscallBlock
    <2>9. ASSUME NEW c \in Threads, ExitThread(c) PROVE Kept
        BY <2>7, <2>9 DEF ExitThread
    <2>10. ASSUME NEW c \in Threads, Exception(c) PROVE Kept
        BY <2>7, <2>10 DEF Exception
    <2>11. ASSUME NEW c \in Threads, NEW t \in Threads, SyscallWake(c, t) PROVE Kept
        <3>1. sched.state[t] \in Blocked /\ t # sched.current
            BY <2>0, <2>11 DEF SyscallWake
        <3>2. InCall(Wake(sched, t)) /\ Wake(sched, t).current = sched.current
            BY <2>0, <3>1, WakeInCall
        <3> QED BY <2>1, <2>11, <3>2 DEF SyscallWake
    <2>12. ASSUME NEW t \in Threads, IrqWake(t) PROVE Kept
        <3>1. /\ sched.state[t] \in Blocked /\ t # sched.current
              /\ sched' = Wake(sched, t)
            BY <2>0, <2>12 DEF IrqWake
        <3> QED BY <2>0, <3>1, WakeInCall
    <2> QED BY <1>1, <2>2, <2>3, <2>4, <2>5, <2>6, <2>8, <2>9, <2>10, <2>11, <2>12
            DEF SchedNext, SchedOwnStep
<1>2. SchedInv /\ [SchedNext]_schedVars => [Kept]_sched
    BY <1>1 DEF schedVars
<1> QED BY SchedInvariance, <1>2, PTL DEF SchedSpec, Level0NotPreempted
---------------------------------------------------------------------------
(* First come, first served in the ready list of level 0: each function a  *)
(* handler calls appends to it, and the switch takes the head out.         *)

\* s was made from a record with this ready list by appending to the list.
Behind(s, old) == KeepsOrder(s.level0, old, 0)

\* enqueue_thread, for any thread.
LEMMA EnqueueBehind ==
    ASSUME NEW s \in SchedRecord, NEW t \in AllThreads, NEW old \in Seq(Threads),
           Behind(s, old)
    PROVE  Behind(Enqueue(s, t), old)
<1>1. CASE t \in Threads
    <2>1. Enqueue(s, t) = [s EXCEPT !.level0 = Append(s.level0, t)]
        BY <1>1, EnqueueThread
    <2>2. Enqueue(s, t).level0 = Append(s.level0, t)  BY <2>1 DEF SchedRecord
    <2> QED BY <1>1, <2>2, AppendKeepsOrder DEF Behind, SchedRecord
<1>2. CASE t = EmptyThread  BY <1>2, LevelType DEF Enqueue
<1> QED BY <1>1, <1>2, Names

\* Waking a thread: system calls, interrupts and down_thread.
LEMMA WakeBehind ==
    ASSUME NEW s \in SchedRecord, NEW t \in AllThreads, NEW old \in Seq(Threads),
           Behind(s, old)
    PROVE  Behind(Wake(s, t), old)
<1>1. "READY" \in ThreadState  BY Names
<1>2. /\ SetState(s, t, "READY") \in SchedRecord
      /\ SetState(s, t, "READY").level0 = s.level0
    BY <1>1, SetStateFields
<1> QED BY <1>2, EnqueueBehind DEF Wake, Behind

\* Submitting a new thread.
LEMMA SubmitBehind ==
    ASSUME NEW s \in SchedRecord, NEW t \in Threads, NEW old \in Seq(Threads),
           Behind(s, old)
    PROVE  Behind(Submit(s, t), old)
<1>1. t \in AllThreads /\ "SUBBMITED" \in ThreadState /\ Slices(t) \in Int
    BY Names, SlicesType
<1>2. /\ SetThread(s, t, "SUBBMITED", Slices(t)) \in SchedRecord
      /\ SetThread(s, t, "SUBBMITED", Slices(t)).level0 = s.level0
    BY <1>1 DEF SetThread, SchedRecord
<1> QED BY <1>1, <1>2, EnqueueBehind DEF Submit, Behind

\* down_thread queues the preempted thread behind the others.
LEMMA DownThreadBehind ==
    ASSUME NEW s \in SchedRecord, NEW old \in Seq(Threads), Behind(s, old)
    PROVE  Behind(DownThread(s), old)
<1>1. s.current \in AllThreads /\ "UNUSED" \in ThreadState  BY Names DEF SchedRecord
<1>2. CASE s.state[s.current] = "RUNNING"
    BY <1>1, <1>2, WakeBehind DEF DownThread
<1>3. CASE s.state[s.current] \in Dying
    <2>1. RemoveThread(s, s.current).level0 = s.level0
        BY DEF RemoveThread, SetThread, SchedRecord
    <2>2. DownThread(s) = RemoveThread(s, s.current)  BY <1>3 DEF DownThread
    <2> QED BY <2>1, <2>2 DEF Behind
<1>4. CASE s.state[s.current] \notin Dying \cup {"RUNNING"}
    BY <1>4 DEF DownThread
<1> QED BY <1>2, <1>3, <1>4

\* after_syscall takes at most the head of the list.
LEMMA AfterSyscallInOrder ==
    ASSUME NEW s, InCall(s), NEW old \in Seq(Threads), Behind(s, old)
    PROVE  /\ AfterSyscall(s).level0 \in Seq(Threads)
           /\ \E k \in {0, 1} : KeepsOrder(AfterSyscall(s).level0, old, k)
<1> DEFINE d == DownThread(s)
           n == NextRunThread(d)
           u == UpThread(n)
<1>1. s \in SchedRecord /\ s.level0 \in Seq(Threads)  BY DEF InCall, WellTyped, SchedRecord
<1>2. CASE ~ShouldSwitch(s)  BY <1>1, <1>2 DEF AfterSyscall, Behind
<1>3. CASE ShouldSwitch(s)
    <2>1. Behind(d, old) /\ Switching(d) /\ d \in SchedRecord
        BY <1>1, DownThreadBehind, DownThreadSwitches DEF Switching, WellTyped
    <2> HIDE DEF d
    <2>2. n \in SchedRecord  BY <2>1, NextRunThreadPicks DEF WellTyped
    <2>3. \E k \in {0, 1} : KeepsOrder(n.level0, old, k)
        <3>1. CASE HasLevel0(d)
            <4>1. n.level0 = Tail(d.level0) /\ d.level0 # <<>> /\ d.level0 \in Seq(Threads)
                BY <2>1, <3>1 DEF NextRunThread, HasLevel0, SchedRecord
            <4> QED BY <2>1, <4>1, TailKeepsOrder DEF Behind
        <3>2. CASE ~HasLevel0(d)
            <4>1. n.level0 = d.level0  BY <2>1, <3>2 DEF NextRunThread, SchedRecord
            <4> QED BY <2>1, <4>1 DEF Behind
        <3> QED BY <3>1, <3>2
    <2> HIDE DEF n
    <2>4. n.current \in AllThreads /\ "RUNNING" \in ThreadState
        BY <2>2, Names DEF SchedRecord
    <2>5. u \in SchedRecord /\ u.level0 = n.level0
        BY <2>2, <2>4, SetStateFields DEF UpThread
    <2> HIDE DEF u
    <2>6. RefillSlices(u).level0 = u.level0
        BY <2>5 DEF RefillSlices, SetCount, SchedRecord
    <2>7. AfterSyscall(s) = RefillSlices(u)  BY <1>3 DEF AfterSyscall, DoSwitch, u, n, d
    <2> QED BY <2>2, <2>3, <2>5, <2>6, <2>7 DEF SchedRecord
<1> QED BY <1>2, <1>3

\* First come, first served: no handler lets a thread overtake another in the
\* ready list, whatever it wakes, submits, preempts or frees on the way.
THEOREM NoOvertakingCorrect == SchedSpec => NoOvertaking
<1> DEFINE old  == sched.level0
           Kept == /\ sched'.level0 \in Seq(Threads)
                   /\ \E k \in {0, 1} : KeepsOrder(sched'.level0, old, k)
           Fcfs == \E k \in {0, 1} :
                      /\ Len(old) - k \in 0 .. Len(sched'.level0)
                      /\ SubSeq(sched'.level0, 1, Len(old) - k) = SubSeq(old, k + 1, Len(old))
<1>1. ASSUME SchedInv, SchedNext PROVE Kept
    <2>0. /\ Settled(sched) /\ InCall(sched) /\ sched \in SchedRecord
          /\ old \in Seq(Threads) /\ Behind(sched, old)
          /\ sched.state[sched.current] = "RUNNING" /\ sched.current \in AllThreads
        BY <1>1, SameOrder DEF SchedInv, Settled, InCall, WellTyped, SchedRecord, Behind
    <2>1. ASSUME NEW s, InCall(s), Behind(s, old), sched' = AfterSyscall(s)
          PROVE  Kept
        BY ZenonT(30), <2>0, <2>1, AfterSyscallInOrder
    <2>2. ASSUME NEW s \in SchedRecord, Behind(s, old), sched' = s
          PROVE  Kept
        BY <2>2 DEF Behind, SchedRecord
    <2>3. CASE StartSchedule  BY <2>0, <2>2, <2>3 DEF StartSchedule
    <2>4. CASE ClockTick
        <3> DEFINE s == AfterSyscall(sched)
        <3>1. Settled(s)  BY <2>0, <2>4, AfterSyscallSettles DEF ClockTick
        <3>2. s \in SchedRecord /\ s.current \in AllThreads
            BY <3>1 DEF Settled, InCall, WellTyped, SchedRecord
        <3>3. s.level0 \in Seq(Threads) /\ \E k \in {0, 1} : KeepsOrder(s.level0, old, k)
            BY <2>0, AfterSyscallInOrder
        <3> HIDE DEF s
        <3>4. s.count[s.current] - 1 \in Int  BY <3>2 DEF SchedRecord
        <3>5. TakeSlice(s).level0 = s.level0
            BY <3>2, <3>4, SetCountFields DEF TakeSlice
        <3> QED BY <2>4, <3>3, <3>5 DEF ClockTick, s
    <2>5. ASSUME NEW k \in Tasks, CreateTask(k) PROVE Kept
        <3>1. PICK t \in FreeSlots(k) : sched' = Submit(sched, t)  BY <2>5 DEF CreateTask
        <3>2. InCall(Submit(sched, t)) /\ Behind(Submit(sched, t), old)
            BY <2>0, <3>1, SubmitThread, SubmitBehind DEF FreeSlots
        <3> QED BY <2>2, <3>1, <3>2 DEF InCall, WellTyped
    <2>6. ASSUME NEW c \in Threads, CreateThread(c) PROVE Kept
        <3>1. PICK t \in FreeSlots(TaskOf[c]) : sched' = AfterSyscall(Submit(sched, t))
            BY <2>6 DEF CreateThread
        <3>2. InCall(Submit(sched, t)) /\ Behind(Submit(sched, t), old)
            BY <2>0, <3>1, SubmitThread, SubmitBehind DEF FreeSlots
        <3> QED BY <2>1, <3>1, <3>2
    <2>7. ASSUME NEW c \in Threads, SyscallOnly(c) PROVE Kept
        BY <2>0, <2>1, <2>7 DEF SyscallOnly
    <2>8. ASSUME NEW c \in Threads, NEW st \in Blocked \cup Dying,
                 Executes(c), sched' = AfterSyscall(SetState(sched, c, st))
          PROVE  Kept
        <3>1. c = sched.current /\ st \in ThreadState  BY <2>8, Names DEF Executes
        <3>2. InCall(SetState(sched, c, st))  BY <2>0, <2>8, <3>1, StopInCall
        <3>3. Behind(SetState(sched, c, st), old)
            BY ZenonT(30), <2>0, <3>1, SetStateFields DEF Behind
        <3> QED BY <2>1, <2>8, <3>2, <3>3
    <2>9. ASSUME NEW c \in Threads, NEW st \in Blocked, SyscallBlock(c, st) PROVE Kept
        BY <2>8, <2>9 DEF SyscallBlock
    <2>10. ASSUME NEW c \in Threads, ExitThread(c) PROVE Kept
        BY <2>8, <2>10 DEF ExitThread
    <2>11. ASSUME NEW c \in Threads, Exception(c) PROVE Kept
        BY <2>8, <2>11 DEF Exception
    <2>12. ASSUME NEW t \in Threads, sched.state[t] \in Blocked
           PROVE  InCall(Wake(sched, t)) /\ Behind(Wake(sched, t), old)
        <3>1. t # sched.current /\ t \in AllThreads  BY <2>0, <2>12, Names
        <3> QED BY <2>0, <2>12, <3>1, WakeInCall, WakeBehind
    <2>13. ASSUME NEW c \in Threads, NEW t \in Threads, SyscallWake(c, t) PROVE Kept
        BY <2>1, <2>12, <2>13 DEF SyscallWake
    <2>14. ASSUME NEW t \in Threads, IrqWake(t) PROVE Kept
        <3>1. sched.state[t] \in Blocked /\ sched' = Wake(sched, t)
            BY <2>14 DEF IrqWake
        <3> QED BY <2>2, <2>12, <3>1 DEF InCall, WellTyped
    <2> QED BY <1>1, <2>3, <2>4, <2>5, <2>6, <2>7, <2>9, <2>10, <2>11, <2>13, <2>14
            DEF SchedNext, SchedOwnStep
<1>2. ASSUME SchedInv, SchedNext PROVE Fcfs
    <2>1. old \in Seq(Threads)
        BY <1>2 DEF SchedInv, Settled, InCall, WellTyped, SchedRecord
    <2>2. PICK k \in {0, 1} : KeepsOrder(sched'.level0, old, k)  BY <1>1, <1>2
    <2>3. sched'.level0 \in Seq(Threads)  BY <1>1, <1>2
    <2>4. SubSeq(sched'.level0, 1, Len(old) - k) = SubSeq(old, k + 1, Len(old))
        BY ZenonT(30), <2>1, <2>2, <2>3, KeepsOrderSubSeq
    <2> QED BY <2>2, <2>4 DEF KeepsOrder
<1>3. SchedInv /\ [SchedNext]_schedVars => [Fcfs]_sched
    BY <1>2 DEF schedVars
<1> QED BY SchedInvariance, <1>3, PTL DEF SchedSpec, NoOvertaking
---------------------------------------------------------------------------
(* Who sleeps: the threads in a state of Blocked are changed by the calls   *)
(* that put the caller to sleep or wake a sleeper, never by the switch.     *)

SameSleepers(r, s) ==
    \A t \in Threads, b \in Blocked : r.state[t] = b <=> s.state[t] = b

\* down_thread requeues or frees a thread that does not sleep.
LEMMA DownThreadSleepers ==
    ASSUME NEW s, InCall(s)
    PROVE  SameSleepers(DownThread(s), s)
<1> DEFINE c == s.current
<1>1. /\ c \in AllThreads /\ s \in SchedRecord
      /\ "READY" \in ThreadState /\ "UNUSED" \in ThreadState
      /\ WellTyped(s) /\ QueuesHold(s)
    BY Names DEF InCall, WellTyped, SchedRecord
<1>2. CASE s.state[c] = "RUNNING"
    <2>1. DownThread(s).state = [s.state EXCEPT ![c] = "READY"]
        <3>1. CASE c \in Threads  BY <1>1, <1>2, <3>1, WakeThread DEF DownThread
        <3>2. CASE c = EmptyThread
            <4>1. DownThread(s) = SetState(s, c, "READY")
                BY <1>2, <3>2, LevelType DEF DownThread, Wake, Enqueue
            <4> QED BY <1>1, <4>1, SetStateFields
        <3> QED BY <1>1, <3>1, <3>2, Names
    <2> QED BY <1>1, <1>2, <2>1, Names DEF SameSleepers, SchedRecord
<1>3. CASE s.state[c] \in Dying
    <2>1. DownThread(s) = SetThread(s, c, "UNUSED", 0)
        BY <1>3 DEF DownThread, RemoveThread
    <2>2. SetThread(s, c, "UNUSED", 0).state = [s.state EXCEPT ![c] = "UNUSED"]
        BY <1>1 DEF SetThread, SchedRecord
    <2> QED BY <1>1, <1>3, <2>1, <2>2, Names DEF SameSleepers, SchedRecord
<1>4. CASE s.state[c] \in Blocked
    BY <1>4 DEF DownThread, SameSleepers
<1> QED BY <1>2, <1>3, <1>4 DEF InCall

\* Neither does the rest of the switch wake a sleeper or put one to sleep.
LEMMA SwitchSleepers ==
    ASSUME NEW s, InCall(s)
    PROVE  SameSleepers(AfterSyscall(s), s)
<1> DEFINE d == DownThread(s)
           n == NextRunThread(d)
           u == UpThread(n)
<1>1. CASE ~ShouldSwitch(s)  BY <1>1 DEF AfterSyscall, SameSleepers
<1>2. CASE ShouldSwitch(s)
    <2>1. AfterSyscall(s) = RefillSlices(u)  BY <1>2 DEF AfterSyscall, DoSwitch
    <2>2. SameSleepers(d, s) /\ Switching(d)  BY DownThreadSleepers, DownThreadSwitches
    <2> HIDE DEF d
    <2>3. /\ n \in SchedRecord /\ n.state = d.state
          /\ \A t \in Threads : t \in Queued(n) <=> d.state[t] \in Ready /\ t # n.current
        BY <2>2, NextRunThreadPicks DEF WellTyped
    <2>4. n.current \in Threads => d.state[n.current] \in Ready
        <3>1. QueuesHold(d) /\ d \in SchedRecord
              /\ d.level0 \in Seq(Threads) /\ d.level1 \in Seq(Threads)
            BY <2>2 DEF Switching, WellTyped, SchedRecord
        <3>2. CASE HasLevel0(d)
            <4>1. d.level0 # <<>> /\ IsInjective(d.level0)
                BY <3>1, <3>2 DEF HasLevel0, QueuesHold
            <4>2. Head(d.level0) \in Range(d.level0) /\ Head(d.level0) \in Threads
                BY <3>1, <4>1, TailQueue
            <4>3. n.current = Head(d.level0)
                BY <3>1, <3>2 DEF NextRunThread, SchedRecord
            <4> QED BY <3>1, <4>2, <4>3 DEF QueuesHold, Queued
        <3>3. CASE ~HasLevel0(d) /\ HasLevel1(d)
            <4>1. d.level1 # <<>> /\ IsInjective(d.level1)
                BY <3>1, <3>3 DEF HasLevel1, QueuesHold
            <4>2. Head(d.level1) \in Range(d.level1) /\ Head(d.level1) \in Threads
                BY <3>1, <4>1, TailQueue
            <4>3. n.current = Head(d.level1)
                BY <3>1, <3>3 DEF NextRunThread, SchedRecord
            <4> QED BY <3>1, <4>2, <4>3 DEF QueuesHold, Queued
        <3>4. CASE ~HasLevel0(d) /\ ~HasLevel1(d)
            BY <3>1, <3>4, ThreadsAssumption DEF NextRunThread, SchedRecord
        <3> QED BY <3>2, <3>3, <3>4
    <2> HIDE DEF n
    <2>5. n.current \in AllThreads /\ "RUNNING" \in ThreadState
        BY <2>3, Names DEF SchedRecord
    <2>6. u \in SchedRecord /\ u.state = [n.state EXCEPT ![n.current] = "RUNNING"]
        BY <2>3, <2>5, SetStateFields DEF UpThread
    <2> HIDE DEF u
    <2>7. RefillSlices(u).state = u.state  BY <2>6, RefillFrame
    <2>8. ASSUME NEW t \in Threads, NEW b \in Blocked
          PROVE  u.state[t] = b <=> d.state[t] = b
        <3>1. t \in AllThreads  BY Names
        <3>2. CASE t = n.current
            <4>1. u.state[t] = "RUNNING"  BY <2>3, <2>6, <3>1, <3>2 DEF SchedRecord
            <4> QED BY <2>4, <3>2, <4>1
        <3>3. CASE t # n.current
            BY <2>3, <2>6, <3>1, <3>3 DEF SchedRecord
        <3> QED BY <3>2, <3>3
    <2> QED BY <2>1, <2>2, <2>7, <2>8 DEF SameSleepers
<1> QED BY <1>1, <1>2

\* A thread that executes puts itself to sleep or dies.
LEMMA StopSleepers ==
    ASSUME SchedInv, NEW c \in Threads, NEW st \in Blocked \cup Dying,
           Executes(c), sched' = AfterSyscall(SetState(sched, c, st))
    PROVE  \A t \in Threads, b \in Blocked :
              sched'.state[t] = b <=> (t = c /\ st = b) \/ sched.state[t] = b
<1>1. /\ Settled(sched) /\ c = sched.current /\ sched \in SchedRecord
      /\ sched.state[c] = "RUNNING"
    BY DEF SchedInv, Settled, InCall, WellTyped, Executes
<1>2. /\ InCall(SetState(sched, c, st))
      /\ SetState(sched, c, st).state = [sched.state EXCEPT ![c] = st]
    BY <1>1, StopInCall
<1>3. SameSleepers(sched', SetState(sched, c, st))  BY <1>2, SwitchSleepers
<1> QED BY <1>1, <1>2, <1>3, Names DEF SameSleepers, SchedRecord

\* A sleeper is woken, in a system call or in an interrupt.
LEMMA WakeSleepers ==
    ASSUME SchedInv, NEW w \in Threads, sched.state[w] \in Blocked,
           sched' \in {Wake(sched, w), AfterSyscall(Wake(sched, w))}
    PROVE  \A t \in Threads, b \in Blocked :
              sched'.state[t] = b <=> t # w /\ sched.state[t] = b
<1>1. Settled(sched) /\ sched \in SchedRecord /\ sched.state[sched.current] = "RUNNING"
    BY DEF SchedInv, Settled, InCall, WellTyped
<1>2. /\ InCall(Wake(sched, w))
      /\ Wake(sched, w).state = [sched.state EXCEPT ![w] = "READY"]
    BY <1>1, WakeInCall DEF Settled
<1>3. SameSleepers(AfterSyscall(Wake(sched, w)), Wake(sched, w))
    BY <1>2, SwitchSleepers
<1>4. \A t \in Threads, b \in Blocked :
          Wake(sched, w).state[t] = b <=> t # w /\ sched.state[t] = b
    BY <1>1, <1>2, Names DEF SchedRecord
<1> QED BY <1>3, <1>4 DEF SameSleepers

\* The steps of the scheduler's own leave every sleeper asleep.
LEMMA OwnStepSleepers ==
    ASSUME SchedInv, SchedOwnStep
    PROVE  SameSleepers(sched', sched)
<1>0. /\ Settled(sched) /\ InCall(sched) /\ sched \in SchedRecord
      /\ sched.state[sched.current] = "RUNNING"
    BY DEF SchedInv, Settled, InCall, WellTyped
<1>1. CASE StartSchedule  BY <1>1 DEF StartSchedule, SameSleepers
<1>2. CASE ClockTick
    <2>1. Settled(AfterSyscall(sched))  BY <1>0, <1>2, AfterSyscallSettles DEF ClockTick
    <2>2. sched'.state = AfterSyscall(sched).state
        BY <1>2, <2>1, TakeSliceFrame DEF ClockTick
    <2> QED BY <1>0, <2>2, SwitchSleepers DEF SameSleepers
<1>3. ASSUME NEW t \in Threads, sched.state[t] = "UNUSED"
      PROVE  InCall(Submit(sched, t)) /\ SameSleepers(Submit(sched, t), sched)
    <2>1. /\ InCall(Submit(sched, t))
          /\ Submit(sched, t).state = [sched.state EXCEPT ![t] = "SUBBMITED"]
        BY <1>0, <1>3, SubmitThread
    <2> QED BY <1>0, <1>3, <2>1, Names DEF SameSleepers, SchedRecord
<1>4. ASSUME NEW k \in Tasks, CreateTask(k) PROVE SameSleepers(sched', sched)
    BY <1>3, <1>4 DEF CreateTask, FreeSlots
<1>5. ASSUME NEW c \in Threads, CreateThread(c) PROVE SameSleepers(sched', sched)
    <2>1. PICK t \in FreeSlots(TaskOf[c]) : sched' = AfterSyscall(Submit(sched, t))
        BY <1>5 DEF CreateThread
    <2>2. InCall(Submit(sched, t)) /\ SameSleepers(Submit(sched, t), sched)
        BY <1>3, <2>1 DEF FreeSlots
    <2> QED BY <2>1, <2>2, SwitchSleepers DEF SameSleepers
<1>6. ASSUME NEW c \in Threads, SyscallOnly(c) PROVE SameSleepers(sched', sched)
    BY <1>0, <1>6, SwitchSleepers DEF SyscallOnly
<1>7. ASSUME NEW c \in Threads, ExitThread(c) \/ Exception(c)
      PROVE  SameSleepers(sched', sched)
    <2>1. PICK st \in Dying : Executes(c) /\ sched' = AfterSyscall(SetState(sched, c, st))
        BY <1>7 DEF ExitThread, Exception
    <2> QED BY <2>1, StopSleepers DEF SameSleepers
<1> QED BY <1>1, <1>2, <1>4, <1>5, <1>6, <1>7 DEF SchedOwnStep
=============================================================================
