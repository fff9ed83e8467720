-------------------------- MODULE Semaphore_proofs --------------------------
(* Proofs about the semaphores.  The three invariants of Semaphore hold each *)
(* other up: an up finds a thread in the queue because the count says so     *)
(* (CountIsQueue), the thread may be woken because it is asleep (WaitsOnce), *)
(* and a thread that calls down is in no queue because it is awake.          *)
EXTENDS Semaphore, Scheduler_proofs

USE SignalAssumption DEF Blocked

\* The bound on the number of semaphores, which the abstract ones are named by.
TableBounded == Len(signals) <= SignalLimit

SemInv == SchedInv /\ SemTypeOK /\ CountIsQueue /\ WaitsOnce /\ TableBounded

\* The semaphores are the numbers from 1 on, each with fields of its types.
LEMMA SignalTypes ==
    ASSUME SemTypeOK
    PROVE  /\ Created = 1 .. Len(signals) /\ Len(signals) \in Nat
           /\ \A id \in Created :
                 /\ signals[id] \in SignalRecord
                 /\ signals[id].signals \in Int /\ signals[id].max \in Nat \ {0}
                 /\ signals[id].soft \in BOOLEAN /\ signals[id].wt \in Seq(Threads)
<1>1. Created = 1 .. Len(signals) /\ Len(signals) \in Nat
    BY LenProperties DEF SemTypeOK, Created
<1>2. \A id \in Created : signals[id] \in SignalRecord
    BY ElementOfSeq, <1>1 DEF SemTypeOK
<1> QED BY <1>1, <1>2 DEF SignalRecord

\* The queues stay as they are, the sleepers too.
LEMMA WaitsKept ==
    ASSUME WaitsOnce, SameSleepers(sched', sched),
           Created \subseteq Created',
           \A id \in Created : signals'[id].wt = signals[id].wt,
           \A id \in Created' \ Created : signals'[id].wt = <<>>
    PROVE  WaitsOnce'
<1>1. \A t \in Threads : sched'.state[t] = "WAITING" <=> sched.state[t] = "WAITING"
    BY DEF SameSleepers
<1>2. \A id \in Created' \ Created :
          Range(signals'[id].wt) = {} /\ IsInjective(signals'[id].wt)
    BY EmptyQueue
<1>3. \A t \in Threads : (\E id \in Created' : t \in Range(signals'[id].wt))
                            <=> (\E id \in Created : t \in Range(signals[id].wt))
    BY <1>2
<1>4. \A id \in Created' : IsInjective(signals'[id].wt)
    BY <1>2 DEF WaitsOnce
<1>5. \A id1, id2 \in Created' :
          id1 # id2 => Range(signals'[id1].wt) \cap Range(signals'[id2].wt) = {}
    BY <1>2 DEF WaitsOnce
<1> QED BY <1>1, <1>3, <1>4, <1>5 DEF WaitsOnce

\* Replacing one semaphore keeps the type of the table.
LEMMA ReplaceSignal ==
    ASSUME SemTypeOK, NEW id \in Created, NEW n \in SignalRecord,
           signals' = [signals EXCEPT ![id] = n]
    PROVE  /\ SemTypeOK' /\ Created' = Created
           /\ signals'[id] = n
           /\ \A o \in Created : o # id => signals'[o] = signals[o]
<1>1. Created = 1 .. Len(signals) /\ Len(signals) \in Nat  BY SignalTypes
<1>2. signals' \in Seq(SignalRecord) /\ Len(signals') = Len(signals)
    BY ExceptSeq, <1>1 DEF SemTypeOK
<1>3. Created' = 1 .. Len(signals')  BY <1>2, LenProperties DEF Created
<1>4. signals'[id] = n /\ \A o \in Created : o # id => signals'[o] = signals[o]
    BY <1>1 DEF Created
<1> QED BY <1>1, <1>2, <1>3, <1>4 DEF SemTypeOK

\* The state of the abstract counting semaphores: what CS substitutes for its
\* three variables.
Units(sg) == IF ~sg.soft /\ sg.signals > 0 THEN sg.signals ELSE 0

AbsMax == [id \in 1 .. SignalLimit |->
             IF id \in Created /\ ~signals[id].soft THEN signals[id].max ELSE 0]
AbsFree == [id \in 1 .. SignalLimit |->
              IF id \in Created /\ ~signals[id].soft /\ signals[id].signals > 0
              THEN signals[id].signals ELSE 0]
AbsWaiting == [id \in 1 .. SignalLimit |->
                 IF id \in Created THEN Range(signals[id].wt) ELSE {}]

\* A step of the counting semaphores, or none.
CSStep == CS!Next \/ UNCHANGED <<AbsMax, AbsFree, AbsWaiting>>

\* A semaphore that exists, seen abstractly.
LEMMA SeenAbstractly ==
    ASSUME SemTypeOK, TableBounded, NEW id \in Created
    PROVE  /\ id \in 1 .. SignalLimit
           /\ AbsMax[id] = IF signals[id].soft THEN 0 ELSE signals[id].max
           /\ AbsFree[id] = Units(signals[id])
           /\ AbsWaiting[id] = Range(signals[id].wt)
<1>1. Created = 1 .. Len(signals) /\ Len(signals) \in Nat  BY SignalTypes
<1>2. id \in 1 .. SignalLimit  BY <1>1 DEF TableBounded
<1> QED BY <1>2 DEF AbsMax, AbsFree, AbsWaiting, Units

\* Replacing a semaphore's count and queue replaces its free units and the
\* threads that wait for it.
LEMMA ReplaceAbstract ==
    ASSUME SemTypeOK, TableBounded, NEW id \in Created, NEW n \in SignalRecord,
           n.max = signals[id].max, n.soft = signals[id].soft,
           signals' = [signals EXCEPT ![id] = n]
    PROVE  /\ TableBounded'
           /\ AbsMax' = AbsMax
           /\ AbsFree' = [AbsFree EXCEPT ![id] = Units(n)]
           /\ AbsWaiting' = [AbsWaiting EXCEPT ![id] = Range(n.wt)]
<1>1. Created = 1 .. Len(signals) /\ Len(signals) \in Nat  BY SignalTypes
<1>2. /\ Created' = Created /\ signals'[id] = n
      /\ \A o \in Created : o # id => signals'[o] = signals[o]
    BY ReplaceSignal
<1>3. TableBounded'
    <2>1. Len(signals') = Len(signals)  BY ExceptSeq, <1>1 DEF SemTypeOK
    <2> QED BY <2>1 DEF TableBounded
<1>4. AbsMax' = AbsMax
    <2>1. \A o \in Created : /\ signals'[o].soft = signals[o].soft
                             /\ signals'[o].max = signals[o].max
        BY <1>2
    <2> QED BY <1>2, <2>1 DEF AbsMax
<1>5. AbsFree' = [AbsFree EXCEPT ![id] = Units(n)]
    <2> DEFINE F(o) == IF o \in Created /\ ~signals[o].soft /\ signals[o].signals > 0
                       THEN signals[o].signals ELSE 0
               G(o) == IF o \in Created' /\ ~signals'[o].soft /\ signals'[o].signals > 0
                       THEN signals'[o].signals ELSE 0
    <2>1. G(id) = Units(n) /\ \A o \in 1 .. SignalLimit : o # id => G(o) = F(o)
        BY <1>2 DEF Units
    <2>2. /\ AbsFree = [o \in 1 .. SignalLimit |-> F(o)]
          /\ AbsFree' = [o \in 1 .. SignalLimit |-> G(o)]
        BY DEF AbsFree
    <2> HIDE DEF F, G
    <2> QED BY <2>1, <2>2
<1>6. AbsWaiting' = [AbsWaiting EXCEPT ![id] = Range(n.wt)]
    <2> DEFINE F(o) == IF o \in Created THEN Range(signals[o].wt) ELSE {}
               G(o) == IF o \in Created' THEN Range(signals'[o].wt) ELSE {}
    <2>1. G(id) = Range(n.wt) /\ \A o \in 1 .. SignalLimit : o # id => G(o) = F(o)
        BY <1>2
    <2>2. /\ AbsWaiting = [o \in 1 .. SignalLimit |-> F(o)]
          /\ AbsWaiting' = [o \in 1 .. SignalLimit |-> G(o)]
        BY DEF AbsWaiting
    <2> HIDE DEF F, G
    <2> QED BY <2>1, <2>2
<1> QED BY <1>3, <1>4, <1>5, <1>6

\* up_signal and down_signal that change a count and no queue give a unit back
\* or take one; a soft semaphore is none of the counting semaphores.
LEMMA CountAbstract ==
    ASSUME SemTypeOK, CountIsQueue, TableBounded, NEW id \in Created, NEW k \in Int,
           k - signals[id].signals \in {-1, 0, 1}, k <= signals[id].max,
           ~signals[id].soft => k >= 0 /\ signals[id].wt = <<>>,
           signals' = [signals EXCEPT ![id] = [signals[id] EXCEPT !.signals = k]]
    PROVE  TableBounded' /\ CSStep
<1> DEFINE sg == signals[id]
           n == [sg EXCEPT !.signals = k]
<1>1. sg \in SignalRecord /\ sg.signals \in Int /\ sg.max \in Nat \ {0} /\ sg.soft \in BOOLEAN
    BY SignalTypes
<1>2. /\ n \in SignalRecord /\ n.signals = k /\ n.max = sg.max
      /\ n.soft = sg.soft /\ n.wt = sg.wt
    BY <1>1 DEF SignalRecord
<1>3. signals' = [signals EXCEPT ![id] = n]  OBVIOUS
<1>4. /\ ~sg.soft => k >= 0 /\ sg.wt = <<>>
      /\ k <= sg.max /\ k - sg.signals \in {-1, 0, 1}
    OBVIOUS
<1> HIDE DEF n
<1>5. /\ TableBounded' /\ AbsMax' = AbsMax
      /\ AbsFree' = [AbsFree EXCEPT ![id] = Units(n)]
      /\ AbsWaiting' = [AbsWaiting EXCEPT ![id] = Range(n.wt)]
    BY <1>2, <1>3, ReplaceAbstract
<1>6. /\ id \in 1 .. SignalLimit
      /\ AbsMax[id] = IF sg.soft THEN 0 ELSE sg.max
      /\ AbsFree[id] = Units(sg)
      /\ AbsWaiting[id] = Range(sg.wt)
    BY SeenAbstractly
<1>7. ~sg.soft => sg.signals >= 0
    <2>1. ~sg.soft => Len(sg.wt) = (IF sg.signals < 0 THEN -sg.signals ELSE 0)
        BY DEF CountIsQueue
    <2> HIDE DEF sg
    <2> QED BY <1>1, <1>4, <2>1, EmptySeq
<1>8. AbsWaiting' = AbsWaiting  BY <1>2, <1>5, <1>6 DEF AbsWaiting
<1> HIDE DEF sg
<1>9. CASE sg.soft \/ k = sg.signals
    <2>1. Units(n) = AbsFree[id]  BY <1>2, <1>6, <1>9 DEF Units
    <2>2. AbsFree' = AbsFree  BY <1>5, <2>1 DEF AbsFree
    <2> QED BY <1>5, <1>8, <2>2 DEF CSStep
<1>10. CASE ~sg.soft /\ k = sg.signals - 1
    <2>1. AbsFree[id] > 0 /\ Units(n) = AbsFree[id] - 1
        BY <1>1, <1>2, <1>4, <1>6, <1>10 DEF Units
    <2>2. AbsFree' = [AbsFree EXCEPT ![id] = AbsFree[id] - 1]  BY <1>5, <2>1
    <2>3. CS!Take(id)
        BY <1>5, <1>8, <2>1, <2>2 DEF CS!Take, AbsMax, AbsFree, AbsWaiting
    <2> QED BY <1>5, <1>6, <2>3 DEF CSStep, CS!Next
<1>11. CASE ~sg.soft /\ k = sg.signals + 1
    <2>1. AbsFree[id] < AbsMax[id] /\ Units(n) = AbsFree[id] + 1
        BY <1>1, <1>2, <1>4, <1>6, <1>7, <1>11 DEF Units
    <2>2. AbsFree' = [AbsFree EXCEPT ![id] = AbsFree[id] + 1]  BY <1>5, <2>1
    <2>3. AbsWaiting[id] = {}  BY <1>4, <1>6, <1>11, EmptyQueue
    <2>4. CS!GiveBack(id)
        BY <1>5, <1>8, <2>1, <2>2, <2>3 DEF CS!GiveBack, AbsMax, AbsFree, AbsWaiting
    <2> QED BY <1>5, <1>6, <2>4 DEF CSStep, CS!Next
<1> QED BY <1>1, <1>4, <1>5, <1>9, <1>10, <1>11

\* What __create_signal makes.
LEMMA NewSignalType ==
    ASSUME NEW p \in SignalParams
    PROVE  /\ NewSignal(p) \in SignalRecord
           /\ NewSignal(p).signals \in Nat
           /\ NewSignal(p).signals <= NewSignal(p).max
           /\ NewSignal(p).wt = <<>>
<1>1. p.max \in Nat \ {0} /\ p.value \in Nat /\ p.soft \in BOOLEAN /\ p.value <= p.max
    OBVIOUS
<1>2. <<>> \in Seq(Threads)  BY EmptySeq
<1> QED BY <1>1, <1>2 DEF NewSignal, SignalRecord

\* A system call that makes a semaphore or counts without a thread involved
\* is one that leaves the threads alone.
LEMMA QuietCall ==
    ASSUME SchedInv, NEW c \in Threads, Executes(c),
           sched' = AfterSyscall(sched), UNCHANGED <<do_schedule, tasks>>
    PROVE  SchedNext /\ SameSleepers(sched', sched)
<1>1. SyscallOnly(c)  BY DEF SyscallOnly
<1>2. SchedOwnStep  BY <1>1 DEF SchedOwnStep
<1> QED BY <1>2, OwnStepSleepers DEF SchedNext

\* create_signal adds a semaphore whose queue is empty.
LEMMA CreateStep ==
    ASSUME SemInv, NEW c \in Threads, NEW p \in SignalParams, CreateSignal(c, p)
    PROVE  SemInv' /\ SchedNext /\ CSStep
<1> DEFINE n == NewSignal(p)
<1>0. SchedInv /\ SemTypeOK /\ CountIsQueue /\ WaitsOnce /\ TableBounded  BY DEF SemInv
<1>1. SchedNext /\ SameSleepers(sched', sched)
    BY <1>0, QuietCall DEF CreateSignal
<1>2. SchedInv'  BY <1>0, <1>1, SchedStepInv
<1>3. /\ n \in SignalRecord /\ n.signals \in Nat
      /\ n.signals <= n.max /\ n.wt = <<>>
    BY NewSignalType
<1>4. signals' = Append(signals, n)  BY DEF CreateSignal
<1> HIDE DEF n
<1>5. /\ Created = 1 .. Len(signals) /\ Len(signals) \in Nat
      /\ \A id \in Created : signals[id] \in SignalRecord
    BY <1>0, SignalTypes
<1>6. /\ signals' \in Seq(SignalRecord)
      /\ Len(signals') = Len(signals) + 1
      /\ \A id \in 1 .. Len(signals) : signals'[id] = signals[id]
      /\ signals'[Len(signals) + 1] = n
    BY <1>0, <1>3, <1>4, AppendProperties DEF SemTypeOK
<1>7. Created' = 1 .. Len(signals) + 1  BY <1>6, LenProperties DEF Created
<1>8. SemTypeOK'  BY <1>6 DEF SemTypeOK
<1>9. \A id \in Created' \ Created : signals'[id] = n  BY <1>5, <1>6, <1>7
<1>10. WaitsOnce'  BY <1>0, <1>1, <1>3, <1>5, <1>6, <1>7, <1>9, WaitsKept
<1>11. CountIsQueue'
    <2>1. Len(<<>>) = 0  BY EmptySeq
    <2>2. /\ n.signals <= n.max
          /\ ~n.soft => Len(n.wt) = (IF n.signals < 0 THEN -n.signals ELSE 0)
          /\ n.soft => n.wt = <<>>
        BY <1>3, <2>1
    <2> QED BY <1>0, <1>5, <1>6, <1>7, <1>9, <2>2 DEF CountIsQueue
<1>12. TableBounded'  BY <1>5, <1>6 DEF CreateSignal, TableBounded
<1>13. CSStep
    <2>0. PICK k \in 1 .. SignalLimit : k = Len(signals) + 1
        BY <1>5 DEF CreateSignal
    <2>1. k \in 1 .. SignalLimit /\ k \notin Created  BY <1>5, <2>0
    <2>2. \A id \in Created : signals'[id] = signals[id]  BY <1>5, <1>6
    <2>3. signals'[k] = n /\ Created' = Created \cup {k}  BY <1>5, <1>6, <1>7, <2>0
    <2>4. AbsWaiting' = AbsWaiting
        <3>1. Range(n.wt) = {}  BY <1>3, EmptyQueue
        <3> DEFINE F(o) == IF o \in Created THEN Range(signals[o].wt) ELSE {}
                   G(o) == IF o \in Created' THEN Range(signals'[o].wt) ELSE {}
        <3>2. \A o \in 1 .. SignalLimit : F(o) = G(o)  BY <2>1, <2>2, <2>3, <3>1
        <3>3. /\ AbsWaiting = [o \in 1 .. SignalLimit |-> F(o)]
              /\ AbsWaiting' = [o \in 1 .. SignalLimit |-> G(o)]
            BY DEF AbsWaiting
        <3> HIDE DEF F, G
        <3> QED BY <3>2, <3>3
    <2>5. AbsMax[k] = 0  BY <2>1 DEF AbsMax
    <2>6. AbsMax' = [AbsMax EXCEPT ![k] = IF n.soft THEN 0 ELSE n.max]
        <3> DEFINE F(o) == IF o \in Created /\ ~signals[o].soft THEN signals[o].max ELSE 0
                   G(o) == IF o \in Created' /\ ~signals'[o].soft THEN signals'[o].max ELSE 0
        <3>1. /\ G(k) = IF n.soft THEN 0 ELSE n.max
              /\ \A o \in 1 .. SignalLimit : o # k => F(o) = G(o)
            BY <2>1, <2>2, <2>3
        <3>2. /\ AbsMax = [o \in 1 .. SignalLimit |-> F(o)]
              /\ AbsMax' = [o \in 1 .. SignalLimit |-> G(o)]
            BY DEF AbsMax
        <3> HIDE DEF F, G
        <3> QED BY <3>1, <3>2
    <2>7. AbsFree[k] = 0  BY <2>1 DEF AbsFree
    <2>8. AbsFree' = [AbsFree EXCEPT ![k] = Units(n)]
        <3> DEFINE F(o) == IF o \in Created /\ ~signals[o].soft /\ signals[o].signals > 0
                           THEN signals[o].signals ELSE 0
                   G(o) == IF o \in Created' /\ ~signals'[o].soft /\ signals'[o].signals > 0
                           THEN signals'[o].signals ELSE 0
        <3>1. G(k) = Units(n) /\ \A o \in 1 .. SignalLimit : o # k => F(o) = G(o)
            BY <2>1, <2>2, <2>3 DEF Units
        <3>2. /\ AbsFree = [o \in 1 .. SignalLimit |-> F(o)]
              /\ AbsFree' = [o \in 1 .. SignalLimit |-> G(o)]
            BY DEF AbsFree
        <3> HIDE DEF F, G
        <3> QED BY <3>1, <3>2
    <2>9. n.max \in Nat \ {0} /\ n.soft \in BOOLEAN  BY <1>3 DEF SignalRecord
    <2>10. CASE n.soft
        <3>1. Units(n) = 0  BY <2>10 DEF Units
        <3>2. AbsFree' = AbsFree  BY <2>7, <2>8, <3>1 DEF AbsFree
        <3>3. AbsMax' = AbsMax  BY <2>5, <2>6, <2>10 DEF AbsMax
        <3> QED BY <2>4, <3>2, <3>3 DEF CSStep
    <2>11. CASE ~n.soft
        <3>1. AbsMax' = [AbsMax EXCEPT ![k] = n.max]  BY <2>6, <2>11
        <3>2. AbsMax'[k] = n.max  BY <2>1, <3>1 DEF AbsMax
        <3>3. AbsFree'[k] = Units(n)  BY <2>1, <2>8 DEF AbsFree
        <3>4. Units(n) \in 0 .. n.max  BY <1>3, <2>9, <2>11 DEF Units
        <3>5. /\ AbsMax[k] = 0
              /\ AbsMax'[k] \in Nat \ {0}
              /\ AbsFree'[k] \in 0 .. AbsMax'[k]
              /\ AbsMax' = [AbsMax EXCEPT ![k] = AbsMax'[k]]
              /\ AbsFree' = [AbsFree EXCEPT ![k] = AbsFree'[k]]
              /\ AbsWaiting' = AbsWaiting
            BY <2>4, <2>5, <2>8, <2>9, <3>1, <3>2, <3>3, <3>4
        <3>6. CS!Create(k)  BY <3>5 DEF CS!Create, AbsMax, AbsFree, AbsWaiting
        <3> QED BY <2>1, <3>6 DEF CSStep, CS!Next
    <2> QED BY <2>9, <2>10, <2>11
<1> QED BY <1>1, <1>2, <1>8, <1>10, <1>11, <1>12, <1>13 DEF SemInv

\* A call that changes a count and no queue.
LEMMA CountStep ==
    ASSUME SemInv, NEW c \in Threads, Executes(c),
           sched' = AfterSyscall(sched), UNCHANGED <<do_schedule, tasks>>,
           NEW id \in Created, NEW k \in Int,
           k - signals[id].signals \in {-1, 0, 1}, k <= signals[id].max,
           ~signals[id].soft => k >= 0 /\ signals[id].wt = <<>>,
           signals' = [signals EXCEPT ![id] = [signals[id] EXCEPT !.signals = k]]
    PROVE  SemInv' /\ SchedNext /\ CSStep
<1> DEFINE sg == signals[id]
           n == [sg EXCEPT !.signals = k]
<1>0. SchedInv /\ SemTypeOK /\ CountIsQueue /\ WaitsOnce /\ TableBounded  BY DEF SemInv
<1>1. SchedNext /\ SameSleepers(sched', sched)  BY <1>0, QuietCall
<1>2. SchedInv'  BY <1>0, <1>1, SchedStepInv
<1>3. sg \in SignalRecord  BY <1>0, SignalTypes
<1>4. /\ n \in SignalRecord /\ n.signals = k /\ n.max = sg.max
      /\ n.soft = sg.soft /\ n.wt = sg.wt
    BY <1>3 DEF SignalRecord
<1>5. signals' = [signals EXCEPT ![id] = n]  OBVIOUS
<1>6. sg.soft => sg.wt = <<>>  BY <1>0 DEF CountIsQueue
<1>7. ~sg.soft => k >= 0 /\ sg.wt = <<>>  OBVIOUS
<1>8. k <= sg.max  OBVIOUS
<1>14. TableBounded' /\ CSStep  BY <1>0, CountAbstract
<1> HIDE DEF n
<1>9. /\ SemTypeOK' /\ Created' = Created /\ signals'[id] = n
      /\ \A o \in Created : o # id => signals'[o] = signals[o]
    BY <1>0, <1>4, <1>5, ReplaceSignal
<1>10. \A o \in Created : signals'[o].wt = signals[o].wt  BY <1>4, <1>9
<1>11. WaitsOnce'  BY <1>0, <1>1, <1>9, <1>10, WaitsKept
<1> HIDE DEF sg
<1>12. /\ n.signals <= n.max
       /\ ~n.soft => Len(n.wt) = (IF n.signals < 0 THEN -n.signals ELSE 0)
       /\ n.soft => n.wt = <<>>
    BY <1>4, <1>6, <1>7, <1>8, EmptySeq
<1>13. CountIsQueue'  BY <1>0, <1>9, <1>12 DEF CountIsQueue
<1> QED BY <1>1, <1>2, <1>9, <1>11, <1>13, <1>14 DEF SemInv

\* The two queue operations touch nothing but the queue.
LEMMA DequeueFields ==
    ASSUME NEW m \in SignalRecord, Tail(m.wt) \in Seq(Threads)
    PROVE  /\ DequeueWt(m) \in SignalRecord
           /\ DequeueWt(m).signals = m.signals /\ DequeueWt(m).max = m.max
           /\ DequeueWt(m).soft = m.soft /\ DequeueWt(m).wt = Tail(m.wt)
BY DEF DequeueWt, SignalRecord

LEMMA EnqueueFields ==
    ASSUME NEW m \in SignalRecord, NEW t, Append(m.wt, t) \in Seq(Threads)
    PROVE  /\ EnqueueWt(m, t) \in SignalRecord
           /\ EnqueueWt(m, t).signals = m.signals /\ EnqueueWt(m, t).max = m.max
           /\ EnqueueWt(m, t).soft = m.soft /\ EnqueueWt(m, t).wt = Append(m.wt, t)
BY DEF EnqueueWt, SignalRecord

\* A call that finds a thread to release finds the queue filled.
LEMMA ReleaseFinds ==
    ASSUME SemInv, NEW id \in Created, Releases(signals[id])
    PROVE  LET sg == signals[id]
           IN  /\ ~sg.soft /\ sg.signals < 0 /\ sg.wt # <<>>
               /\ Raised(sg) = [sg EXCEPT !.signals = sg.signals + 1]
<1> DEFINE sg == signals[id]
<1>1. /\ sg \in SignalRecord /\ sg.signals \in Int /\ sg.max \in Nat \ {0}
      /\ sg.wt \in Seq(Threads)
    BY SignalTypes DEF SemInv
<1>2. ~sg.soft /\ Raised(sg).signals <= 0  BY DEF Releases
<1> HIDE DEF sg
<1>3. sg.signals < sg.max  BY <1>1, <1>2 DEF Raised
<1>4. Raised(sg) = [sg EXCEPT !.signals = sg.signals + 1]  BY <1>3 DEF Raised
<1>5. sg.signals < 0  BY <1>1, <1>2, <1>4 DEF SignalRecord
<1>6. Len(sg.wt) = -sg.signals  BY <1>2, <1>5 DEF SemInv, CountIsQueue, sg
<1>7. sg.wt # <<>>  BY <1>1, <1>5, <1>6, EmptySeq
<1> QED BY <1>2, <1>4, <1>5, <1>7 DEF sg

\* up_signal with a thread waiting: the first one leaves the queue and is
\* made ready.
LEMMA ReleaseStep ==
    ASSUME SemInv, NEW c \in Threads, NEW id \in Created, Executes(c),
           Releases(signals[id]),
           signals' = [signals EXCEPT ![id] = DequeueWt(Raised(signals[id]))],
           sched' = AfterSyscall(Release(signals[id])),
           UNCHANGED <<do_schedule, tasks>>
    PROVE  SemInv' /\ SchedNext /\ CSStep
<1> DEFINE sg == signals[id]
           h == Head(sg.wt)
           n == DequeueWt(Raised(sg))
<1>0. SchedInv /\ SemTypeOK /\ CountIsQueue /\ WaitsOnce /\ TableBounded  BY DEF SemInv
<1>1. /\ sg \in SignalRecord /\ sg.signals \in Int /\ sg.max \in Nat \ {0}
      /\ sg.wt \in Seq(Threads)
    BY <1>0, SignalTypes
<1>2. /\ ~sg.soft /\ sg.signals < 0 /\ sg.wt # <<>>
      /\ Raised(sg) = [sg EXCEPT !.signals = sg.signals + 1]
    BY ReleaseFinds
<1>3. IsInjective(sg.wt)  BY <1>0 DEF WaitsOnce
<1>4. /\ Tail(sg.wt) \in Seq(Threads) /\ h \in Threads /\ h \in Range(sg.wt)
      /\ Range(Tail(sg.wt)) = Range(sg.wt) \ {h} /\ IsInjective(Tail(sg.wt))
      /\ Len(Tail(sg.wt)) = Len(sg.wt) - 1
    <2> HIDE DEF sg
    <2> QED BY <1>1, <1>2, <1>3, TailQueue, HeadTailProperties
<1>5. /\ n \in SignalRecord /\ n.signals = sg.signals + 1 /\ n.max = sg.max
      /\ n.soft = sg.soft /\ n.wt = Tail(sg.wt)
    <2> DEFINE m == Raised(sg)
    <2>1. sg.signals + 1 \in Int /\ m = [sg EXCEPT !.signals = sg.signals + 1]
        BY <1>1, <1>2
    <2> HIDE DEF m, sg
    <2>2. /\ m \in SignalRecord /\ m.signals = sg.signals + 1 /\ m.max = sg.max
          /\ m.soft = sg.soft /\ m.wt = sg.wt
        BY <1>1, <2>1 DEF SignalRecord
    <2>3. n = DequeueWt(m)  BY DEF m
    <2> QED BY <1>4, <2>2, <2>3, DequeueFields
<1>6. sched.state[h] = "WAITING"  BY <1>0, <1>4 DEF WaitsOnce
<1>7. sched' = AfterSyscall(Wake(sched, h))  BY DEF Release
<1>8. SyscallWake(c, h)  BY <1>6, <1>7 DEF SyscallWake
<1>9. SchedNext  BY <1>4, <1>8 DEF SchedNext
<1>10. SchedInv'  BY <1>0, <1>9, SchedStepInv
<1>11. \A t \in Threads :
          sched'.state[t] = "WAITING" <=> t # h /\ sched.state[t] = "WAITING"
    BY <1>0, <1>4, <1>6, <1>7, WakeSleepers
<1>12. signals' = [signals EXCEPT ![id] = n]  OBVIOUS
<1> HIDE DEF n
<1>13. /\ SemTypeOK' /\ Created' = Created /\ signals'[id] = n
       /\ \A o \in Created : o # id => signals'[o] = signals[o]
    BY <1>0, <1>5, <1>12, ReplaceSignal
<1>14. CountIsQueue'
    <2>1. Len(sg.wt) = -sg.signals /\ sg.signals <= sg.max  BY <1>0, <1>2 DEF CountIsQueue
    <2> HIDE DEF sg
    <2>2. /\ n.signals <= n.max
          /\ ~n.soft => Len(n.wt) = (IF n.signals < 0 THEN -n.signals ELSE 0)
          /\ n.soft => n.wt = <<>>
        BY <1>1, <1>2, <1>4, <1>5, <2>1
    <2> QED BY <1>0, <1>13, <2>2 DEF CountIsQueue
<1>15. WaitsOnce'
    <2> DEFINE Q(o) == Range(signals[o].wt)
               Q1(o) == Range(signals'[o].wt)
    <2>1. /\ Q1(id) = Q(id) \ {h} /\ h \in Q(id)
          /\ \A o \in Created : o # id => Q1(o) = Q(o)
        BY <1>4, <1>5, <1>13
    <2>2. \A o \in Created : o # id => h \notin Q(o)  BY <1>0, <2>1 DEF WaitsOnce
    <2>3. \A t \in Threads : sched.state[t] = "WAITING" <=> \E o \in Created : t \in Q(o)
        BY <1>0 DEF WaitsOnce
    <2>4. \A o1, o2 \in Created : o1 # o2 => Q(o1) \cap Q(o2) = {}
        BY <1>0 DEF WaitsOnce
    <2>5. \A o \in Created : IsInjective(signals'[o].wt)
        BY <1>0, <1>4, <1>5, <1>13 DEF WaitsOnce
    <2> HIDE DEF Q, Q1, h
    <2>6. \A t \in Threads : sched'.state[t] = "WAITING" <=> \E o \in Created : t \in Q1(o)
        BY <1>11, <2>1, <2>2, <2>3
    <2>7. \A o1, o2 \in Created : o1 # o2 => Q1(o1) \cap Q1(o2) = {}
        BY <2>1, <2>4
    <2> QED BY <1>13, <2>5, <2>6, <2>7 DEF WaitsOnce, Q1
<1>16. /\ TableBounded' /\ AbsMax' = AbsMax
       /\ AbsFree' = [AbsFree EXCEPT ![id] = Units(n)]
       /\ AbsWaiting' = [AbsWaiting EXCEPT ![id] = Range(n.wt)]
    BY <1>0, <1>5, <1>12, ReplaceAbstract
<1>17. CSStep
    <2>1. /\ id \in 1 .. SignalLimit
          /\ AbsFree[id] = Units(sg)
          /\ AbsWaiting[id] = Range(sg.wt)
        BY <1>0, SeenAbstractly
    <2>2. /\ h \in AbsWaiting[id]
          /\ AbsWaiting' = [AbsWaiting EXCEPT ![id] = AbsWaiting[id] \ {h}]
        BY <1>4, <1>5, <1>16, <2>1
    <2>3. AbsFree' = AbsFree
        <3> HIDE DEF sg
        <3>1. Units(n) = AbsFree[id]  BY <1>1, <1>2, <1>5, <2>1 DEF Units
        <3> QED BY <1>16, <3>1 DEF AbsFree
    <2>4. PICK u \in Threads : u = h  BY <1>4
    <2> HIDE DEF h
    <2>5. CS!HandOver(id, u)
        BY <1>16, <2>2, <2>3, <2>4 DEF CS!HandOver, AbsMax, AbsFree, AbsWaiting
    <2> QED BY <2>1, <2>5 DEF CSStep, CS!Next
<1> QED BY <1>9, <1>10, <1>13, <1>14, <1>15, <1>16, <1>17 DEF SemInv

\* down_signal with no unit left: the caller goes to the end of the queue.
LEMMA WaitStep ==
    ASSUME SemInv, NEW c \in Threads, NEW id \in Created, Executes(c),
           MustWait(signals[id]),
           signals' = [signals EXCEPT ![id] = EnqueueWt(Lowered(signals[id]), c)],
           sched' = AfterSyscall(SetState(sched, c, "WAITING")),
           UNCHANGED <<do_schedule, tasks>>
    PROVE  SemInv' /\ SchedNext /\ CSStep
<1> DEFINE sg == signals[id]
           n == EnqueueWt(Lowered(sg), c)
<1>0. SchedInv /\ SemTypeOK /\ CountIsQueue /\ WaitsOnce /\ TableBounded  BY DEF SemInv
<1>1. /\ sg \in SignalRecord /\ sg.signals \in Int /\ sg.max \in Nat \ {0}
      /\ sg.wt \in Seq(Threads)
    BY <1>0, SignalTypes
<1>2. ~sg.soft /\ sg.signals - 1 < 0
    <2>1. ~sg.soft /\ Lowered(sg).signals < 0  BY DEF MustWait
    <2> HIDE DEF sg
    <2> QED BY <1>1, <2>1 DEF Lowered, SignalRecord
<1>3. sched.state[c] = "RUNNING"
    BY <1>0 DEF SchedInv, Settled, Executes
<1>4. \A o \in Created : c \notin Range(signals[o].wt)
    BY <1>0, <1>3 DEF WaitsOnce
<1>5. IsInjective(sg.wt)  BY <1>0 DEF WaitsOnce
<1>6. /\ Append(sg.wt, c) \in Seq(Threads)
      /\ Range(Append(sg.wt, c)) = Range(sg.wt) \cup {c}
      /\ IsInjective(Append(sg.wt, c))
      /\ Len(Append(sg.wt, c)) = Len(sg.wt) + 1
    <2>1. c \notin Range(sg.wt)  BY <1>4
    <2> HIDE DEF sg
    <2> QED BY <1>1, <1>5, <2>1, AppendQueue, AppendProperties
<1>7. /\ n \in SignalRecord /\ n.signals = sg.signals - 1 /\ n.max = sg.max
      /\ n.soft = sg.soft /\ n.wt = Append(sg.wt, c)
    <2> DEFINE m == Lowered(sg)
    <2>1. sg.signals - 1 \in Int /\ m = [sg EXCEPT !.signals = sg.signals - 1]
        BY <1>1 DEF Lowered
    <2> HIDE DEF m, sg
    <2>2. /\ m \in SignalRecord /\ m.signals = sg.signals - 1 /\ m.max = sg.max
          /\ m.soft = sg.soft /\ m.wt = sg.wt
        BY <1>1, <2>1 DEF SignalRecord
    <2>3. n = EnqueueWt(m, c)  BY DEF m
    <2> QED BY <1>6, <2>2, <2>3, EnqueueFields
<1>8. SyscallBlock(c, "WAITING")  BY DEF SyscallBlock
<1>9. SchedNext  BY <1>8 DEF SchedNext
<1>10. SchedInv'  BY <1>0, <1>9, SchedStepInv
<1>11. \A t \in Threads :
          sched'.state[t] = "WAITING" <=> t = c \/ sched.state[t] = "WAITING"
    BY <1>0, StopSleepers
<1>12. signals' = [signals EXCEPT ![id] = n]  OBVIOUS
<1> HIDE DEF n
<1>13. /\ SemTypeOK' /\ Created' = Created /\ signals'[id] = n
       /\ \A o \in Created : o # id => signals'[o] = signals[o]
    BY <1>0, <1>7, <1>12, ReplaceSignal
<1>14. CountIsQueue'
    <2>1. /\ Len(sg.wt) = (IF sg.signals < 0 THEN -sg.signals ELSE 0)
          /\ sg.signals <= sg.max
        BY <1>0, <1>2 DEF CountIsQueue
    <2> HIDE DEF sg
    <2>2. /\ n.signals <= n.max
          /\ ~n.soft => Len(n.wt) = (IF n.signals < 0 THEN -n.signals ELSE 0)
          /\ n.soft => n.wt = <<>>
        BY <1>1, <1>2, <1>6, <1>7, <2>1
    <2> QED BY <1>0, <1>13, <2>2 DEF CountIsQueue
<1>15. WaitsOnce'
    <2> DEFINE Q(o) == Range(signals[o].wt)
               Q1(o) == Range(signals'[o].wt)
    <2>1. /\ Q1(id) = Q(id) \cup {c}
          /\ \A o \in Created : o # id => Q1(o) = Q(o)
        BY <1>6, <1>7, <1>13
    <2>2. \A o \in Created : c \notin Q(o)  BY <1>4
    <2>3. \A t \in Threads : sched.state[t] = "WAITING" <=> \E o \in Created : t \in Q(o)
        BY <1>0 DEF WaitsOnce
    <2>4. \A o1, o2 \in Created : o1 # o2 => Q(o1) \cap Q(o2) = {}
        BY <1>0 DEF WaitsOnce
    <2>5. \A o \in Created : IsInjective(signals'[o].wt)
        BY <1>0, <1>6, <1>7, <1>13 DEF WaitsOnce
    <2> HIDE DEF Q, Q1
    <2>6. \A t \in Threads : sched'.state[t] = "WAITING" <=> \E o \in Created : t \in Q1(o)
        BY <1>11, <2>1, <2>3
    <2>7. \A o1, o2 \in Created : o1 # o2 => Q1(o1) \cap Q1(o2) = {}
        BY <2>1, <2>2, <2>4
    <2> QED BY <1>13, <2>5, <2>6, <2>7 DEF WaitsOnce, Q1
<1>16. /\ TableBounded' /\ AbsMax' = AbsMax
       /\ AbsFree' = [AbsFree EXCEPT ![id] = Units(n)]
       /\ AbsWaiting' = [AbsWaiting EXCEPT ![id] = Range(n.wt)]
    BY <1>0, <1>7, <1>12, ReplaceAbstract
<1>17. CSStep
    <2>1. /\ id \in 1 .. SignalLimit
          /\ AbsMax[id] = IF sg.soft THEN 0 ELSE sg.max
          /\ AbsFree[id] = Units(sg)
          /\ AbsWaiting[id] = Range(sg.wt)
        BY <1>0, SeenAbstractly
    <2>2. AbsWaiting' = [AbsWaiting EXCEPT ![id] = AbsWaiting[id] \cup {c}]
        BY <1>6, <1>7, <1>16, <2>1
    <2>3. \A o \in 1 .. SignalLimit : c \notin AbsWaiting[o]
        BY <1>4 DEF AbsWaiting
    <2> HIDE DEF sg
    <2>4. AbsFree[id] = 0 /\ Units(n) = 0 /\ AbsMax[id] > 0
        BY <1>1, <1>2, <1>7, <2>1 DEF Units
    <2>5. AbsFree' = AbsFree  BY ZenonT(30), <1>16, <2>4 DEF AbsFree
    <2>6. CS!Wait(id, c)
        BY <1>16, <2>2, <2>3, <2>4, <2>5 DEF CS!Wait, AbsMax, AbsFree, AbsWaiting
    <2> QED BY <2>1, <2>6 DEF CSStep, CS!Next
<1> QED BY <1>9, <1>10, <1>13, <1>14, <1>15, <1>16, <1>17 DEF SemInv

\* Every step keeps the invariant and is a step of the scheduler.
LEMMA SemStep ==
    ASSUME SemInv, SemNext
    PROVE  SemInv' /\ SchedNext /\ CSStep
<1>0. SchedInv /\ SemTypeOK /\ CountIsQueue /\ WaitsOnce /\ TableBounded  BY DEF SemInv
<1>1. ASSUME NEW c \in Threads, NEW p \in SignalParams, CreateSignal(c, p)
      PROVE  SemInv' /\ SchedNext /\ CSStep
    BY <1>1, CreateStep
<1>2. ASSUME NEW c \in Threads, NEW id \in Created, UpSignal(c, id)
      PROVE  SemInv' /\ SchedNext /\ CSStep
    <2> DEFINE sg == signals[id]
    <2>1. /\ sg \in SignalRecord /\ sg.signals \in Int /\ sg.max \in Nat \ {0}
          /\ sg.soft \in BOOLEAN
        BY <1>0, SignalTypes
    <2>2. sg.signals <= sg.max /\ (~sg.soft => Len(sg.wt) = (IF sg.signals < 0 THEN -sg.signals ELSE 0))
        BY <1>0 DEF CountIsQueue
    <2>3. CASE Releases(sg)  BY <1>2, <2>3, ReleaseStep DEF UpSignal
    <2>4. CASE ~Releases(sg)
        <3>1. /\ Executes(c) /\ UNCHANGED <<do_schedule, tasks>>
              /\ sched' = AfterSyscall(sched)
              /\ signals' = [signals EXCEPT ![id] = Raised(sg)]
            BY <1>2, <2>4 DEF UpSignal
        <3> DEFINE k == IF sg.signals < sg.max THEN sg.signals + 1 ELSE sg.signals
        <3>2. /\ k \in Int /\ k <= sg.max
              /\ Raised(sg) = [sg EXCEPT !.signals = k] /\ Raised(sg).signals = k
            <4> HIDE DEF sg
            <4>1. CASE sg.signals < sg.max
                <5>1. Raised(sg) = [sg EXCEPT !.signals = sg.signals + 1]
                    BY <4>1 DEF Raised
                <5> QED BY <2>1, <4>1, <5>1 DEF SignalRecord
            <4>2. CASE ~(sg.signals < sg.max)
                <5>1. Raised(sg) = sg  BY <4>2 DEF Raised
                <5>2. sg = [sg EXCEPT !.signals = sg.signals]  BY <2>1 DEF SignalRecord
                <5> QED BY <2>1, <2>2, <4>2, <5>1, <5>2
            <4> QED BY <4>1, <4>2
        <3> HIDE DEF k
        <3>3. ~sg.soft => k > 0  BY <2>4, <3>2 DEF Releases
        <3>4. ~sg.soft => sg.signals >= 0
            <4> HIDE DEF sg
            <4>1. CASE sg.signals < sg.max
                <5>1. Raised(sg) = [sg EXCEPT !.signals = sg.signals + 1]
                    BY <4>1 DEF Raised
                <5>2. k = sg.signals + 1  BY <2>1, <3>2, <5>1 DEF SignalRecord
                <5> QED BY <2>1, <3>3, <5>2
            <4>2. CASE ~(sg.signals < sg.max)  BY <2>1, <4>2
            <4> QED BY <4>1, <4>2
        <3>5. ~sg.soft => sg.wt = <<>>
            <4>1. sg.wt \in Seq(Threads)  BY <2>1 DEF SignalRecord
            <4> HIDE DEF sg
            <4> QED BY <2>1, <2>2, <3>4, <4>1, EmptySeq
        <3>6. signals' = [signals EXCEPT ![id] = [signals[id] EXCEPT !.signals = k]]
            BY <3>1, <3>2
        <3>7. k <= signals[id].max /\ (~signals[id].soft => k >= 0 /\ signals[id].wt = <<>>)
            BY <3>2, <3>3, <3>5
        <3>8. k - signals[id].signals \in {-1, 0, 1}
            <4> HIDE DEF sg
            <4>1. k - sg.signals \in {-1, 0, 1}  BY <2>1 DEF k
            <4> QED BY <4>1 DEF sg
        <3> QED BY <3>1, <3>2, <3>6, <3>7, <3>8, CountStep
    <2> QED BY <2>3, <2>4
<1>3. ASSUME NEW c \in Threads, NEW id \in Created, DownSignal(c, id)
      PROVE  SemInv' /\ SchedNext /\ CSStep
    <2> DEFINE sg == signals[id]
    <2>1. /\ sg \in SignalRecord /\ sg.signals \in Int /\ sg.max \in Nat \ {0}
          /\ sg.soft \in BOOLEAN /\ sg.wt \in Seq(Threads)
        BY <1>0, SignalTypes
    <2>2. sg.signals <= sg.max /\ (~sg.soft => Len(sg.wt) = (IF sg.signals < 0 THEN -sg.signals ELSE 0))
        BY <1>0 DEF CountIsQueue
    <2>3. CASE MustWait(sg)  BY <1>3, <2>3, WaitStep DEF DownSignal
    <2>4. CASE ~MustWait(sg)
        <3>1. /\ Executes(c) /\ UNCHANGED <<do_schedule, tasks>>
              /\ sched' = AfterSyscall(sched)
              /\ signals' = [signals EXCEPT ![id] = [signals[id] EXCEPT !.signals = sg.signals - 1]]
            BY <1>3, <2>4 DEF DownSignal, MustWait, Lowered
        <3>2. ~sg.soft => sg.signals - 1 >= 0
            <4>1. Lowered(sg) = [sg EXCEPT !.signals = sg.signals - 1]  BY DEF Lowered
            <4>2. Lowered(sg).signals = sg.signals - 1  BY <2>1, <4>1 DEF SignalRecord
            <4>3. ~sg.soft => ~(sg.signals - 1 < 0)  BY <2>4, <4>2 DEF MustWait
            <4> HIDE DEF sg
            <4> QED BY <2>1, <4>3
        <3>3. ~sg.soft => sg.wt = <<>>
            <4> HIDE DEF sg
            <4> QED BY <2>1, <2>2, <3>2, EmptySeq
        <3>4. sg.signals - 1 \in Int /\ sg.signals - 1 <= sg.max
            <4> HIDE DEF sg
            <4> QED BY <2>1, <2>2
        <3>5. (sg.signals - 1) - sg.signals \in {-1, 0, 1}
            <4> HIDE DEF sg
            <4> QED BY <2>1
        <3> QED BY <3>1, <3>2, <3>3, <3>4, <3>5, CountStep
    <2> QED BY <2>3, <2>4
<1>4. ASSUME UNCHANGED signals, SchedNext,
             \A t \in Threads : sched'.state[t] = "WAITING" <=> sched.state[t] = "WAITING"
      PROVE  SemInv' /\ SchedNext /\ CSStep
    <2>1. SchedInv'  BY <1>0, <1>4, SchedStepInv
    <2>2. CSStep  BY <1>4 DEF CSStep, AbsMax, AbsFree, AbsWaiting, Created
    <2> QED BY <1>0, <1>4, <2>1, <2>2
            DEF SemInv, SemTypeOK, CountIsQueue, WaitsOnce, TableBounded, Created
<1>5. CASE SchedOwnStep /\ UNCHANGED signals
    <2>1. SameSleepers(sched', sched)  BY <1>0, <1>5, OwnStepSleepers
    <2> QED BY <1>4, <1>5, <2>1 DEF SchedNext, SameSleepers
<1>6. CASE MailStep /\ UNCHANGED signals
    <2>1. ASSUME NEW c \in Threads, SyscallBlock(c, "WAITING_IPC")
          PROVE  SemInv' /\ SchedNext /\ CSStep
        <3>1. \A t \in Threads :
                 sched'.state[t] = "WAITING" <=> sched.state[t] = "WAITING"
            BY <1>0, <2>1, StopSleepers DEF SyscallBlock
        <3> QED BY <1>4, <1>6, <2>1, <3>1 DEF SchedNext
    <2>2. ASSUME NEW t \in Threads, sched.state[t] = "WAITING_IPC",
                 IrqWake(t) \/ \E c \in Threads : SyscallWake(c, t)
          PROVE  SemInv' /\ SchedNext /\ CSStep
        <3>1. sched' \in {Wake(sched, t), AfterSyscall(Wake(sched, t))}
            BY <2>2 DEF IrqWake, SyscallWake
        <3>2. \A x \in Threads :
                 sched'.state[x] = "WAITING" <=> sched.state[x] = "WAITING"
            BY <1>0, <2>2, <3>1, WakeSleepers
        <3> QED BY <1>4, <1>6, <2>2, <3>2 DEF SchedNext
    <2> QED BY <1>6, <2>1, <2>2 DEF MailStep
<1> QED BY <1>1, <1>2, <1>3, <1>5, <1>6 DEF SemNext, SignalStep

LEMMA SemInitInv == SemInit => SemInv
<1>1. SUFFICES ASSUME SemInit PROVE SemInv  OBVIOUS
<1>2. SchedInv  BY <1>1, SchedInitInv DEF SemInit
<1>3. signals = <<>> /\ signals \in Seq(SignalRecord) /\ Len(signals) = 0
    BY <1>1, EmptySeq DEF SemInit
<1>4. Created = {}  BY <1>3, LenProperties DEF Created
<1>5. \A t \in Threads : sched.state[t] # "WAITING"
    BY <1>1, Names DEF SemInit, SchedInit
<1> QED BY <1>2, <1>3, <1>4, <1>5
        DEF SemInv, SemTypeOK, CountIsQueue, WaitsOnce, TableBounded

LEMMA SemInvariance == SemSpec => []SemInv
<1>1. SemInv /\ UNCHANGED semVars => SemInv'
    BY DEF semVars, SemInv, SchedInv, Settled, InCall, WellTyped, QueuesHold, Queued,
           SemTypeOK, CountIsQueue, WaitsOnce, TableBounded, Created
<1>2. SemInv /\ [SemNext]_semVars => SemInv'  BY <1>1, SemStep
<1> QED BY SemInitInv, <1>2, PTL DEF SemSpec

\* The count of a semaphore and its wait queue agree, for any number of
\* threads and semaphores: __up_signal never dequeues from an empty queue.
THEOREM CountCorrect == SemSpec => []CountIsQueue
<1>1. SemInv => CountIsQueue  BY DEF SemInv
<1> QED BY SemInvariance, <1>1, PTL

\* A thread is WAITING exactly when it is in one wait queue, once.
THEOREM WaitsOnceCorrect == SemSpec => []WaitsOnce
<1>1. SemInv => WaitsOnce  BY DEF SemInv
<1> QED BY SemInvariance, <1>1, PTL

\* The semaphores do to the threads only what the scheduler's abstract
\* blocking and waking calls do.
THEOREM SemRefinesSched == SemSpec => SemImplementsSched
<1>1. SemInit => SchedInit  BY DEF SemInit
<1>2. SemInv /\ [SemNext]_semVars => [SchedNext]_schedVars
    BY SemStep DEF semVars, schedVars
<1> QED BY SemInvariance, <1>1, <1>2, PTL DEF SemSpec, SchedSpec, SemImplementsSched

\* The kernel's semaphores are counting semaphores: up and down do to the free
\* units and to the waiting threads what the abstract ones promise, however
\* the count and the wait queue encode them.
THEOREM SemRefinesCounting == SemSpec => ImplementsCountingSemaphore
<1>1. SemInit => CS!Init
    <2> SUFFICES ASSUME SemInit PROVE CS!Init  OBVIOUS
    <2>1. signals = <<>> /\ signals \in Seq(SignalRecord) /\ Len(signals) = 0
        BY EmptySeq DEF SemInit
    <2>2. Created = {}  BY <2>1, LenProperties DEF Created
    <2> QED BY <2>2 DEF CS!Init
<1>2. SemInv /\ [SemNext]_semVars => [CS!Next]_CS!csVars
    <2>1. SemInv /\ SemNext => CSStep  BY SemStep
    <2>2. CSStep => [CS!Next]_CS!csVars
        BY DEF CSStep, AbsMax, AbsFree, AbsWaiting, CS!csVars
    <2>3. UNCHANGED semVars => UNCHANGED CS!csVars
        BY DEF semVars, CS!csVars, Created
    <2> QED BY <2>1, <2>2, <2>3
<1> QED BY SemInvariance, <1>1, <1>2, PTL DEF SemSpec, CS!Spec, ImplementsCountingSemaphore
=============================================================================
