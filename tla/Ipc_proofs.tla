----------------------------- MODULE Ipc_proofs -----------------------------
(* Proofs about the mailboxes.  MailAccounting is not inductive as it       *)
(* stands: to give the room of the first message back, one must know that   *)
(* it is part of what is accounted.  Ledger adds that the room only grows    *)
(* from message to message, so that an empty account is an empty mailbox.    *)
EXTENDS Ipc, Scheduler_proofs

USE MailAssumption DEF Blocked, Specials

\* The ledger of a mailbox: the room its first messages take.
LedgerOf(box, room) ==
    /\ room \in [0 .. Len(box.mail) -> Nat]
    /\ IsRoom(room, box.mail)
    /\ \A n, m \in 0 .. Len(box.mail) : n < m => room[n] < room[m]
    /\ room[Len(box.mail)] = box.used_size
    /\ box.used_size <= box.mail_size

Ledger(box) == \E room \in [0 .. Len(box.mail) -> Nat] : LedgerOf(box, room)

\* A task has a handler as soon as it has a mailbox: its mail owner.
HandlerSet(k) ==
    /\ ipc[k].handler \in {NoThread, MailOwner[k]}
    /\ ipc[k].mail_size > 0 => ipc[k].handler = MailOwner[k]

BoxesOK == /\ IpcTypeOK
           /\ \A k \in Tasks : Ledger(ipc[k]) /\ HandlerSet(k)

IpcInv == SchedInv /\ BoxesOK /\ NoLostWakeup /\ WaiterIsHandler

\* The fields of a mailbox.
LEMMA BoxTypes ==
    ASSUME IpcTypeOK, NEW k \in Tasks
    PROVE  /\ ipc[k] \in IpcInfo /\ ipc[k].mail \in Seq(Messages)
           /\ ipc[k].mail_size \in Nat /\ ipc[k].used_size \in Nat
           /\ Len(ipc[k].mail) \in Nat
           /\ \A n \in 1 .. Len(ipc[k].mail) : Footprint(ipc[k].mail[n].length) \in Nat \ {0}
<1>1. /\ ipc[k] \in IpcInfo /\ ipc[k].mail \in Seq(Messages)
      /\ ipc[k].mail_size \in Nat /\ ipc[k].used_size \in Nat
    BY DEF IpcTypeOK, IpcInfo
<1>2. Len(ipc[k].mail) \in Nat  BY <1>1, LenProperties
<1>3. ASSUME NEW n \in 1 .. Len(ipc[k].mail)
      PROVE  Footprint(ipc[k].mail[n].length) \in Nat \ {0}
    <2>1. ipc[k].mail[n] \in Messages  BY <1>1, ElementOfSeq
    <2>2. ipc[k].mail[n].length \in Nat  BY <2>1 DEF Messages
    <2> QED BY <2>2 DEF Footprint
<1> QED BY <1>1, <1>2, <1>3

\* Nothing accounted, nothing there.
LEMMA EmptyLedger ==
    ASSUME NEW box \in IpcInfo, Ledger(box)
    PROVE  /\ box.used_size = 0 <=> box.mail = <<>>
           /\ box.used_size <= box.mail_size
<1>1. /\ box.mail \in Seq(Messages) /\ Len(box.mail) \in Nat /\ box.used_size \in Nat
    BY LenProperties DEF IpcInfo
<1>2. PICK room \in [0 .. Len(box.mail) -> Nat] : LedgerOf(box, room)
    BY DEF Ledger
<1>3. room[0] = 0 /\ room[Len(box.mail)] = box.used_size /\ box.used_size <= box.mail_size
    BY <1>2 DEF LedgerOf, IsRoom
<1>4. CASE box.mail = <<>>
    <2>1. Len(box.mail) = 0  BY <1>4, EmptySeq
    <2> QED BY <1>3, <1>4, <2>1
<1>5. CASE box.mail # <<>>
    <2>1. Len(box.mail) > 0  BY <1>1, <1>5, EmptySeq
    <2>2. room[0] < room[Len(box.mail)]  BY <1>1, <1>2, <2>1 DEF LedgerOf
    <2> QED BY <1>3, <1>5, <2>2
<1> QED BY <1>4, <1>5

\* An empty mailbox, whatever its size.
LEMMA ClearedLedger ==
    ASSUME NEW box, box.mail = <<>>, box.used_size = 0, box.mail_size \in Nat
    PROVE  Ledger(box)
<1> DEFINE room == [n \in 0 .. Len(box.mail) |-> 0]
<1>1. Len(box.mail) = 0  BY EmptySeq
<1>2. room \in [0 .. Len(box.mail) -> Nat] /\ room[0] = 0  BY <1>1
<1>3. LedgerOf(box, room)  BY <1>1, <1>2 DEF LedgerOf, IsRoom
<1> QED BY <1>2, <1>3 DEF Ledger

\* A message is put in: its fields.
LEMMA DeliveredFields ==
    ASSUME NEW box \in IpcInfo, NEW msg \in Messages
    PROVE  /\ Delivered(box, msg) \in IpcInfo
           /\ Delivered(box, msg).mail = Append(box.mail, msg)
           /\ Delivered(box, msg).used_size = box.used_size + Footprint(msg.length)
           /\ Delivered(box, msg).mail_size = box.mail_size
           /\ Delivered(box, msg).allow_pid = box.allow_pid
           /\ Delivered(box, msg).handler = box.handler
<1>1. msg.length \in Nat  BY DEF Messages
<1>2. box.used_size + Footprint(msg.length) \in Nat  BY <1>1 DEF IpcInfo, Footprint
<1>3. Append(box.mail, msg) \in Seq(Messages)  BY AppendProperties DEF IpcInfo
<1> QED BY <1>2, <1>3 DEF Delivered, IpcInfo

\* A message that fits is added to the ledger.
LEMMA DeliveredLedger ==
    ASSUME NEW box \in IpcInfo, Ledger(box), NEW msg \in Messages,
           box.used_size + Footprint(msg.length) <= box.mail_size
    PROVE  Ledger(Delivered(box, msg))
<1> DEFINE new == Delivered(box, msg)
           f == Footprint(msg.length)
           L == Len(box.mail)
<1>1. /\ box.mail \in Seq(Messages) /\ L \in Nat
      /\ box.used_size \in Nat /\ box.mail_size \in Nat
    BY LenProperties DEF IpcInfo
<1>2. f \in Nat \ {0}
    <2>1. msg.length \in Nat  BY DEF Messages
    <2> QED BY <2>1 DEF Footprint
<1>3. PICK room \in [0 .. L -> Nat] : LedgerOf(box, room)  BY DEF Ledger
<1>4. /\ new.mail = Append(box.mail, msg) /\ new.used_size = box.used_size + f
      /\ new.mail_size = box.mail_size
    BY DeliveredFields
<1>5. /\ Len(new.mail) = L + 1
      /\ \A n \in 1 .. L : new.mail[n] = box.mail[n]
      /\ new.mail[L + 1] = msg
    BY <1>1, <1>4, AppendProperties
<1>6. box.used_size + f <= box.mail_size  OBVIOUS
<1> DEFINE room2 == [n \in 0 .. L + 1 |-> IF n = L + 1 THEN box.used_size + f ELSE room[n]]
<1>7. /\ room[0] = 0 /\ room[L] = box.used_size
      /\ \A n \in 1 .. L : room[n] = room[n - 1] + Footprint(box.mail[n].length)
      /\ \A n, m \in 0 .. L : n < m => room[n] < room[m]
    BY <1>3 DEF LedgerOf, IsRoom
<1> HIDE DEF new, L
<1>8. /\ room2 \in [0 .. L + 1 -> Nat]
      /\ room2[L + 1] = box.used_size + f
      /\ \A n \in 0 .. L : room2[n] = room[n]
    <2> HIDE DEF f
    <2> QED BY <1>1, <1>2, <1>3
<1> HIDE DEF room2
<1>9. room2[0] = 0 /\ room2[L] = box.used_size  BY <1>1, <1>7, <1>8
<1>10. \A n \in 1 .. L + 1 : room2[n] = room2[n - 1] + Footprint(new.mail[n].length)
    <2> SUFFICES ASSUME NEW n \in 1 .. L + 1
                 PROVE  room2[n] = room2[n - 1] + Footprint(new.mail[n].length)
        OBVIOUS
    <2>1. CASE n = L + 1  BY <1>1, <1>5, <1>8, <1>9, <2>1
    <2>2. CASE n \in 1 .. L
        <3>1. n \in 0 .. L /\ n - 1 \in 0 .. L  BY <1>1, <2>2
        <3> QED BY <1>5, <1>7, <1>8, <2>2, <3>1
    <2> QED BY <1>1, <2>1, <2>2
<1>11. \A n, m \in 0 .. L + 1 : n < m => room2[n] < room2[m]
    <2> SUFFICES ASSUME NEW n \in 0 .. L + 1, NEW m \in 0 .. L + 1, n < m
                 PROVE  room2[n] < room2[m]
        OBVIOUS
    <2>1. CASE m \in 0 .. L  BY SMTT(30), <1>1, <1>7, <1>8, <2>1
    <2>2. CASE m = L + 1
        <3>1. n \in 0 .. L  BY <1>1, <2>2
        <3>2. room[n] \in Nat /\ room[n] <= room[L]
            <4>1. L \in 0 .. L /\ room[n] \in Nat /\ room[L] \in Nat
                BY <1>1, <1>3, <3>1
            <4>2. CASE n = L  BY <4>1, <4>2
            <4>3. CASE n < L
                <5>1. room[n] < room[L]  BY <1>7, <3>1, <4>1, <4>3
                <5> QED BY <4>1, <5>1
            <4> QED BY <1>1, <3>1, <4>1, <4>2, <4>3
        <3>3. box.used_size < room2[m]
            <4> HIDE DEF f
            <4> QED BY <1>1, <1>2, <1>8, <2>2
        <3>4. room2[m] \in Nat  BY <1>8
        <3> QED BY <1>1, <1>7, <1>8, <3>1, <3>2, <3>3, <3>4
    <2> QED BY <1>1, <2>1, <2>2
<1>12. LedgerOf(new, room2)
    BY <1>4, <1>5, <1>6, <1>8, <1>9, <1>10, <1>11 DEF LedgerOf, IsRoom
<1> QED BY <1>5, <1>8, <1>12 DEF Ledger, new

\* A message is taken out: what it accounted for is there to give back, and
\* the ledger of the others is what is left.
LEMMA ReceivedLedger ==
    ASSUME NEW box \in IpcInfo, Ledger(box), box.used_size > 0
    PROVE  /\ Received(box) \in IpcInfo
           /\ Ledger(Received(box))
           /\ Received(box).mail_size = box.mail_size
           /\ Received(box).handler = box.handler
<1> DEFINE new == Received(box)
           f == Footprint(Head(box.mail).length)
           L == Len(box.mail)
<1>1. /\ box.mail \in Seq(Messages) /\ L \in Nat
      /\ box.used_size \in Nat /\ box.mail_size \in Nat
    BY LenProperties DEF IpcInfo
<1>2. box.mail # <<>>  BY <1>1, EmptyLedger
<1>3. /\ Tail(box.mail) \in Seq(Messages) /\ Len(Tail(box.mail)) = L - 1
      /\ \A n \in 1 .. L - 1 : Tail(box.mail)[n] = box.mail[n + 1]
      /\ Head(box.mail) = box.mail[1] /\ L >= 1
    BY <1>1, <1>2, HeadTailProperties, EmptySeq
<1>4. PICK room \in [0 .. L -> Nat] : LedgerOf(box, room)  BY DEF Ledger
<1>5. /\ room[0] = 0 /\ room[L] = box.used_size /\ box.used_size <= box.mail_size
      /\ \A n \in 1 .. L : room[n] = room[n - 1] + Footprint(box.mail[n].length)
      /\ \A n, m \in 0 .. L : n < m => room[n] < room[m]
    BY <1>4 DEF LedgerOf, IsRoom
<1>6. f \in Nat /\ room[1] = f
    <2>1. box.mail[1] \in Messages  BY <1>1, <1>3, ElementOfSeq
    <2>2. box.mail[1].length \in Nat  BY <2>1 DEF Messages
    <2>3. f \in Nat  BY <1>3, <2>2 DEF Footprint
    <2>4. room[1] = room[0] + Footprint(box.mail[1].length)  BY <1>1, <1>3, <1>5
    <2> QED BY <1>3, <1>5, <2>3, <2>4
<1> HIDE DEF L
<1>7. \A n \in 1 .. L : room[n] \in Nat /\ f <= room[n]
    <2> HIDE DEF f
    <2> QED BY <1>1, <1>3, <1>4, <1>5, <1>6
<1>8. box.used_size - f \in Nat /\ box.used_size - f <= box.mail_size
    <2> HIDE DEF f
    <2> QED BY <1>1, <1>3, <1>5, <1>6, <1>7
<1>9. /\ new \in IpcInfo
      /\ new.mail = Tail(box.mail) /\ new.used_size = box.used_size - f
      /\ new.mail_size = box.mail_size /\ new.handler = box.handler
    BY <1>3, <1>8 DEF Received, IpcInfo
<1> DEFINE room2 == [n \in 0 .. L - 1 |-> room[n + 1] - f]
<1> HIDE DEF new, f
<1>10. /\ room2 \in [0 .. L - 1 -> Nat]
       /\ \A n \in 0 .. L - 1 : room2[n] = room[n + 1] - f
    <2>1. \A n \in 0 .. L - 1 : n + 1 \in 1 .. L  BY <1>1, <1>3
    <2>2. \A n \in 0 .. L - 1 : room[n + 1] - f \in Nat  BY <1>6, <1>7, <2>1
    <2> QED BY <2>2
<1> HIDE DEF room2
<1>11. room2[0] = 0 /\ room2[L - 1] = new.used_size
    <2>1. 0 \in 0 .. L - 1 /\ L - 1 \in 0 .. L - 1 /\ 0 + 1 = 1 /\ L - 1 + 1 = L
        BY <1>1, <1>3
    <2> QED BY <1>5, <1>6, <1>9, <1>10, <2>1
<1>12. \A n \in 1 .. L - 1 : room2[n] = room2[n - 1] + Footprint(new.mail[n].length)
    <2> SUFFICES ASSUME NEW n \in 1 .. L - 1
                 PROVE  room2[n] = room2[n - 1] + Footprint(new.mail[n].length)
        OBVIOUS
    <2> DEFINE g == Footprint(new.mail[n].length)
    <2>1. /\ n \in 0 .. L - 1 /\ n - 1 \in 0 .. L - 1 /\ n \in 1 .. L
          /\ n + 1 \in 1 .. L /\ n - 1 + 1 = n /\ n + 1 - 1 = n
        BY <1>1, <1>3
    <2>2. room2[n] = room[n + 1] - f /\ room2[n - 1] = room[n] - f  BY <1>10, <2>1
    <2>3. g = Footprint(box.mail[n + 1].length)  BY <1>3, <1>9
    <2>4. room[n + 1] = room[n] + g  BY <1>5, <2>1, <2>3
    <2>5. g \in Nat
        <3>1. box.mail[n + 1] \in Messages  BY <1>1, <2>1, ElementOfSeq DEF L
        <3>2. box.mail[n + 1].length \in Nat  BY <3>1 DEF Messages
        <3> QED BY <2>3, <3>2 DEF Footprint
    <2> HIDE DEF g
    <2>6. room2[n] = room2[n - 1] + g  BY <1>6, <1>7, <2>1, <2>2, <2>4, <2>5
    <2> QED BY <2>6 DEF g
<1>13. \A n, m \in 0 .. L - 1 : n < m => room2[n] < room2[m]
    <2> SUFFICES ASSUME NEW n \in 0 .. L - 1, NEW m \in 0 .. L - 1, n < m
                 PROVE  room2[n] < room2[m]
        OBVIOUS
    <2>1. n + 1 \in 1 .. L /\ m + 1 \in 1 .. L /\ n + 1 < m + 1  BY <1>1, <1>3
    <2>2. room[n + 1] < room[m + 1]  BY <1>1, <1>5, <2>1
    <2> QED BY <1>6, <1>7, <1>10, <2>1, <2>2
<1>14. LedgerOf(new, room2)
    BY <1>3, <1>8, <1>9, <1>10, <1>11, <1>12, <1>13 DEF LedgerOf, IsRoom
<1> QED BY <1>3, <1>9, <1>10, <1>14 DEF Ledger, new
---------------------------------------------------------------------------
(* The steps. *)

\* One mailbox is replaced.
LEMMA ReplaceBox ==
    ASSUME BoxesOK, NEW k \in Tasks, NEW box \in IpcInfo, Ledger(box),
           box.handler \in {NoThread, MailOwner[k]},
           box.mail_size > 0 => box.handler = MailOwner[k],
           ipc' = [ipc EXCEPT ![k] = box], irq_tasks' = irq_tasks
    PROVE  /\ BoxesOK'
           /\ ipc'[k] = box
           /\ \A o \in Tasks : o # k => ipc'[o] = ipc[o]
<1>1. /\ ipc'[k] = box /\ \A o \in Tasks : o # k => ipc'[o] = ipc[o]
      /\ ipc' \in [Tasks -> IpcInfo]
    BY DEF BoxesOK, IpcTypeOK
<1>2. \A o \in Tasks : Ledger(ipc'[o])
    BY <1>1 DEF BoxesOK
<1>3. \A o \in Tasks : /\ ipc'[o].handler \in {NoThread, MailOwner[o]}
                       /\ ipc'[o].mail_size > 0 => ipc'[o].handler = MailOwner[o]
    BY <1>1 DEF BoxesOK, HandlerSet
<1> QED BY <1>1, <1>2, <1>3 DEF BoxesOK, IpcTypeOK, HandlerSet, Ledger, LedgerOf, IsRoom, Footprint

\* What is in a mailbox changes.
Changed(k) == ipc'[k].mail # ipc[k].mail \/ ipc'[k].used_size # ipc[k].used_size

\* Nobody's sleep changes, and no mailbox of a sleeper.
LEMMA SleepKept ==
    ASSUME IpcInv, BoxesOK', SameSleepers(sched', sched),
           \A k \in Tasks :
              /\ ipc[k].handler # NoThread => ipc'[k].handler = ipc[k].handler
              /\ Changed(k) => ~HandlerSleeps(k)
    PROVE  NoLostWakeup' /\ WaiterIsHandler'
<1>1. \A t \in Threads : sched'.state[t] = "WAITING_IPC" <=> sched.state[t] = "WAITING_IPC"
    BY DEF SameSleepers
<1>2. \A t \in Threads : TaskOf[t] \in Tasks /\ t # NoThread
    BY Names, ThreadsAssumption
<1>3. WaiterIsHandler'
    BY <1>1, <1>2 DEF IpcInv, WaiterIsHandler
<1>4. NoLostWakeup'
    <2> SUFFICES ASSUME NEW k \in Tasks, NEW t \in Threads,
                        ipc'[k].handler = t, sched'.state[t] = "WAITING_IPC"
                 PROVE  ipc'[k].used_size = 0 /\ ipc'[k].mail = <<>>
        BY DEF NoLostWakeup
    <2>1. sched.state[t] = "WAITING_IPC" /\ ipc[TaskOf[t]].handler = t
        BY <1>1 DEF IpcInv, WaiterIsHandler
    <2>2. CASE ~Changed(k) /\ ipc[k].handler = t
        BY <2>1, <2>2 DEF IpcInv, NoLostWakeup, Changed
    <2>3. CASE Changed(k) \/ ipc[k].handler # t
        <3>1. t = MailOwner[k]  BY <1>2 DEF BoxesOK, HandlerSet
        <3>2. TaskOf[t] = k  BY <3>1
        <3>3. ipc[k].handler = t  BY <2>1, <3>2
        <3> QED BY <1>2, <2>1, <2>3, <3>3 DEF HandlerSleeps
    <2> QED BY <2>2, <2>3
<1> QED BY <1>3, <1>4

\* A mailbox is given a message and its handler, if it sleeps, is woken, in a
\* system call of c (sched' is what after_syscall makes of it) or by a device.
LEMMA DeliverStep ==
    ASSUME IpcInv, NEW k \in Tasks, NEW msg \in Messages, Fits(k, msg.length),
           ipc' = [ipc EXCEPT ![k] = Delivered(ipc[k], msg)], irq_tasks' = irq_tasks,
           UNCHANGED <<do_schedule, tasks>>, do_schedule,
           \/ sched' = Notified(k)
           \/ sched' = AfterSyscall(Notified(k)) /\ \E c \in Threads : Executes(c)
    PROVE  IpcInv' /\ [SchedNext]_schedVars
<1> DEFINE box == ipc[k]
           new == Delivered(box, msg)
           h == box.handler
<1>0. SchedInv /\ BoxesOK /\ IpcTypeOK /\ NoLostWakeup /\ WaiterIsHandler
    BY DEF IpcInv, BoxesOK
<1>1. /\ box \in IpcInfo /\ Ledger(box) /\ HandlerSet(k)
    BY <1>0, BoxTypes DEF BoxesOK
<1>2. box.used_size + Footprint(msg.length) <= box.mail_size  BY DEF Fits
<1>3. Ledger(new)  BY <1>1, <1>2, DeliveredLedger
<1>4. /\ new \in IpcInfo /\ new.handler = h /\ new.mail_size = box.mail_size
    BY <1>1, DeliveredFields
<1>5. ipc' = [ipc EXCEPT ![k] = new]  OBVIOUS
<1> HIDE DEF new
<1>6. /\ BoxesOK' /\ ipc'[k] = new
      /\ \A o \in Tasks : o # k => ipc'[o] = ipc[o]
    <2>1. /\ new.handler \in {NoThread, MailOwner[k]}
          /\ new.mail_size > 0 => new.handler = MailOwner[k]
        BY <1>1, <1>4 DEF HandlerSet
    <2> QED BY ZenonT(30), <1>0, <1>3, <1>4, <1>5, <2>1, ReplaceBox
<1>7. \A o \in Tasks : ipc'[o].handler = ipc[o].handler  BY <1>4, <1>6
<1>8. CASE ~HandlerSleeps(k)
    <2>1. Notified(k) = sched  BY <1>8 DEF Notified
    <2>2. SchedNext \/ UNCHANGED schedVars
        <3>1. CASE sched' = sched  BY <3>1 DEF schedVars
        <3>2. ASSUME NEW c \in Threads, Executes(c), sched' = AfterSyscall(sched)
              PROVE  SchedNext
            <4>1. SyscallOnly(c)  BY <3>2 DEF SyscallOnly
            <4> QED BY <4>1 DEF SchedNext, SchedOwnStep
        <3> QED BY <2>1, <3>1, <3>2
    <2>3. SameSleepers(sched', sched)
        <3>1. CASE sched' = sched  BY <3>1 DEF SameSleepers
        <3>2. CASE sched' = AfterSyscall(sched)
            BY <1>0, <3>2, SwitchSleepers DEF SchedInv, Settled
        <3> QED BY <2>1, <3>1, <3>2
    <2>4. SchedInv'  BY <1>0, <2>2, SchedStepInv
    <2>5. NoLostWakeup' /\ WaiterIsHandler'
        BY <1>6, <1>7, <1>8, <2>3, SleepKept DEF Changed
    <2> QED BY <1>6, <2>2, <2>4, <2>5 DEF IpcInv
<1>9. CASE HandlerSleeps(k)
    <2>1. Notified(k) = Wake(sched, h) /\ h # NoThread /\ sched.state[h] = "WAITING_IPC"
        BY <1>9 DEF Notified, HandlerSleeps
    <2>2. h \in Threads  BY <1>1, <2>1 DEF IpcInfo
    <2>3. SchedNext
        <3>1. CASE sched' = Wake(sched, h)
            <4>1. IrqWake(h)  BY <2>1, <3>1 DEF IrqWake
            <4> QED BY <2>2, <4>1 DEF SchedNext
        <3>2. ASSUME NEW c \in Threads, Executes(c), sched' = AfterSyscall(Wake(sched, h))
              PROVE  SchedNext
            <4>1. SyscallWake(c, h)  BY <2>1, <3>2 DEF SyscallWake
            <4> QED BY <2>2, <4>1 DEF SchedNext
        <3> QED BY <2>1, <3>1, <3>2
    <2>4. SchedInv'  BY <1>0, <2>3, SchedStepInv
    <2>5. \A t \in Threads :
             sched'.state[t] = "WAITING_IPC" <=> t # h /\ sched.state[t] = "WAITING_IPC"
        BY <1>0, <2>1, <2>2, WakeSleepers
    <2>6. WaiterIsHandler'  BY <1>0, <1>7, <2>5, ThreadsAssumption DEF WaiterIsHandler
    <2>7. NoLostWakeup'  BY <1>0, <1>6, <1>7, <2>5 DEF NoLostWakeup
    <2> QED BY <1>6, <2>3, <2>4, <2>6, <2>7 DEF IpcInv
<1> QED BY <1>8, <1>9

\* A call that leaves the threads alone and changes at most the mailbox of
\* its own task.
LEMMA OwnBoxStep ==
    ASSUME IpcInv, NEW c \in Threads, Executes(c), sched' = AfterSyscall(sched),
           UNCHANGED <<do_schedule, tasks>>, BoxesOK',
           \A k \in Tasks : /\ ipc[k].handler # NoThread => ipc'[k].handler = ipc[k].handler
                            /\ Changed(k) => ipc[k].handler \in {NoThread, c}
    PROVE  IpcInv' /\ SchedNext
<1>0. SchedInv /\ sched.state[c] = "RUNNING"
    BY DEF IpcInv, SchedInv, Settled, Executes
<1>1. SyscallOnly(c)  BY DEF SyscallOnly
<1>2. SchedOwnStep /\ SchedNext  BY <1>1 DEF SchedNext, SchedOwnStep
<1>3. SchedInv' /\ SameSleepers(sched', sched)
    BY <1>0, <1>2, SchedStepInv, OwnStepSleepers
<1>4. \A k \in Tasks : Changed(k) => ~HandlerSleeps(k)
    BY <1>0 DEF HandlerSleeps
<1>5. NoLostWakeup' /\ WaiterIsHandler'  BY <1>3, <1>4, SleepKept
<1> QED BY <1>2, <1>3, <1>5 DEF IpcInv

\* A call that changes nothing of the mailboxes.
LEMMA QuietStep ==
    ASSUME IpcInv, NEW c \in Threads, Executes(c), sched' = AfterSyscall(sched),
           UNCHANGED <<do_schedule, tasks>>, ipc' = ipc, irq_tasks' = irq_tasks
    PROVE  IpcInv' /\ SchedNext
<1>1. BoxesOK'  BY DEF IpcInv, BoxesOK, IpcTypeOK, HandlerSet
<1>2. \A k \in Tasks : ipc'[k].handler = ipc[k].handler /\ ~Changed(k)  BY DEF Changed
<1> QED BY <1>1, <1>2, OwnBoxStep

\* The calls of a thread.
LEMMA IpcCallStep ==
    ASSUME IpcInv, NEW c \in Threads, IpcStep(c)
    PROVE  IpcInv' /\ [SchedNext]_schedVars
<1> DEFINE k == TaskOf[c]
           box == ipc[k]
<1>0. /\ SchedInv /\ BoxesOK /\ IpcTypeOK /\ NoLostWakeup /\ WaiterIsHandler
      /\ k \in Tasks
    BY ThreadsAssumption DEF IpcInv, BoxesOK
<1>1. box \in IpcInfo /\ Ledger(box) /\ HandlerSet(k)
    BY <1>0, BoxTypes DEF BoxesOK
<1>2. ASSUME Executes(c) PROVE do_schedule /\ sched.state[c] = "RUNNING" /\ sched.current = c
    BY <1>0, <1>2 DEF Executes, SchedInv, Settled
<1>3. ASSUME UNCHANGED <<ipc, irq_tasks>> PROVE BoxesOK'
    BY <1>0, <1>3 DEF BoxesOK, IpcTypeOK, HandlerSet
<1>4. ASSUME NEW dst \in Tasks, NEW len \in Lengths, SendMsg(c, dst, len)
      PROVE  IpcInv' /\ [SchedNext]_schedVars
    <2> DEFINE msg == [source |-> k, length |-> len]
               Taken == dst \in tasks /\ Fits(dst, len) /\ Accepts(dst, TaskOf[c])
    <2>1. CASE Taken /\ ipc' = [ipc EXCEPT ![dst] = Delivered(@, msg)]
               /\ sched' = AfterSyscall(Notified(dst))
        <3>1. msg \in Messages /\ msg.length = len  BY <1>0 DEF Messages
        <3>2. ipc' = [ipc EXCEPT ![dst] = Delivered(ipc[dst], msg)]
            BY <1>0, <2>1 DEF IpcTypeOK
        <3> HIDE DEF msg
        <3>3. /\ Fits(dst, msg.length) /\ irq_tasks' = irq_tasks
              /\ UNCHANGED <<do_schedule, tasks>> /\ Executes(c)
            BY <1>4, <2>1, <3>1 DEF SendMsg
        <3> QED BY <1>2, <2>1, <3>1, <3>2, <3>3, DeliverStep
    <2>2. CASE ~Taken /\ sched' = AfterSyscall(sched) /\ UNCHANGED ipc
        <3> QED BY <1>4, <2>2, QuietStep DEF SendMsg
    <2> QED BY <1>4, <2>1, <2>2 DEF SendMsg
<1>5. ASSUME CheckIpc(c) PROVE IpcInv' /\ [SchedNext]_schedVars
    <2>1. CASE box.mail_size > 0 /\ box.used_size = 0
        <3>1. sched' = AfterSyscall(SetState(sched, c, "WAITING_IPC"))
            BY <1>5, <2>1 DEF CheckIpc
        <3>2. SyscallBlock(c, "WAITING_IPC")  BY <1>5, <3>1 DEF CheckIpc, SyscallBlock
        <3>3. SchedNext  BY <3>2 DEF SchedNext
        <3>4. SchedInv'  BY <1>0, <3>3, SchedStepInv
        <3>5. \A t \in Threads :
                 sched'.state[t] = "WAITING_IPC" <=> t = c \/ sched.state[t] = "WAITING_IPC"
            BY <1>0, <1>5, <3>1, StopSleepers DEF CheckIpc
        <3>6. /\ UNCHANGED <<ipc, irq_tasks>> /\ MailOwner[k] = c
            BY <1>5 DEF CheckIpc, OwnsMail
        <3>7. box.handler = c  BY <1>1, <2>1, <3>6 DEF HandlerSet
        <3>8. box.mail = <<>>  BY <1>1, <2>1, EmptyLedger
        <3>9. WaiterIsHandler'  BY <1>0, <3>5, <3>6, <3>7 DEF WaiterIsHandler
        <3>10. NoLostWakeup'
            <4> SUFFICES ASSUME NEW o \in Tasks, NEW t \in Threads,
                                ipc[o].handler = t, sched'.state[t] = "WAITING_IPC"
                         PROVE  ipc[o].used_size = 0 /\ ipc[o].mail = <<>>
                BY <3>6 DEF NoLostWakeup
            <4>1. CASE sched.state[t] = "WAITING_IPC"
                BY <1>0, <4>1 DEF NoLostWakeup
            <4>2. CASE t = c
                <5>1. c # NoThread  BY Names
                <5>2. MailOwner[o] = c  BY <1>0, <4>2, <5>1 DEF BoxesOK, HandlerSet
                <5>3. o = k  BY <5>2
                <5> QED BY <2>1, <3>8, <5>3
            <4> QED BY <3>5, <4>1, <4>2
        <3> QED BY <1>3, <3>3, <3>4, <3>6, <3>9, <3>10 DEF IpcInv
    <2>2. CASE ~(box.mail_size > 0 /\ box.used_size = 0)
        <3> QED BY <1>5, <2>2, QuietStep DEF CheckIpc
    <2> QED BY <2>1, <2>2
<1>6. ASSUME NEW new \in IpcInfo, Ledger(new), Executes(c),
             \/ new.handler = box.handler
             \/ box.handler \in {NoThread, c} /\ new.handler = c /\ MailOwner[k] = c,
             new.mail_size > 0 => new.handler = MailOwner[k],
             ipc' = [ipc EXCEPT ![k] = new], Return,
             \/ new.mail = box.mail /\ new.used_size = box.used_size
             \/ box.handler \in {NoThread, c}
      PROVE  IpcInv' /\ [SchedNext]_schedVars
    <2>1. new.handler \in {NoThread, MailOwner[k]}  BY <1>1, <1>6 DEF HandlerSet
    <2>2. /\ BoxesOK' /\ ipc'[k] = new
          /\ \A o \in Tasks : o # k => ipc'[o] = ipc[o]
        BY <1>0, <1>6, <2>1, ReplaceBox DEF Return
    <2>3. \A o \in Tasks :
             /\ ipc[o].handler # NoThread => ipc'[o].handler = ipc[o].handler
             /\ Changed(o) => ipc[o].handler \in {NoThread, c}
        BY <1>6, <2>2 DEF Changed
    <2> QED BY <1>6, <2>2, <2>3, OwnBoxStep DEF Return
<1>7. ASSUME RecvMsg(c) PROVE IpcInv' /\ [SchedNext]_schedVars
    <2>1. MailOwner[k] = c /\ Executes(c) /\ Return  BY <1>7 DEF RecvMsg, OwnsMail
    <2>2. box.handler \in {NoThread, c}  BY <1>1, <2>1 DEF HandlerSet
    <2>3. CASE box.used_size > 0
        <3>1. ipc' = [ipc EXCEPT ![k] = Received(box)]
            BY <1>0, <1>7, <2>3 DEF RecvMsg, IpcTypeOK
        <3>2. /\ Received(box) \in IpcInfo /\ Ledger(Received(box))
              /\ Received(box).handler = box.handler
              /\ Received(box).mail_size = box.mail_size
            BY <1>1, <2>3, ReceivedLedger
        <3>3. Received(box).mail_size > 0 => Received(box).handler = MailOwner[k]
            BY <1>1, <3>2 DEF HandlerSet
        <3> QED BY <1>6, <2>1, <2>2, <3>1, <3>2, <3>3
    <2>4. CASE ~(box.used_size > 0)
        <3>1. ipc' = ipc  BY <1>0, <1>7, <2>4 DEF RecvMsg, IpcTypeOK
        <3> QED BY <2>1, <3>1, QuietStep DEF Return
    <2> QED BY <2>3, <2>4
<1>8. ASSUME NEW pid \in AllowPids[k], SetAllow(c, pid)
      PROVE  IpcInv' /\ [SchedNext]_schedVars
    <2> DEFINE new == [box EXCEPT !.allow_pid = pid]
    <2>1. pid \in Tasks \cup Specials  BY <1>0, <1>8
    <2>2. /\ new \in IpcInfo /\ new.mail = box.mail /\ new.used_size = box.used_size
          /\ new.mail_size = box.mail_size /\ new.handler = box.handler
        BY <1>1, <2>1 DEF IpcInfo
    <2>3. ipc' = [ipc EXCEPT ![k] = new] /\ Executes(c) /\ Return
        BY <1>0, <1>8 DEF SetAllow, IpcTypeOK
    <2> HIDE DEF new
    <2>4. Ledger(new)  BY <1>1, <2>2 DEF Ledger, LedgerOf
    <2>5. new.mail_size > 0 => new.handler = MailOwner[k]  BY <1>1, <2>2 DEF HandlerSet
    <2> QED BY <1>6, <2>2, <2>3, <2>4, <2>5
<1>9. ASSUME SetMailbuffer(c) PROVE IpcInv' /\ [SchedNext]_schedVars
    <2> DEFINE new == NewMailbox(box, c)
    <2>1. MailOwner[k] = c /\ Executes(c) /\ Return
          /\ ipc' = [ipc EXCEPT ![k] = new]
        BY <1>0, <1>9 DEF SetMailbuffer, OwnsMail, IpcTypeOK
    <2>2. /\ new \in IpcInfo /\ new.mail = <<>> /\ new.used_size = 0
          /\ new.mail_size = MailSize /\ new.handler = c
        BY <1>1, EmptySeq DEF NewMailbox, IpcInfo
    <2> HIDE DEF new
    <2>3. Ledger(new)  BY <2>2, ClearedLedger
    <2>4. box.handler \in {NoThread, c}  BY <1>1, <2>1 DEF HandlerSet
    <2> QED BY <1>6, <2>1, <2>2, <2>3, <2>4
<1>10. ASSUME RegIrq(c) PROVE IpcInv' /\ [SchedNext]_schedVars
    <2>1. BoxesOK'  BY <1>0, <1>10 DEF RegIrq, BoxesOK, IpcTypeOK, HandlerSet
    <2>2. \A o \in Tasks : ipc'[o] = ipc[o]  BY <1>10 DEF RegIrq
    <2> QED BY <1>10, <2>1, <2>2, OwnBoxStep DEF RegIrq, Changed
<1> QED BY <1>4, <1>5, <1>7, <1>8, <1>9, <1>10 DEF IpcStep

\* An interrupt, a step of the scheduler, a wait for a semaphore.
LEMMA IpcStepInv ==
    ASSUME IpcInv, IpcNext
    PROVE  IpcInv' /\ [SchedNext]_schedVars
<1>0. SchedInv /\ BoxesOK /\ IpcTypeOK /\ NoLostWakeup /\ WaiterIsHandler
    BY DEF IpcInv, BoxesOK
<1>1. ASSUME NEW c \in Threads, IpcStep(c) PROVE IpcInv' /\ [SchedNext]_schedVars
    BY <1>1, IpcCallStep
<1>2. ASSUME NEW k \in Tasks, Irq(k) PROVE IpcInv' /\ [SchedNext]_schedVars
    <2> DEFINE msg == [source |-> DUMMY_TASK, length |-> IrqLength]
    <2>1. msg \in Messages /\ msg.length = IrqLength  BY DEF Messages
    <2>2. ipc' = [ipc EXCEPT ![k] = Delivered(ipc[k], msg)]
        BY <1>0, <1>2 DEF Irq, IpcTypeOK
    <2> HIDE DEF msg
    <2>3. /\ Fits(k, msg.length) /\ do_schedule /\ sched' = Notified(k)
          /\ irq_tasks' = irq_tasks /\ UNCHANGED <<do_schedule, tasks>>
        BY <1>2, <2>1 DEF Irq
    <2> QED BY <2>1, <2>2, <2>3, DeliverStep
<1>3. ASSUME UNCHANGED <<ipc, irq_tasks>>, SchedNext,
             \A t \in Threads :
                 sched'.state[t] = "WAITING_IPC" <=> sched.state[t] = "WAITING_IPC"
      PROVE  IpcInv' /\ [SchedNext]_schedVars
    <2>1. SchedInv'  BY <1>0, <1>3, SchedStepInv
    <2>2. BoxesOK'  BY <1>0, <1>3 DEF BoxesOK, IpcTypeOK, HandlerSet
    <2>3. NoLostWakeup' /\ WaiterIsHandler'
        BY <1>0, <1>3 DEF NoLostWakeup, WaiterIsHandler
    <2> QED BY <1>3, <2>1, <2>2, <2>3 DEF IpcInv
<1>4. CASE SchedOwnStep /\ UNCHANGED <<ipc, irq_tasks>>
    <2>1. SameSleepers(sched', sched)  BY <1>0, <1>4, OwnStepSleepers
    <2> QED BY <1>3, <1>4, <2>1 DEF SchedNext, SameSleepers
<1>5. CASE SignalWait /\ UNCHANGED <<ipc, irq_tasks>>
    <2>1. ASSUME NEW c \in Threads, SyscallBlock(c, "WAITING")
          PROVE  IpcInv' /\ [SchedNext]_schedVars
        <3>1. \A t \in Threads :
                 sched'.state[t] = "WAITING_IPC" <=> sched.state[t] = "WAITING_IPC"
            BY <1>0, <2>1, StopSleepers DEF SyscallBlock
        <3> QED BY <1>3, <1>5, <2>1, <3>1 DEF SchedNext
    <2>2. ASSUME NEW c \in Threads, NEW t \in Threads,
                 sched.state[t] = "WAITING", SyscallWake(c, t)
          PROVE  IpcInv' /\ [SchedNext]_schedVars
        <3>1. sched' \in {Wake(sched, t), AfterSyscall(Wake(sched, t))}
            BY <2>2 DEF SyscallWake
        <3>2. \A x \in Threads :
                 sched'.state[x] = "WAITING_IPC" <=> sched.state[x] = "WAITING_IPC"
            BY <1>0, <2>2, <3>1, WakeSleepers
        <3> QED BY <1>3, <1>5, <2>2, <3>2 DEF SchedNext
    <2> QED BY <1>5, <2>1, <2>2 DEF SignalWait
<1> QED BY <1>1, <1>2, <1>4, <1>5 DEF IpcNext

LEMMA IpcInitInv == IpcInit => IpcInv
<1>1. SUFFICES ASSUME IpcInit PROVE IpcInv  OBVIOUS
<1>2. SchedInv  BY <1>1, SchedInitInv DEF IpcInit
<1>3. /\ NoMail \in IpcInfo /\ NoMail.mail = <<>> /\ NoMail.used_size = 0
      /\ NoMail.mail_size = 0 /\ NoMail.handler = NoThread
    BY EmptySeq DEF NoMail, IpcInfo
<1>4. Ledger(NoMail)  BY <1>3, ClearedLedger
<1>5. ipc \in [Tasks -> IpcInfo] /\ irq_tasks = {} /\ \A k \in Tasks : ipc[k] = NoMail
    BY <1>1, <1>3 DEF IpcInit
<1>6. BoxesOK  BY <1>3, <1>4, <1>5 DEF BoxesOK, IpcTypeOK, HandlerSet
<1>7. \A t \in Threads : sched.state[t] # "WAITING_IPC"
    BY <1>1, Names DEF IpcInit, SchedInit
<1> QED BY <1>2, <1>6, <1>7 DEF IpcInv, NoLostWakeup, WaiterIsHandler

LEMMA IpcInvariance == IpcSpec => []IpcInv
<1>1. IpcInv /\ UNCHANGED ipcVars => IpcInv'
    BY DEF ipcVars, IpcInv, SchedInv, Settled, InCall, WellTyped, QueuesHold, Queued,
           BoxesOK, IpcTypeOK, HandlerSet, NoLostWakeup, WaiterIsHandler
<1>2. IpcInv /\ [IpcNext]_ipcVars => IpcInv'  BY <1>1, IpcStepInv
<1> QED BY IpcInitInv, <1>2, PTL DEF IpcSpec

\* What the code keeps in a mailbox is well typed.
THEOREM IpcTypeCorrect == IpcSpec => []IpcTypeOK
<1>1. IpcInv => IpcTypeOK  BY DEF IpcInv, BoxesOK
<1> QED BY IpcInvariance, <1>1, PTL

\* used_size accounts for every message in the buffer, whatever the sizes of
\* the buffers and of the messages: no send runs over an unread message.
THEOREM MailAccountingCorrect == IpcSpec => []MailAccounting
<1>1. ASSUME IpcInv PROVE MailAccounting
    <2> SUFFICES ASSUME NEW k \in Tasks
                 PROVE  \E room \in [0 .. Len(ipc[k].mail) -> 0 .. ipc[k].mail_size] :
                            IsRoom(room, ipc[k].mail)
                            /\ room[Len(ipc[k].mail)] = ipc[k].used_size
        BY DEF MailAccounting
    <2> DEFINE L == Len(ipc[k].mail)
    <2>1. /\ L \in Nat /\ ipc[k].used_size \in Nat /\ ipc[k].mail_size \in Nat
        BY <1>1, BoxTypes DEF IpcInv, BoxesOK
    <2>2. PICK room \in [0 .. L -> Nat] : LedgerOf(ipc[k], room)
        BY <1>1 DEF IpcInv, BoxesOK, Ledger
    <2>3. /\ room[L] = ipc[k].used_size /\ ipc[k].used_size <= ipc[k].mail_size
          /\ IsRoom(room, ipc[k].mail)
          /\ \A n, m \in 0 .. L : n < m => room[n] < room[m]
        BY <2>2 DEF LedgerOf
    <2> HIDE DEF L
    <2>4. \A n \in 0 .. L : room[n] \in 0 .. ipc[k].mail_size
        <3> SUFFICES ASSUME NEW n \in 0 .. L PROVE room[n] \in 0 .. ipc[k].mail_size
            OBVIOUS
        <3>1. room[n] \in Nat /\ L \in 0 .. L  BY <2>1
        <3>2. n = L \/ room[n] < room[L]  BY <2>1, <2>3, <3>1
        <3> QED BY <2>1, <2>3, <3>1, <3>2
    <2>5. room \in [0 .. L -> 0 .. ipc[k].mail_size]  BY <2>4
    <2> QED BY <2>3, <2>5 DEF L
<1> QED BY IpcInvariance, <1>1, PTL

\* No order of sends, interrupts, filters and checks loses a wake-up.
THEOREM NoLostWakeupCorrect == IpcSpec => []NoLostWakeup
<1>1. IpcInv => NoLostWakeup  BY DEF IpcInv
<1> QED BY IpcInvariance, <1>1, PTL

\* Who waits for a message is known to those who send one.
THEOREM WaiterIsHandlerCorrect == IpcSpec => []WaiterIsHandler
<1>1. IpcInv => WaiterIsHandler  BY DEF IpcInv
<1> QED BY IpcInvariance, <1>1, PTL

\* The mailboxes do to the threads only what the scheduler's abstract
\* blocking and waking steps do.
THEOREM IpcRefinesSched == IpcSpec => IpcImplementsSched
<1>1. IpcInit => SchedInit  BY DEF IpcInit
<1>2. IpcInv /\ [IpcNext]_ipcVars => [SchedNext]_schedVars
    BY IpcStepInv DEF ipcVars, schedVars
<1> QED BY IpcInvariance, <1>1, <1>2, PTL DEF IpcSpec, SchedSpec, IpcImplementsSched
=============================================================================
