----------------------------- MODULE Rpc_proofs -----------------------------
(* Proofs about remote calls, first on the side that serves: every request    *)
(* is answered once, to its caller and from its own arguments, however many   *)
(* tasks call, whatever is registered and however many messages are sent.     *)
(* Then on the side that calls: the list of ipc.c leads a reply to its call,  *)
(* whatever order the replies come in and whichever are lost, although        *)
(* remove_rpc_result leaves nodes behind and the msgids come round, as long   *)
(* as the msgid of a new call does not clash with a node of the list.         *)
EXTENDS RpcClient, RpcServer, QueueLemmas, FiniteSetTheorems
---------------------------------------------------------------------------
(* The service. *)

\* Every function that can be called gives back what it was registered with.
ReturnsFit ==
    \A m \in Message : Valid(m) => ReturnMatches(HeadNode[ListFindProccess(m.func)])

\* Whether a message is in the mailbox, has a thread, or has been answered.
Waits(m)    == m \in Range(inbox)
Worked(m)   == \E t \in workers : t.pack = m
Answered(m) == \E n \in DOMAIN replies : replies[n].msg_id = m

\* A request that is answered: one whose sizes are right.
Served(m) == sent[m].rpc /\ Valid(sent[m])

ReplyRecord == [to : Clients, msg_id : Nat, func : Funcs \cup {0}, result : Nat, arrived : BOOLEAN]

Typed == /\ sent \in Seq(Message) /\ Len(sent) <= SentLimit
         /\ inbox \in Seq(1 .. Len(sent)) /\ replies \in Seq(ReplyRecord)
         /\ server \in {"module", "sys_task"}
         /\ server = "sys_task" => workers = {}

\* No message is twice in the mailbox, with two threads, or answered twice.
OnceEach ==
    /\ IsInjective(inbox)
    /\ \A t, u \in workers : t.pack = u.pack => t = u
    /\ \A i, j \in DOMAIN replies : replies[i].msg_id = replies[j].msg_id => i = j

\* Nor is it at two of these places, and what is to be answered is at one.
OnePlace ==
    \A m \in DOMAIN sent :
        /\ ~ (Waits(m) /\ Worked(m)) /\ ~ (Waits(m) /\ Answered(m))
        /\ ~ (Worked(m) /\ Answered(m))
        /\ Served(m) => Waits(m) \/ Worked(m) \/ Answered(m)

\* A thread has a block of its own, which nobody else writes, with its request.
OwnCopies ==
    /\ DOMAIN heap = {LoopMsg} \cup {t.msg : t \in workers}
    /\ \A t \in workers : /\ t.pack \in DOMAIN sent /\ sent[t.pack].rpc
                          /\ t.msg \in 1 .. SentLimit /\ heap[t.msg] = t.pack
    /\ heap[LoopMsg] \in 0 .. Len(sent)

\* A reply goes where the request came from, with the result of its arguments.
OwnReplies ==
    \A n \in DOMAIN replies :
        LET m == replies[n].msg_id
        IN  /\ m \in DOMAIN sent /\ Served(m)
            /\ replies[n].to = sent[m].source /\ replies[n].func = sent[m].func
            /\ replies[n].result = m

ServerInv == Typed /\ OnceEach /\ OnePlace /\ OwnCopies /\ OwnReplies
---------------------------------------------------------------------------
\* ServeInit: nothing has been sent.
LEMMA InitServer ==
    ASSUME RpcServerAssumption, ServeInit
    PROVE  ServerInv
<1>1. DOMAIN heap = {LoopMsg} /\ heap[LoopMsg] = 0
  BY DEF ServeInit, LoopMsg, NoMessage
<1>2. Typed BY DEF ServeInit, Typed, RpcServerAssumption
<1>3. OnceEach BY EmptyQueue DEF ServeInit, OnceEach
<1>4. OnePlace BY DEF ServeInit, OnePlace
<1>5. OwnCopies BY <1>1 DEF ServeInit, OwnCopies
<1>6. OwnReplies BY DEF ServeInit, OwnReplies
<1> QED BY <1>2, <1>3, <1>4, <1>5, <1>6 DEF ServerInv

\* Send puts a message that is nowhere yet into the mailbox.
LEMMA SendStep ==
    ASSUME RpcServerAssumption, ServerInv, NEW m \in Message, Send(m)
    PROVE  ServerInv'
<1> DEFINE new == Len(sent) + 1
<1>1. /\ sent' = Append(sent, m) /\ Len(sent) \in Nat /\ Len(sent) < SentLimit
      /\ UNCHANGED <<server, heap, workers, replies>>
  BY DEF Send, ServerInv, Typed
<1>2. /\ sent' \in Seq(Message) /\ Len(sent') = new
      /\ \A k \in DOMAIN sent : k \in DOMAIN sent' /\ sent'[k] = sent[k]
      /\ DOMAIN sent' = DOMAIN sent \cup {new} /\ DOMAIN sent = 1 .. Len(sent)
  BY <1>1 DEF ServerInv, Typed
<1>3. inbox' = Append(inbox, new) BY <1>2 DEF Send
<1>4. /\ inbox \in Seq(1 .. new) /\ new \in 1 .. new /\ new \notin Range(inbox)
      /\ new \notin DOMAIN sent /\ IsInjective(inbox)
  BY <1>1, <1>2 DEF ServerInv, Typed, OnceEach, Range
<1>5. /\ inbox' \in Seq(1 .. new) /\ Range(inbox') = Range(inbox) \cup {new}
      /\ IsInjective(inbox')
  BY <1>3, <1>4, AppendQueue
<1>6. Typed' BY <1>1, <1>2, <1>5 DEF ServerInv, Typed, RpcServerAssumption
<1>7. OnceEach' BY <1>1, <1>5 DEF ServerInv, OnceEach
<1>8. ~ Worked(new) /\ ~ Answered(new)
  BY <1>4 DEF ServerInv, OwnCopies, OwnReplies, Worked, Answered
<1>9. /\ \A k : Waits(k)' <=> Waits(k) \/ k = new
      /\ \A k : Worked(k)' <=> Worked(k)
      /\ \A k : Answered(k)' <=> Answered(k)
      /\ \A k \in DOMAIN sent : Served(k)' <=> Served(k)
  BY <1>1, <1>2, <1>5 DEF Waits, Worked, Answered, Served
<1>10. OnePlace' BY <1>2, <1>4, <1>8, <1>9 DEF ServerInv, OnePlace
<1>11. OwnCopies' BY <1>1, <1>2 DEF ServerInv, OwnCopies
<1>12. OwnReplies' BY <1>1, <1>2, <1>9 DEF ServerInv, OwnReplies
<1> QED BY <1>6, <1>7, <1>10, <1>11, <1>12 DEF ServerInv

\* What every step but Send leaves of the facts about sent.
LEMMA SentKept ==
    ASSUME ServerInv, UNCHANGED sent
    PROVE  /\ DOMAIN sent = 1 .. Len(sent) /\ Len(sent) \in Nat
           /\ \A k : Served(k)' <=> Served(k)
BY DEF ServerInv, Typed, Served

\* The first message of the mailbox is taken out (recv_msg).
LEMMA HeadTaken ==
    ASSUME ServerInv, UNCHANGED sent, inbox # <<>>, inbox' = Tail(inbox)
    PROVE  /\ Head(inbox) \in DOMAIN sent /\ inbox' \in Seq(1 .. Len(sent)')
           /\ IsInjective(inbox')
           /\ \A k : Waits(k)' <=> Waits(k) /\ k # Head(inbox)
           /\ Waits(Head(inbox)) /\ ~ Worked(Head(inbox)) /\ ~ Answered(Head(inbox))
<1>1. inbox \in Seq(1 .. Len(sent)) /\ IsInjective(inbox)
  BY DEF ServerInv, Typed, OnceEach
<1>2. /\ Tail(inbox) \in Seq(1 .. Len(sent)) /\ Head(inbox) \in 1 .. Len(sent)
      /\ Head(inbox) \in Range(inbox) /\ IsInjective(Tail(inbox))
      /\ Range(Tail(inbox)) = Range(inbox) \ {Head(inbox)}
  BY <1>1, TailQueue
<1>3. Waits(Head(inbox)) BY <1>2 DEF Waits
<1>4. Head(inbox) \in DOMAIN sent BY <1>2, SentKept
<1> QED BY <1>2, <1>3, <1>4 DEF Waits, ServerInv, OnePlace

\* The messages but one.
LEMMA OneLess ==
    ASSUME NEW n \in Nat, NEW h \in 1 .. n
    PROVE  IsFiniteSet((1 .. n) \ {h}) /\ Cardinality((1 .. n) \ {h}) = n - 1
<1>1. 1 \in Int /\ n \in Int /\ n >= 1 OBVIOUS
<1>2. IsFiniteSet(1 .. n) /\ Cardinality(1 .. n) = IF 1 > n THEN 0 ELSE n - 1 + 1
  BY <1>1, FS_Interval
<1>3. Cardinality(1 .. n) = n BY <1>1, <1>2
<1> QED BY <1>2, <1>3, FS_RemoveElement

\* malloc finds a block: every block in use has a message of its own, which is
\* not the one that has just been received.
LEMMA CopyExists ==
    ASSUME RpcServerAssumption, ServerInv, inbox # <<>>
    PROVE  CopyOf \in 1 .. SentLimit /\ CopyOf \notin DOMAIN heap
<1> DEFINE S == 1 .. SentLimit
           T == (1 .. Len(sent)) \ {Head(inbox)}
<1>1. SUFFICES ASSUME S \subseteq DOMAIN heap PROVE FALSE
  BY DEF CopyOf
<1>2. /\ Len(sent) \in Nat /\ Len(sent) <= SentLimit /\ SentLimit \in Nat
      /\ DOMAIN sent = 1 .. Len(sent) /\ inbox \in Seq(1 .. Len(sent)) /\ IsInjective(inbox)
  BY DEF ServerInv, Typed, OnceEach, RpcServerAssumption
<1>3. /\ Head(inbox) \in 1 .. Len(sent) /\ Waits(Head(inbox))
  BY <1>2, TailQueue DEF Waits
<1>4. ASSUME NEW b \in S
      PROVE  \E t \in workers : t.msg = b /\ heap[b] = t.pack /\ t.pack \in T
  <2>1. PICK t \in workers : t.msg = b
    <3>1. b \in DOMAIN heap /\ b # LoopMsg BY <1>1, <1>2 DEF LoopMsg
    <3>2. DOMAIN heap = {LoopMsg} \cup {t.msg : t \in workers} BY DEF ServerInv, OwnCopies
    <3>3. b \in {t.msg : t \in workers} BY <3>1, <3>2
    <3> QED BY <3>3
  <2>2. heap[b] = t.pack /\ t.pack \in DOMAIN sent
    BY <2>1 DEF ServerInv, OwnCopies
  <2>3. t.pack # Head(inbox)
    BY <2>2, <1>3, <1>2 DEF ServerInv, OnePlace, Worked
  <2> QED BY <2>1, <2>2, <2>3, <1>2
<1> DEFINE f == [b \in S |-> heap[b]]
<1>5. f \in [S -> T] BY <1>4
<1>6. IsFiniteSet(S) /\ Cardinality(S) = SentLimit
  BY <1>2, FS_Interval
<1>7. IsFiniteSet(T) /\ Cardinality(T) = Len(sent) - 1
  BY <1>2, <1>3, OneLess
<1>8. Cardinality(T) < Cardinality(S) BY <1>2, <1>3, <1>6, <1>7
<1>9. PICK x, y \in S : x # y /\ f[x] = f[y]
  <2> HIDE DEF f, S, T
  <2> QED BY <1>5, <1>6, <1>7, <1>8, FS_PigeonHole
<1>10. heap[x] = heap[y] BY <1>9
<1>11. PICK t \in workers : t.msg = x /\ heap[x] = t.pack BY <1>4
<1>12. PICK u \in workers : u.msg = y /\ heap[y] = u.pack BY <1>4
<1>13. t = u BY <1>10, <1>11, <1>12 DEF ServerInv, OnceEach
<1> QED BY <1>9, <1>11, <1>12, <1>13

\* The loop takes a message that needs no thread (message_loop).
LEMMA TakeOther ==
    ASSUME RpcServerAssumption, ServerInv, inbox # <<>>, ~ Served(Head(inbox)),
           inbox' = Tail(inbox), heap' = [heap EXCEPT ![LoopMsg] = Head(inbox)],
           UNCHANGED <<server, sent, workers, replies>>
    PROVE  ServerInv'
<1>1. Typed' BY HeadTaken DEF ServerInv, Typed
<1>2. OnceEach' BY HeadTaken DEF ServerInv, OnceEach
<1>3. OnePlace'
  BY HeadTaken, SentKept DEF ServerInv, OnePlace, Worked, Answered
<1>4. OwnCopies' BY HeadTaken, SentKept DEF ServerInv, OwnCopies, LoopMsg
<1>5. OwnReplies' BY SentKept DEF ServerInv, OwnReplies
<1> QED BY <1>1, <1>2, <1>3, <1>4, <1>5 DEF ServerInv

\* A request gets a copy and a thread (deal_rpc_request of a module).
LEMMA GiveThread ==
    ASSUME RpcServerAssumption, ServerInv, server = "module", inbox # <<>>,
           sent[Head(inbox)].rpc, LoopReceives
    PROVE  ServerInv'
<1> DEFINE m == Head(inbox)
           t == [pack |-> m, msg |-> CopyOf]
           received == [heap EXCEPT ![LoopMsg] = m]
<1>1. CopyOf \in 1 .. SentLimit /\ CopyOf \notin DOMAIN heap BY CopyExists
<1>2. /\ workers' = workers \cup {t} /\ UNCHANGED <<server, sent, replies>>
      /\ inbox' = Tail(inbox)
      /\ heap' = [b \in DOMAIN heap \cup {CopyOf} |-> IF b = CopyOf THEN m ELSE received[b]]
  BY DEF LoopReceives
<1>3. /\ m \in DOMAIN sent /\ IsInjective(inbox') /\ ~ Worked(m) /\ ~ Answered(m)
      /\ \A k : Waits(k)' <=> Waits(k) /\ k # m
  BY <1>2, HeadTaken
<1>4. t.pack = m /\ t.msg = CopyOf OBVIOUS
<1> HIDE DEF t
<1>5. /\ \A k : Worked(k)' <=> Worked(k) \/ k = m
      /\ \A k : Answered(k)' <=> Answered(k)
  BY <1>2, <1>4 DEF Worked, Answered
<1>6. Typed' BY <1>2, HeadTaken DEF ServerInv, Typed
<1>7. OnceEach' BY <1>2, <1>3, <1>4 DEF ServerInv, OnceEach, Worked
<1>8. OnePlace' BY <1>2, <1>3, <1>5, SentKept DEF ServerInv, OnePlace
<1>9. OwnCopies'
  <2>1. DOMAIN heap' = DOMAIN heap \cup {CopyOf} BY <1>2
  <2>2. DOMAIN heap = {LoopMsg} \cup {u.msg : u \in workers} BY DEF ServerInv, OwnCopies
  <2>3. DOMAIN heap' = {LoopMsg} \cup {u.msg : u \in workers'} BY <1>2, <1>4, <2>1, <2>2
  <2>4. ASSUME NEW u \in workers
        PROVE  /\ u.pack \in DOMAIN sent /\ sent[u.pack].rpc
               /\ u.msg \in 1 .. SentLimit /\ heap'[u.msg] = u.pack
    <3>1. /\ u.pack \in DOMAIN sent /\ sent[u.pack].rpc /\ u.msg \in DOMAIN heap
          /\ u.msg \in 1 .. SentLimit /\ heap[u.msg] = u.pack
      BY DEF ServerInv, OwnCopies
    <3>2. u.msg # CopyOf /\ u.msg # LoopMsg BY <1>1, <3>1 DEF LoopMsg
    <3> QED BY <1>2, <3>1, <3>2
  <2>5. heap'[CopyOf] = m BY <1>2
  <2>6. heap'[LoopMsg] = m
    <3>1. LoopMsg \in DOMAIN heap /\ LoopMsg # CopyOf BY <1>1, <2>2 DEF LoopMsg
    <3> QED BY <1>2, <3>1
  <2>7. \A u \in workers' : u \in workers \/ u = t BY <1>2
  <2>8. ASSUME NEW u \in workers'
        PROVE  /\ u.pack \in DOMAIN sent' /\ sent'[u.pack].rpc
               /\ u.msg \in 1 .. SentLimit /\ heap'[u.msg] = u.pack
    BY <1>1, <1>2, <1>3, <1>4, <2>4, <2>5, <2>7
  <2>9. heap'[LoopMsg] \in 0 .. Len(sent)' BY <1>2, <1>3, <2>6, SentKept
  <2> QED BY <2>3, <2>8, <2>9 DEF OwnCopies
<1>10. OwnReplies' BY <1>2, SentKept DEF ServerInv, OwnReplies
<1> QED BY <1>6, <1>7, <1>8, <1>9, <1>10 DEF ServerInv

LEMMA ReceiveStep ==
    ASSUME RpcServerAssumption, ServerInv, LoopReceives
    PROVE  ServerInv'
<1>1. server = "module" /\ inbox # <<>> BY DEF LoopReceives
<1>2. CASE sent[Head(inbox)].rpc BY <1>1, <1>2, GiveThread
<1>3. CASE ~ sent[Head(inbox)].rpc
  <2>1. ~ Served(Head(inbox)) BY <1>3 DEF Served
  <2>2. /\ inbox' = Tail(inbox) /\ heap' = [heap EXCEPT ![LoopMsg] = Head(inbox)]
        /\ UNCHANGED <<server, sent, workers, replies>>
    BY <1>3 DEF LoopReceives
  <2> QED BY <1>1, <2>1, <2>2, TakeOther
<1> QED BY <1>2, <1>3
---------------------------------------------------------------------------
\* What __deal_rpc_request__ sends for a request that was read as it came in:
\* one reply where the sizes are right, none where they are not.
LEMMA AnswerSent ==
    ASSUME ServerInv, ReturnsFit, UNCHANGED sent,
           NEW m \in DOMAIN sent, sent[m].rpc, ~ Answered(m),
           NEW out \in Outcomes(m, m), replies' = replies \o out
    PROVE  /\ replies' \in Seq(ReplyRecord)
           /\ \A i, j \in DOMAIN replies' : replies'[i].msg_id = replies'[j].msg_id => i = j
           /\ \A k : Answered(k)' <=> Answered(k) \/ (k = m /\ Served(m))
           /\ OwnReplies'
<1>1. /\ replies \in Seq(ReplyRecord) /\ sent \in Seq(Message)
      /\ DOMAIN sent = 1 .. Len(sent) /\ Len(sent) \in Nat
      /\ \A i, j \in DOMAIN replies : replies[i].msg_id = replies[j].msg_id => i = j
  BY DEF ServerInv, Typed, OnceEach
<1>2. sent[m] \in Message /\ m \in Nat BY <1>1
<1>3. CASE ~ Served(m)
  <2>1. ~ Valid(sent[m]) BY <1>3 DEF Served
  <2>2. out = <<>> BY <2>1 DEF Outcomes
  <2>3. replies' = replies BY <1>1, <2>2
  <2> QED BY <1>1, <1>3, <2>3, SentKept DEF ServerInv, OwnReplies, Answered
<1>4. CASE Served(m)
  <2>1. Valid(sent[m]) /\ ReturnMatches(HeadNode[ListFindProccess(sent[m].func)])
    BY <1>2, <1>4 DEF Served, ReturnsFit
  <2>2. PICK arrived \in BOOLEAN : out = <<Answer(m, m, arrived)>>
    BY <2>1 DEF Outcomes
  <2> DEFINE r == Answer(m, m, arrived)
             last == Len(replies) + 1
  <2>3. /\ r.to = sent[m].source /\ r.func = sent[m].func
        /\ r.msg_id = m /\ r.result = m
    BY DEF Answer
  <2>4. r \in ReplyRecord BY <1>2 DEF Answer, ReplyRecord, Message
  <2> HIDE DEF r
  <2>5. /\ replies' \in Seq(ReplyRecord) /\ DOMAIN replies' = DOMAIN replies \cup {last}
        /\ DOMAIN replies = 1 .. Len(replies) /\ last \notin DOMAIN replies
        /\ replies'[last] = r /\ \A i \in DOMAIN replies : replies'[i] = replies[i]
    BY <1>1, <2>2, <2>4 DEF r
  <2> HIDE DEF last
  <2>6. \A i \in DOMAIN replies : replies[i].msg_id # m BY DEF Answered
  <2>7. \A k : Answered(k)' <=> Answered(k) \/ k = m BY <2>3, <2>5 DEF Answered
  <2>8. \A i, j \in DOMAIN replies' : replies'[i].msg_id = replies'[j].msg_id => i = j
    BY <1>1, <2>3, <2>5, <2>6
  <2>9. OwnReplies'
    <3>1. ASSUME NEW n \in DOMAIN replies
          PROVE  /\ replies[n].msg_id \in DOMAIN sent /\ Served(replies[n].msg_id)'
                 /\ replies[n].to = sent[replies[n].msg_id].source
                 /\ replies[n].func = sent[replies[n].msg_id].func
                 /\ replies[n].result = replies[n].msg_id
      BY SentKept DEF ServerInv, OwnReplies
    <3>2. Served(m)' BY <1>4, SentKept
    <3> QED BY <2>3, <2>5, <3>1, <3>2 DEF OwnReplies
  <2> QED BY <1>4, <2>5, <2>7, <2>8, <2>9
<1> QED BY <1>3, <1>4

\* A thread answers what it was created for, and frees its copy
\* (__deal_rpc_request).
LEMMA AnswerStep ==
    ASSUME RpcServerAssumption, ServerInv, ReturnsFit, NEW t \in workers, ThreadAnswers(t)
    PROVE  ServerInv'
<1> DEFINE m == t.pack
<1>1. /\ m \in DOMAIN sent /\ sent[m].rpc /\ heap[t.msg] = m
      /\ t.msg \in 1 .. SentLimit /\ t.msg # LoopMsg /\ t.msg \in DOMAIN heap
  BY DEF ServerInv, OwnCopies, LoopMsg
<1>2. ~ Answered(m) /\ ~ Waits(m) BY <1>1 DEF ServerInv, OnePlace, Worked
<1>3. PICK out \in Outcomes(m, m) : replies' = replies \o out
  BY <1>1 DEF ThreadAnswers
<1>4. /\ workers' = workers \ {t} /\ UNCHANGED <<server, sent, inbox>>
      /\ heap' = [b \in DOMAIN heap \ {t.msg} |-> heap[b]]
  BY <1>1 DEF ThreadAnswers, Restrict
<1>5. /\ replies' \in Seq(ReplyRecord)
      /\ \A i, j \in DOMAIN replies' : replies'[i].msg_id = replies'[j].msg_id => i = j
      /\ \A k : Answered(k)' <=> Answered(k) \/ (k = m /\ Served(m))
      /\ OwnReplies'
  BY <1>1, <1>2, <1>3, <1>4, AnswerSent
<1>6. \A u, w \in workers : u.pack = w.pack => u = w BY DEF ServerInv, OnceEach
<1>7. /\ \A k : Worked(k)' <=> Worked(k) /\ k # m
      /\ \A k : Waits(k)' <=> Waits(k)
  BY <1>4, <1>6 DEF Worked, Waits
<1>8. Typed' BY <1>4, <1>5 DEF ServerInv, Typed
<1>9. OnceEach' BY <1>4, <1>5 DEF ServerInv, OnceEach
<1>10. OnePlace' BY <1>2, <1>4, <1>5, <1>7, SentKept DEF ServerInv, OnePlace
<1>11. OwnCopies'
  <2>1. DOMAIN heap = {LoopMsg} \cup {u.msg : u \in workers} BY DEF ServerInv, OwnCopies
  <2>2. ASSUME NEW u \in workers, u # t
        PROVE  /\ u.pack \in DOMAIN sent /\ sent[u.pack].rpc
               /\ u.msg \in 1 .. SentLimit /\ heap'[u.msg] = u.pack /\ u.msg # t.msg
    <3>1. /\ u.pack \in DOMAIN sent /\ sent[u.pack].rpc /\ u.msg \in DOMAIN heap
          /\ u.msg \in 1 .. SentLimit /\ heap[u.msg] = u.pack
      BY DEF ServerInv, OwnCopies
    <3>2. u.msg # t.msg BY <1>1, <1>6, <2>2, <3>1
    <3> QED BY <1>4, <3>1, <3>2
  <2>3. DOMAIN heap' = DOMAIN heap \ {t.msg} BY <1>4
  <2>4. DOMAIN heap' = {LoopMsg} \cup {u.msg : u \in workers'}
    BY <1>1, <1>4, <2>1, <2>2, <2>3
  <2>5. heap'[LoopMsg] = heap[LoopMsg] BY <1>1, <1>4, <2>1
  <2>6. heap'[LoopMsg] \in 0 .. Len(sent)' BY <1>4, <2>5 DEF ServerInv, OwnCopies
  <2> QED BY <1>4, <2>2, <2>4, <2>6 DEF OwnCopies
<1> QED BY <1>5, <1>8, <1>9, <1>10, <1>11 DEF ServerInv

\* sys_task answers a request itself, before it receives the next one.
LEMMA SysTaskStep ==
    ASSUME RpcServerAssumption, ServerInv, ReturnsFit, SysTaskAnswers
    PROVE  ServerInv'
<1> DEFINE m == Head(inbox)
<1>1. /\ inbox # <<>> /\ inbox' = Tail(inbox) /\ heap' = [heap EXCEPT ![LoopMsg] = m]
      /\ UNCHANGED <<server, sent, workers>>
  BY DEF SysTaskAnswers
<1>2. /\ m \in DOMAIN sent /\ IsInjective(inbox') /\ ~ Worked(m) /\ ~ Answered(m)
      /\ \A k : Waits(k)' <=> Waits(k) /\ k # m
  BY <1>1, HeadTaken
<1>3. CASE ~ sent[m].rpc
  <2>1. UNCHANGED replies BY <1>3 DEF SysTaskAnswers
  <2>2. ~ Served(m) BY <1>3 DEF Served
  <2> QED BY <1>1, <2>1, <2>2, TakeOther
<1>4. CASE sent[m].rpc
  <2>1. PICK out \in Outcomes(m, m) : replies' = replies \o out
    BY <1>4 DEF SysTaskAnswers
  <2>2. /\ replies' \in Seq(ReplyRecord)
        /\ \A i, j \in DOMAIN replies' : replies'[i].msg_id = replies'[j].msg_id => i = j
        /\ \A k : Answered(k)' <=> Answered(k) \/ (k = m /\ Served(m))
        /\ OwnReplies'
    BY <1>1, <1>2, <1>4, <2>1, AnswerSent
  <2>3. Typed' BY <1>1, <2>2, HeadTaken DEF ServerInv, Typed
  <2>4. OnceEach' BY <1>1, <1>2, <2>2 DEF ServerInv, OnceEach
  <2>5. \A k : Worked(k)' <=> Worked(k) BY <1>1 DEF Worked
  <2>6. OnePlace' BY <1>1, <1>2, <2>2, <2>5, SentKept DEF ServerInv, OnePlace
  <2>7. OwnCopies' BY <1>1, <1>2, SentKept DEF ServerInv, OwnCopies, LoopMsg
  <2> QED BY <2>2, <2>3, <2>4, <2>6, <2>7 DEF ServerInv
<1> QED BY <1>3, <1>4
---------------------------------------------------------------------------
\* Whatever is received and answered in between, a message is at one place, a
\* thread reads the copy that was made for it, and a reply is its message's own.
\* (message_loop, deal_rpc_request, __deal_rpc_request__, sys_task)
THEOREM ServerInvariant ==
    ASSUME RpcServerAssumption, ReturnsFit
    PROVE  ServeSpec => []ServerInv
<1>1. ASSUME ServerInv, [ServeNext]_serveVars PROVE ServerInv'
  <2>1. CASE \E m \in Message : Send(m) BY <1>1, <2>1, SendStep
  <2>2. CASE LoopReceives BY <1>1, <2>2, ReceiveStep
  <2>3. CASE SysTaskAnswers BY <1>1, <2>3, SysTaskStep
  <2>4. CASE \E t \in workers : ThreadAnswers(t) BY <1>1, <2>4, AnswerStep
  <2>5. CASE UNCHANGED serveVars
    BY <1>1, <2>5, SentKept DEF serveVars, ServerInv, Typed, OnceEach, OnePlace, OwnCopies,
       OwnReplies, Waits, Worked, Answered
  <2> QED BY <1>1, <2>1, <2>2, <2>3, <2>4, <2>5 DEF ServeNext
<1> QED BY <1>1, InitServer, PTL DEF ServeSpec

\* The fields keep their types: the copies hold messages that were sent.
\* (message_loop, deal_rpc_request)
THEOREM ServerTypeCorrect ==
    ASSUME RpcServerAssumption, ReturnsFit
    PROVE  ServeSpec => []RpcServerTypeOK
<1>1. ServerInv => RpcServerTypeOK
  <2> SUFFICES ASSUME ServerInv PROVE RpcServerTypeOK OBVIOUS
  <2>1. DOMAIN sent = 1 .. Len(sent) BY SentKept DEF ServerInv, Typed
  <2>2. \A t \in workers : t.pack \in 1 .. Len(sent) /\ t.msg \in DOMAIN heap
    BY <2>1 DEF ServerInv, OwnCopies
  <2>3. ASSUME NEW b \in DOMAIN heap PROVE heap[b] \in 0 .. Len(sent)
    <3>1. CASE b = LoopMsg BY <3>1 DEF ServerInv, OwnCopies
    <3>2. CASE b # LoopMsg
      <4>1. PICK t \in workers : t.msg = b BY <3>2 DEF ServerInv, OwnCopies
      <4>2. heap[b] = t.pack /\ t.pack \in 1 .. Len(sent)
        BY <2>1, <4>1 DEF ServerInv, OwnCopies
      <4>3. Len(sent) \in Nat BY DEF ServerInv, Typed
      <4> QED BY <4>2, <4>3
    <3> QED BY <3>1, <3>2
  <2> QED BY <2>2, <2>3 DEF ServerInv, Typed, RpcServerTypeOK
<1> QED BY <1>1, ServerInvariant, PTL

\* A set of which any two elements are the same has at most one.
LEMMA AtMostOne ==
    ASSUME NEW S, \A x, y \in S : x = y
    PROVE  Cardinality(S) = IF S = {} THEN 0 ELSE 1
<1>1. CASE S = {} BY <1>1, FS_EmptySet
<1>2. CASE S # {}
  <2>1. PICK x \in S : TRUE BY <1>2
  <2>2. S = {x} BY <2>1
  <2> QED BY <1>2, <2>2, FS_Singleton
<1> QED BY <1>1, <1>2

\* Every request whose sizes are right is in the mailbox, with one thread, or has
\* been answered, once, to its caller and from its own arguments; nothing else
\* is answered.  (message_loop, deal_rpc_request, __deal_rpc_request__, sys_task)
THEOREM AnswersCorrect ==
    ASSUME RpcServerAssumption, ReturnsFit
    PROVE  ServeSpec => []AnswersItsCaller
<1>1. ServerInv => AnswersItsCaller
  <2> SUFFICES ASSUME ServerInv, NEW m \in DOMAIN sent
               PROVE  LET there == IF \E n \in DOMAIN inbox : inbox[n] = m THEN 1 ELSE 0
                      IN  /\ \A n \in RepliesTo(m) : /\ replies[n].to = sent[m].source
                                                    /\ replies[n].func = sent[m].func
                                                    /\ replies[n].result = m
                          /\ there + Cardinality(WorkOn(m)) + Cardinality(RepliesTo(m)) <= 1
                          /\ sent[m].rpc /\ Valid(sent[m]) =>
                                 there + Cardinality(WorkOn(m)) + Cardinality(RepliesTo(m)) = 1
                          /\ ~(sent[m].rpc /\ Valid(sent[m])) => RepliesTo(m) = {}
    BY DEF AnswersItsCaller
  <2> DEFINE there == IF \E n \in DOMAIN inbox : inbox[n] = m THEN 1 ELSE 0
  <2>1. there = IF Waits(m) THEN 1 ELSE 0 BY DEF Waits, Range
  <2>2. Cardinality(WorkOn(m)) = IF Worked(m) THEN 1 ELSE 0
    <3>1. \A t, u \in WorkOn(m) : t = u BY DEF ServerInv, OnceEach, WorkOn
    <3>2. WorkOn(m) = {} <=> ~ Worked(m) BY DEF WorkOn, Worked
    <3> QED BY <3>1, <3>2, AtMostOne
  <2>3. Cardinality(RepliesTo(m)) = IF Answered(m) THEN 1 ELSE 0
    <3>1. \A i, j \in RepliesTo(m) : i = j BY DEF ServerInv, OnceEach, RepliesTo
    <3>2. RepliesTo(m) = {} <=> ~ Answered(m) BY DEF RepliesTo, Answered
    <3> QED BY <3>1, <3>2, AtMostOne
  <2>4. \A n \in RepliesTo(m) : /\ replies[n].to = sent[m].source
                               /\ replies[n].func = sent[m].func
                               /\ replies[n].result = m /\ Served(m)
    BY DEF ServerInv, OwnReplies, RepliesTo
  <2>5. /\ ~ (Waits(m) /\ Worked(m)) /\ ~ (Waits(m) /\ Answered(m))
        /\ ~ (Worked(m) /\ Answered(m))
        /\ Served(m) => Waits(m) \/ Worked(m) \/ Answered(m)
    BY DEF ServerInv, OnePlace
  <2> HIDE DEF there
  <2>6. there + Cardinality(WorkOn(m)) + Cardinality(RepliesTo(m)) <= 1
    BY <2>1, <2>2, <2>3, <2>5
  <2>7. Served(m) => there + Cardinality(WorkOn(m)) + Cardinality(RepliesTo(m)) = 1
    BY <2>1, <2>2, <2>3, <2>5
  <2>8. ~ Served(m) => RepliesTo(m) = {} BY <2>4
  <2> QED BY <2>4, <2>6, <2>7, <2>8 DEF Served, there
<1> QED BY <1>1, ServerInvariant, PTL
---------------------------------------------------------------------------
(* The caller. *)

USE RpcAssumption DEF None, CallIds

\* A node belongs to a call that was made, and no two have the same msgid.
NodesDistinct ==
    /\ \A i \in DOMAIN nodes : /\ nodes[i].call \in DOMAIN calls
                               /\ nodes[i].id = calls[nodes[i].call].id
    /\ \A i, j \in DOMAIN nodes : nodes[i].id = nodes[j].id => i = j

\* A call without its reply yet is in the list, and is asked or answered once.
OpenListed ==
    /\ \A k \in requests \cup Range(mail) :
          /\ k \in DOMAIN calls
          /\ calls[k].data = None
          /\ \E i \in DOMAIN nodes : nodes[i].call = k
    /\ requests \cap Range(mail) = {}
    /\ IsInjective(mail)

\* A call has its own reply, if any.
OwnReply ==
    \A k \in DOMAIN calls : /\ calls[k].data \in {None, k}
                            /\ calls[k].done => calls[k].data = k
                            /\ calls[k].kept => calls[k].got = k

RpcInv ==
    /\ RpcTypeOK
    /\ calls # <<>> => result_sz \in Sizes
    /\ Len(calls) <= CallLimit
    /\ NodesDistinct /\ OpenListed /\ OwnReply

\* It holds until two calls share a msgid.
RpcInvUntilClash == clash \/ RpcInv
---------------------------------------------------------------------------
(* The operators of the list. *)

\* get_signal finds the node with a msgid.
LEMMA SignalFound ==
    ASSUME RpcTypeOK, NodesDistinct, NEW i \in DOMAIN nodes, NEW id, id = nodes[i].id
    PROVE  GetSignal(nodes, id) = i
<1>1. DOMAIN nodes = 1 .. Len(nodes) /\ Len(nodes) \in Nat
    BY LenProperties DEF RpcTypeOK
<1>2. {j \in 1 .. Len(nodes) : nodes[j].id = id} = {i}
    BY <1>1 DEF NodesDistinct
<1>3. Min({i}) = i  BY <1>1 DEF Min
<1> QED BY <1>2, <1>3 DEF GetSignal, SelectInSeq

\* Taking the second element out of a list.
LEMMA RemoveSecond ==
    ASSUME NEW S, NEW s \in Seq(S), Len(s) > 1
    PROVE  /\ RemoveAt(s, 2) \in Seq(S)
           /\ Len(RemoveAt(s, 2)) = Len(s) - 1
           /\ \A i \in 1 .. Len(s) - 1 :
                 RemoveAt(s, 2)[i] = IF i = 1 THEN s[1] ELSE s[i + 1]
<1> DEFINE a == SubSeq(s, 1, 1)
           b == SubSeq(s, 3, Len(s))
<1>0. PICK m \in Nat : m = Len(s) /\ m > 1  BY LenProperties
<1>1. \A i \in 1 .. m : s[i] \in S  BY <1>0, ElementOfSeq
<1>2. a \in Seq(S) /\ Len(a) = 1 /\ a[1] = s[1]
    BY <1>0, <1>1, SubSeqProperties
<1>3. /\ b \in Seq(S) /\ Len(b) = m - 2
      /\ \A i \in 1 .. m - 2 : b[i] = s[i + 2]
    <2>1. \A i \in 3 .. m : s[i] \in S  BY <1>1
    <2>2. /\ SubSeq(s, 3, m) \in Seq(S)
          /\ Len(SubSeq(s, 3, m)) = IF 3 <= m THEN m - 3 + 1 ELSE 0
          /\ \A i \in 1 .. m - 3 + 1 : SubSeq(s, 3, m)[i] = s[3 + i - 1]
        BY <2>1, SubSeqProperties
    <2> QED BY <1>0, <2>2
<1>4. RemoveAt(s, 2) = a \o b  BY DEF RemoveAt
<1> HIDE DEF a, b
<1>5. /\ a \o b \in Seq(S) /\ Len(a \o b) = Len(a) + Len(b)
      /\ \A i \in 1 .. Len(a) + Len(b) : (a \o b)[i] = IF i <= Len(a) THEN a[i] ELSE b[i - Len(a)]
    BY <1>2, <1>3, ConcatProperties
<1>6. Len(a \o b) = m - 1  BY <1>2, <1>3, <1>5
<1>7. ASSUME NEW i \in 1 .. m - 1
      PROVE  (a \o b)[i] = IF i = 1 THEN s[1] ELSE s[i + 1]
    <2>1. (a \o b)[i] = IF i <= 1 THEN a[i] ELSE b[i - 1]
        BY <1>2, <1>3, <1>5
    <2>2. CASE i = 1  BY <1>2, <2>1, <2>2
    <2>3. CASE i # 1
        <3>1. i - 1 \in 1 .. m - 2 /\ (i - 1) + 2 = i + 1 /\ ~(i <= 1)
            BY <2>3
        <3> QED BY <1>3, <2>1, <2>3, <3>1
    <2> QED BY <2>2, <2>3
<1> QED BY <1>0, <1>4, <1>5, <1>6, <1>7

\* remove_rpc_result takes out at most the node of the call that is answered.
LEMMA RemoveKeeps ==
    ASSUME RpcTypeOK, NodesDistinct, NEW id
    PROVE  LET list == RemoveRpcResult(nodes, id)
           IN  /\ list \in Seq(Node)
               /\ \A i \in DOMAIN list : \E j \in DOMAIN nodes : list[i] = nodes[j]
               /\ \A i, j \in DOMAIN list : list[i].id = list[j].id => i = j
               /\ \A j \in DOMAIN nodes :
                     nodes[j].id # id => \E i \in DOMAIN list : list[i] = nodes[j]
<1> DEFINE list == RemoveRpcResult(nodes, id)
<1>1. nodes \in Seq(Node) /\ DOMAIN nodes = 1 .. Len(nodes) /\ Len(nodes) \in Nat
    BY LenProperties DEF RpcTypeOK
<1>2. CASE Len(nodes) > 1 /\ nodes[2].id = id
    <2>1. list = RemoveAt(nodes, 2)  BY <1>2 DEF RemoveRpcResult
    <2> HIDE DEF list
    <2>2. /\ list \in Seq(Node) /\ Len(list) = Len(nodes) - 1
          /\ \A i \in 1 .. Len(nodes) - 1 : list[i] = IF i = 1 THEN nodes[1] ELSE nodes[i + 1]
        BY <1>1, <1>2, <2>1, RemoveSecond
    <2>3. DOMAIN list = 1 .. Len(nodes) - 1  BY <2>2, LenProperties
    <2>4. \A i \in DOMAIN list : \E j \in DOMAIN nodes : list[i] = nodes[j]
        <3>1. ASSUME NEW i \in DOMAIN list
              PROVE  (IF i = 1 THEN 1 ELSE i + 1) \in DOMAIN nodes
            BY <1>1, <2>3
        <3> QED BY <2>2, <2>3, <3>1, <1>1
    <2>5. \A i, j \in DOMAIN list : list[i].id = list[j].id => i = j
        <3>1. ASSUME NEW i \in DOMAIN list, NEW j \in DOMAIN list,
                     list[i].id = list[j].id
              PROVE  i = j
            <4> DEFINE x == IF i = 1 THEN 1 ELSE i + 1
                       y == IF j = 1 THEN 1 ELSE j + 1
            <4>1. x \in DOMAIN nodes /\ y \in DOMAIN nodes  BY <1>1, <2>3
            <4>2. list[i] = nodes[x] /\ list[j] = nodes[y]  BY <2>2, <2>3
            <4>3. x = y  BY <3>1, <4>1, <4>2 DEF NodesDistinct
            <4> QED BY <4>3, <2>3, <1>1
        <3> QED BY <3>1
    <2>6. ASSUME NEW j \in DOMAIN nodes, nodes[j].id # id
          PROVE  \E i \in DOMAIN list : list[i] = nodes[j]
        <3>1. j # 2  BY <1>2, <2>6
        <3>2. CASE j = 1  BY <1>1, <1>2, <2>2, <2>3, <3>2
        <3>3. CASE j > 2
            <4>1. j - 1 \in DOMAIN list /\ list[j - 1] = nodes[j]
                BY <1>1, <2>2, <2>3, <3>3
            <4> QED BY <4>1
        <3> QED BY <1>1, <3>1, <3>2, <3>3
    <2> QED BY <2>2, <2>4, <2>5, <2>6 DEF list
<1>3. CASE ~(Len(nodes) > 1 /\ nodes[2].id = id)
    <2>1. list = nodes  BY <1>3 DEF RemoveRpcResult
    <2> QED BY <1>1, <2>1 DEF NodesDistinct
<1> QED BY <1>2, <1>3

\* A reply to a call that is open leads to its node.
LEMMA OpenFound ==
    ASSUME RpcInv, NEW k \in requests \cup Range(mail)
    PROVE  LET n == GetSignal(nodes, calls[k].id)
           IN  n # 0 /\ n \in DOMAIN nodes /\ nodes[n].call = k
<1>1. k \in DOMAIN calls /\ \E i \in DOMAIN nodes : nodes[i].call = k
    BY DEF RpcInv, OpenListed
<1>2. PICK i \in DOMAIN nodes : nodes[i].call = k  BY <1>1
<1>3. calls[k].id = nodes[i].id  BY <1>2 DEF RpcInv, NodesDistinct
<1>4. GetSignal(nodes, calls[k].id) = i  BY <1>3, SignalFound DEF RpcInv
<1>5. i # 0  BY LenProperties DEF RpcInv, RpcTypeOK
<1> QED BY <1>2, <1>4, <1>5
---------------------------------------------------------------------------
(* The steps. *)

\* The sequences of the state as functions.
LEMMA Domains ==
    ASSUME RpcTypeOK
    PROVE  /\ DOMAIN calls = 1 .. Len(calls) /\ Len(calls) \in Nat
           /\ DOMAIN nodes = 1 .. Len(nodes) /\ Len(nodes) \in Nat
           /\ \A k \in DOMAIN calls : calls[k] \in Call
           /\ \A i \in DOMAIN nodes : nodes[i] \in Node
BY LenProperties, ElementOfSeq DEF RpcTypeOK

\* What changes one call leaves the others as they are.
LEMMA UpdateCall ==
    ASSUME RpcTypeOK, NEW k \in DOMAIN calls, NEW n \in Call,
           calls' = [calls EXCEPT ![k] = n]
    PROVE  /\ calls' \in Seq(Call) /\ Len(calls') = Len(calls)
           /\ DOMAIN calls' = DOMAIN calls /\ (calls' # <<>> => calls # <<>>)
           /\ calls'[k] = n
           /\ \A j \in DOMAIN calls : j # k => calls'[j] = calls[j]
<1>1. DOMAIN calls = 1 .. Len(calls) /\ Len(calls) \in Nat /\ calls \in Seq(Call)
    BY Domains DEF RpcTypeOK
<1>2. calls' \in Seq(Call) /\ Len(calls') = Len(calls)  BY <1>1, ExceptSeq
<1>3. calls # <<>>  BY <1>1, EmptySeq
<1> QED BY <1>1, <1>2, <1>3

\* What a call adds to the calls.
LEMMA CallAdded ==
    ASSUME RpcInv, NEW c \in Callers, NEW size \in Sizes, StartCall(c, size)
    PROVE  \E m \in Nat, new \in Call :
              /\ m = Len(calls) /\ m < CallLimit /\ DOMAIN calls = 1 .. m
              /\ new.id = msgid /\ new.data = None /\ new.done = FALSE /\ new.kept = FALSE
              /\ calls' \in Seq(Call) /\ Len(calls') = m + 1 /\ DOMAIN calls' = 1 .. m + 1
              /\ \A j \in 1 .. m : calls'[j] = calls[j]
              /\ calls'[m + 1] = new
              /\ result_sz' \in Sizes
              /\ nodes' = SetRpcResult(nodes, [id |-> msgid, call |-> m + 1])
              /\ requests' \in {requests, requests \cup {m + 1}}
<1> DEFINE buf == IF size > result_sz THEN size ELSE result_sz
           new == [caller |-> c, id |-> msgid, buf |-> buf,
                   data |-> None, got |-> None, kept |-> FALSE, done |-> FALSE]
<1>0. RpcTypeOK /\ Len(calls) <= CallLimit  BY DEF RpcInv
<1>1. PICK m \in Nat : m = Len(calls)  BY <1>0, Domains
<1>2. DOMAIN calls = 1 .. m /\ m < CallLimit
    BY <1>0, <1>1, Domains DEF StartCall
<1>3. msgid \in 0 .. MsgIds - 1 /\ buf \in Sizes  BY <1>0 DEF RpcTypeOK
<1>4. new \in Call  BY <1>3 DEF Call
<1>5. calls' = Append(calls, new) /\ result_sz' = buf  BY DEF StartCall
<1>6. new.id = msgid /\ new.data = None /\ new.done = FALSE /\ new.kept = FALSE  OBVIOUS
<1>7. /\ nodes' = SetRpcResult(nodes, [id |-> msgid, call |-> m + 1])
      /\ requests' \in {requests, requests \cup {m + 1}}
    BY <1>1 DEF StartCall
<1> HIDE DEF new, buf
<1>8. /\ calls' \in Seq(Call) /\ Len(calls') = m + 1
      /\ \A j \in 1 .. m : calls'[j] = calls[j]
      /\ calls'[m + 1] = new
    BY <1>0, <1>1, <1>4, <1>5, AppendProperties DEF RpcTypeOK
<1>9. DOMAIN calls' = 1 .. m + 1  BY <1>8, LenProperties
<1> QED BY <1>1, <1>2, <1>3, <1>4, <1>5, <1>6, <1>7, <1>8, <1>9

\* A call gets the next msgid and the node for it: a new one at the end, or that
\* which the first call has left, if it is the only one and has this msgid.
LEMMA StartStep ==
    ASSUME RpcInv, ~clash', NEW c \in Callers, NEW size \in Sizes, StartCall(c, size)
    PROVE  RpcInv'
<1>0. RpcTypeOK /\ NodesDistinct /\ OpenListed /\ OwnReply  BY DEF RpcInv
<1>1. PICK m \in Nat, new \in Call :
              /\ m = Len(calls) /\ m < CallLimit /\ DOMAIN calls = 1 .. m
              /\ new.id = msgid /\ new.data = None /\ new.done = FALSE /\ new.kept = FALSE
              /\ calls' \in Seq(Call) /\ Len(calls') = m + 1 /\ DOMAIN calls' = 1 .. m + 1
              /\ \A j \in 1 .. m : calls'[j] = calls[j]
              /\ calls'[m + 1] = new
              /\ result_sz' \in Sizes
              /\ nodes' = SetRpcResult(nodes, [id |-> msgid, call |-> m + 1])
              /\ requests' \in {requests, requests \cup {m + 1}}
    BY CallAdded
<1> DEFINE node == [id |-> msgid, call |-> m + 1]
<1>2. /\ msgid' \in 0 .. MsgIds - 1 /\ clash' \in BOOLEAN
      /\ mail' = mail /\ contents' = contents /\ hung' = hung
    BY <1>0 DEF StartCall, NextMsgId, RpcTypeOK, Clashes
<1>3. ~Clashes(msgid)  BY DEF StartCall
<1>4. node \in Node /\ node.id = msgid /\ node.call = m + 1
    BY <1>0, <1>1 DEF Node, RpcTypeOK
<1>5. PICK l \in Nat : l = Len(nodes) /\ DOMAIN nodes = 1 .. l  BY <1>0, Domains
<1>6. \A i \in 1 .. l : /\ nodes[i] \in Node /\ nodes[i].call \in 1 .. m
                        /\ nodes[i].id = calls'[nodes[i].call].id
    BY <1>0, <1>1, <1>5, Domains DEF NodesDistinct
<1> HIDE DEF node
<1>7. \A k \in requests \cup Range(mail) :
         /\ k \in 1 .. m /\ calls[k].data = None /\ \E i \in 1 .. l : nodes[i].call = k
    BY <1>0, <1>1, <1>5 DEF OpenListed
<1>8. OwnReply'  BY <1>0, <1>1 DEF OwnReply
<1>9. requests' \subseteq CallIds  BY <1>0, <1>1 DEF RpcTypeOK
<1>10. nodes' \in Seq(Node) /\ NodesDistinct' /\ (\E i \in DOMAIN nodes' : nodes'[i].call = m + 1)
       /\ \A k \in requests \cup Range(mail) : \E i \in DOMAIN nodes' : nodes'[i].call = k
    <2>1. CASE nodes = <<>> \/ Last(nodes).id # msgid
        <3>1. nodes' = Append(nodes, node)  BY <1>1, <2>1, <1>4 DEF SetRpcResult, node
        <3>2. /\ nodes' \in Seq(Node) /\ DOMAIN nodes' = 1 .. l + 1
              /\ \A i \in 1 .. l : nodes'[i] = nodes[i]
              /\ nodes'[l + 1] = node
            <4>1. /\ nodes' \in Seq(Node) /\ Len(nodes') = l + 1
                  /\ \A i \in 1 .. l : nodes'[i] = nodes[i]
                  /\ nodes'[l + 1] = node
                BY <1>0, <1>5, <1>4, <3>1, AppendProperties DEF RpcTypeOK
            <4> QED BY <4>1, LenProperties
        <3>3. \A i \in 1 .. l : nodes[i].id # msgid
            <4>1. SUFFICES ASSUME NEW i \in 1 .. l, nodes[i].id = msgid PROVE FALSE
                OBVIOUS
            <4>2. l = 1  BY <1>3, <1>5, <4>1 DEF Clashes
            <4>3. nodes # <<>> /\ Last(nodes) = nodes[1]
                <5>1. Len(nodes) = 1  BY <1>5, <4>2
                <5>2. nodes # <<>>  BY <5>1, SMTT(20)
                <5> QED BY <5>1, <5>2 DEF Last
            <4> QED BY <2>1, <4>1, <4>2, <4>3
        <3>4. \A i \in 1 .. l + 1 : /\ nodes'[i].call \in 1 .. m + 1
                                    /\ nodes'[i].id = calls'[nodes'[i].call].id
            <4>1. SUFFICES ASSUME NEW i \in 1 .. l + 1
                           PROVE  /\ nodes'[i].call \in 1 .. m + 1
                                  /\ nodes'[i].id = calls'[nodes'[i].call].id
                OBVIOUS
            <4>2. CASE i \in 1 .. l  BY <1>6, <3>2, <4>2
            <4>3. CASE i = l + 1  BY <1>1, <1>4, <3>2, <4>3
            <4> QED BY <4>2, <4>3
        <3>5. \A i, j \in 1 .. l + 1 : nodes'[i].id = nodes'[j].id => i = j
            <4>1. SUFFICES ASSUME NEW i \in 1 .. l + 1, NEW j \in 1 .. l + 1,
                                  nodes'[i].id = nodes'[j].id
                           PROVE  i = j
                OBVIOUS
            <4>2. CASE i \in 1 .. l /\ j \in 1 .. l
                BY <1>0, <1>5, <3>2, <4>1, <4>2 DEF NodesDistinct
            <4>3. CASE i = l + 1 /\ j \in 1 .. l  BY <1>4, <3>2, <3>3, <4>1, <4>3
            <4>4. CASE i \in 1 .. l /\ j = l + 1  BY <1>4, <3>2, <3>3, <4>1, <4>4
            <4> QED BY <4>2, <4>3, <4>4
        <3>6. NodesDistinct'
            <4>1. DOMAIN nodes' = 1 .. l + 1 /\ DOMAIN calls' = 1 .. m + 1  BY <1>1, <3>2
            <4> QED BY <3>4, <3>5, <4>1, Zenon DEF NodesDistinct
        <3>7. \E i \in DOMAIN nodes' : nodes'[i].call = m + 1  BY <1>4, <3>2
        <3>8. \A k \in requests \cup Range(mail) : \E i \in DOMAIN nodes' : nodes'[i].call = k
            BY <1>7, <3>2
        <3> QED BY <3>2, <3>6, <3>7, <3>8
    <2>2. CASE ~(nodes = <<>> \/ Last(nodes).id # msgid)
        <3>1. nodes # <<>> /\ Last(nodes) = nodes[l]  BY <1>5, <2>2 DEF Last
        <3>2. l >= 1  BY <1>0, <1>5, <3>1, EmptySeq DEF RpcTypeOK
        <3>3. Len(nodes) = 1 /\ calls[nodes[1].call].done
            BY <1>3, <1>5, <2>2, <3>1, <3>2 DEF Clashes
        <3>4. nodes' = [nodes EXCEPT ![1].call = m + 1]
            BY <1>1, <2>2 DEF SetRpcResult
        <3> DEFINE new1 == [nodes[1] EXCEPT !.call = m + 1]
        <3>5. nodes' = [nodes EXCEPT ![1] = new1]  BY <3>4
        <3>6. nodes[1] \in Node /\ nodes[1].id = msgid  BY <1>5, <1>6, <2>2, <3>1, <3>3
        <3>7. new1 \in Node /\ new1.id = msgid /\ new1.call = m + 1
            BY <1>1, <3>6, SMTT(20) DEF Node
        <3> HIDE DEF new1
        <3>8. /\ nodes' \in Seq(Node) /\ DOMAIN nodes' = {1} /\ nodes'[1] = new1
            <4>1. nodes \in Seq(Node) /\ 1 \in 1 .. Len(nodes)  BY <1>0, <3>3 DEF RpcTypeOK
            <4>2. nodes' \in Seq(Node)  BY <3>5, <3>7, <4>1, ExceptSeq
            <4>3. DOMAIN nodes = {1}  BY <1>5, <3>3
            <4> QED BY <3>5, <4>2, <4>3
        <3>9. NodesDistinct'  BY <1>1, <3>7, <3>8 DEF NodesDistinct
        <3>10. requests \cup Range(mail) = {}
            <4>1. SUFFICES ASSUME NEW k \in requests \cup Range(mail) PROVE FALSE  OBVIOUS
            <4>2. k \in 1 .. m /\ calls[k].data = None /\ nodes[1].call = k
                BY <1>5, <1>7, <3>3
            <4>3. calls[k].data = k  BY <1>0, <1>1, <3>3, <4>2 DEF OwnReply
            <4> QED BY <4>2, <4>3
        <3> QED BY <3>7, <3>8, <3>9, <3>10
    <2> QED BY <2>1, <2>2
<1>11. RpcTypeOK'  BY <1>0, <1>1, <1>2, <1>9, <1>10 DEF RpcTypeOK
<1>12. OpenListed'
    <2>1. \A k \in requests \cup Range(mail) : k \in DOMAIN calls' /\ calls'[k].data = None
        BY <1>1, <1>7
    <2>2. m + 1 \in DOMAIN calls' /\ calls'[m + 1].data = None  BY <1>1
    <2>3. requests' \cap Range(mail) = {}  BY <1>0, <1>1, <1>7 DEF OpenListed
    <2>4. \A k \in requests' \cup Range(mail) :
             /\ k \in DOMAIN calls' /\ calls'[k].data = None
             /\ \E i \in DOMAIN nodes' : nodes'[i].call = k
        <3> SUFFICES ASSUME NEW k \in requests' \cup Range(mail)
                     PROVE  /\ k \in DOMAIN calls' /\ calls'[k].data = None
                            /\ \E i \in DOMAIN nodes' : nodes'[i].call = k
            OBVIOUS
        <3>1. k \in requests \cup Range(mail) \/ k = m + 1  BY <1>1
        <3> QED BY <1>10, <2>1, <2>2, <3>1
    <2> QED BY <1>0, <1>2, <2>3, <2>4 DEF OpenListed
<1> QED BY <1>1, <1>8, <1>10, <1>11, <1>12 DEF RpcInv

\* A call that returns has had its reply.
LEMMA FinishStep ==
    ASSUME RpcInv, NEW c \in Callers, FinishCall(c)
    PROVE  RpcInv'
<1>0. RpcTypeOK /\ NodesDistinct /\ OpenListed /\ OwnReply  BY DEF RpcInv
<1>1. PICK k \in DOMAIN calls :
         /\ ~calls[k].done /\ calls[k].data # None
         /\ contents' = Copied(k)
         /\ calls' = [calls EXCEPT ![k].done = TRUE, ![k].got = Copied(k)[result_sz],
                                   ![k].kept = (calls[k].buf = result_sz)]
    BY DEF FinishCall
<1> DEFINE g == Copied(k)[result_sz]
           n == [calls[k] EXCEPT !.done = TRUE, !.got = g,
                                    !.kept = (calls[k].buf = result_sz)]
<1>2. calls[k] \in Call /\ k \in CallIds
    BY <1>0, Domains DEF RpcInv
<1>3. calls # <<>>  BY <1>0, Domains, EmptySeq DEF RpcTypeOK
<1>4. Copied(k) \in [Sizes -> {None} \cup CallIds]
    BY <1>0, <1>2 DEF Copied, RpcTypeOK, Call
<1>5. g \in {None} \cup CallIds  BY <1>3, <1>4 DEF RpcInv
<1>6. calls' = [calls EXCEPT ![k] = n]  BY <1>1
<1> HIDE DEF g
<1>7. /\ n \in Call /\ n.id = calls[k].id /\ n.data = calls[k].data
      /\ n.done = TRUE /\ n.got = g /\ n.kept = (calls[k].buf = result_sz)
    BY <1>2, <1>5 DEF Call
<1>8. calls[k].data = k  BY <1>0, <1>1 DEF OwnReply
<1> HIDE DEF n
<1>9. /\ calls' \in Seq(Call) /\ Len(calls') = Len(calls)
      /\ DOMAIN calls' = DOMAIN calls
      /\ calls'[k] = n
      /\ \A j \in DOMAIN calls : j # k => calls'[j] = calls[j]
    BY <1>0, <1>6, <1>7, UpdateCall
<1>10. UNCHANGED <<nodes, msgid, result_sz, requests, mail, clash, hung>>  BY DEF FinishCall
<1>11. RpcTypeOK'  BY <1>0, <1>1, <1>4, <1>9, <1>10 DEF RpcTypeOK
<1>12. calls[k].buf = result_sz => g = k
    BY <1>0, <1>2, <1>8 DEF Copied, RpcTypeOK, Call, g
<1>13. NodesDistinct'
    <2>1. \A j \in DOMAIN calls : calls'[j].id = calls[j].id  BY <1>7, <1>9
    <2> QED BY <1>0, <1>9, <1>10, <2>1 DEF NodesDistinct
<1>14. OpenListed'
    <2>1. \A j \in requests \cup Range(mail) : j # k  BY <1>0, <1>1 DEF OpenListed
    <2> QED BY <1>0, <1>9, <1>10, <2>1 DEF OpenListed
<1>15. OwnReply'  BY <1>0, <1>7, <1>8, <1>9, <1>12 DEF OwnReply
<1>16. result_sz' \in Sizes  BY <1>3, <1>10 DEF RpcInv
<1> QED BY <1>9, <1>11, <1>13, <1>14, <1>15, <1>16 DEF RpcInv

\* A service answers, or its answer is lost.
LEMMA ReplyStep ==
    ASSUME RpcInv, NEW k \in CallIds, Reply(k)
    PROVE  RpcInv'
<1>0. RpcTypeOK /\ NodesDistinct /\ OpenListed /\ OwnReply  BY DEF RpcInv
<1>1. /\ k \in requests /\ requests' = requests \ {k}
      /\ mail' \in {Append(mail, k), mail}
      /\ UNCHANGED <<calls, nodes, msgid, contents, result_sz, clash, hung>>
    BY DEF Reply
<1>2. k \notin Range(mail)  BY <1>0, <1>1 DEF OpenListed
<1>3. /\ Append(mail, k) \in Seq(CallIds)
      /\ Range(Append(mail, k)) = Range(mail) \cup {k}
      /\ IsInjective(Append(mail, k))
    BY <1>0, <1>2, AppendQueue DEF RpcTypeOK, OpenListed
<1>4. /\ mail' \in Seq(CallIds) /\ IsInjective(mail')
      /\ Range(mail') \subseteq Range(mail) \cup {k}
    <2>1. CASE mail' = mail  BY <1>0, <2>1 DEF RpcTypeOK, OpenListed
    <2>2. CASE mail' = Append(mail, k)  BY <1>3, <2>2
    <2> QED BY <1>1, <2>1, <2>2
<1>5. RpcTypeOK'  BY <1>0, <1>1, <1>4 DEF RpcTypeOK
<1>6. OpenListed'  BY <1>0, <1>1, <1>4 DEF OpenListed
<1>7. NodesDistinct' /\ OwnReply'
    BY <1>0, <1>1 DEF NodesDistinct, OwnReply
<1> QED BY <1>1, <1>5, <1>6, <1>7 DEF RpcInv

\* The message loop hands a reply to the call it belongs to.
LEMMA DealStep ==
    ASSUME RpcInv, DealReply
    PROVE  RpcInv'
<1>0. RpcTypeOK /\ NodesDistinct /\ OpenListed /\ OwnReply  BY DEF RpcInv
<1> DEFINE k == Head(mail)
           id == calls[k].id
           n == [calls[k] EXCEPT !.data = k]
           list == RemoveRpcResult(nodes, id)
<1>1. /\ k \in CallIds /\ k \in Range(mail) /\ Tail(mail) \in Seq(CallIds)
      /\ Range(Tail(mail)) = Range(mail) \ {k} /\ IsInjective(Tail(mail))
    BY <1>0, TailQueue DEF DealReply, RpcTypeOK, OpenListed
<1>2. /\ GetSignal(nodes, id) # 0 /\ GetSignal(nodes, id) \in DOMAIN nodes
      /\ nodes[GetSignal(nodes, id)].call = k
    BY <1>1, OpenFound
<1>3. /\ calls' = [calls EXCEPT ![k].data = k]
      /\ nodes' = list /\ hung' = RemoveHangs(nodes, id)
      /\ mail' = Tail(mail) /\ UNCHANGED <<msgid, contents, result_sz, requests, clash>>
    BY <1>2 DEF DealReply
<1>4. k \in DOMAIN calls /\ calls[k].data = None /\ calls[k] \in Call
    BY <1>0, <1>1, Domains DEF OpenListed
<1>5. calls' = [calls EXCEPT ![k] = n]  BY <1>3
<1>6. \E i \in DOMAIN nodes : nodes[i].call = k /\ nodes[i].id = id
    BY <1>0, <1>2 DEF NodesDistinct
<1> HIDE DEF k
<1>7. /\ n \in Call /\ n.id = calls[k].id /\ n.data = k
      /\ n.done = calls[k].done /\ n.got = calls[k].got /\ n.kept = calls[k].kept
    BY <1>1, <1>4 DEF Call
<1> HIDE DEF n
<1>8. /\ calls' \in Seq(Call) /\ Len(calls') = Len(calls)
      /\ DOMAIN calls' = DOMAIN calls /\ (calls' # <<>> => calls # <<>>)
      /\ calls'[k] = n
      /\ \A j \in DOMAIN calls : j # k => calls'[j] = calls[j]
    BY <1>0, <1>4, <1>5, <1>7, UpdateCall
<1>9. /\ list \in Seq(Node)
      /\ \A i \in DOMAIN list : \E j \in DOMAIN nodes : list[i] = nodes[j]
      /\ \A i, j \in DOMAIN list : list[i].id = list[j].id => i = j
      /\ \A j \in DOMAIN nodes : nodes[j].id # id => \E i \in DOMAIN list : list[i] = nodes[j]
    BY <1>0, RemoveKeeps
<1> HIDE DEF list, id
<1>10. RpcTypeOK'
    <2>1. hung' \in BOOLEAN  BY <1>3 DEF RemoveHangs
    <2> QED BY <1>0, <1>1, <1>3, <1>8, <1>9, <2>1 DEF RpcTypeOK
<1>12. NodesDistinct'  BY <1>0, <1>3, <1>8, <1>9 DEF NodesDistinct
<1>13. OpenListed'
    <2>1. ASSUME NEW j \in requests \cup Range(Tail(mail))
          PROVE  /\ j \in DOMAIN calls' /\ calls'[j].data = None
                 /\ \E i \in DOMAIN list : list[i].call = j
        <3>1. j # k /\ j \in requests \cup Range(mail)  BY <1>0, <1>1 DEF OpenListed
        <3>2. j \in DOMAIN calls /\ calls[j].data = None  BY <1>0, <3>1 DEF OpenListed
        <3>3. PICK i \in DOMAIN nodes : nodes[i].call = j  BY <1>0, <3>1 DEF OpenListed
        <3>4. nodes[i].id # id
            <4>1. PICK x \in DOMAIN nodes : nodes[x].call = k /\ nodes[x].id = id  BY <1>6
            <4>2. x # i  BY <3>1, <3>3, <4>1
            <4> QED BY <1>0, <3>3, <4>1, <4>2 DEF NodesDistinct
        <3>5. \E x \in DOMAIN list : list[x] = nodes[i]  BY <1>9, <3>4
        <3> QED BY <1>8, <3>1, <3>2, <3>3, <3>5
    <2>2. requests \cap Range(Tail(mail)) = {}  BY <1>0, <1>1 DEF OpenListed
    <2> QED BY <1>1, <1>3, <2>1, <2>2 DEF OpenListed
<1>14. OwnReply'
    BY <1>0, <1>4, <1>7, <1>8 DEF OwnReply
<1> QED BY <1>3, <1>8, <1>10, <1>12, <1>13, <1>14 DEF RpcInv

LEMMA RpcInitInv == Init => RpcInv
<1> SUFFICES ASSUME Init PROVE RpcInv  OBVIOUS
<1>1. /\ calls = <<>> /\ nodes = <<>> /\ mail = <<>>
      /\ calls \in Seq(Call) /\ nodes \in Seq(Node) /\ mail \in Seq(CallIds)
      /\ Len(calls) = 0
    BY EmptySeq DEF Init
<1>2. DOMAIN calls = {} /\ DOMAIN nodes = {}  BY <1>1, LenProperties
<1>3. RpcTypeOK
    <2>1. contents \in [Sizes -> {None} \cup CallIds]  BY DEF Init
    <2>2. msgid = 0 /\ 0 \in 0 .. MsgIds - 1  BY DEF Init
    <2>3. result_sz = 0 /\ requests = {} /\ clash = FALSE /\ hung = FALSE  BY DEF Init
    <2> QED BY <1>1, <2>1, <2>2, <2>3 DEF RpcTypeOK
<1>4. OpenListed  BY <1>1, EmptyQueue DEF Init, OpenListed
<1> QED BY <1>1, <1>2, <1>3, <1>4 DEF Init, RpcInv, NodesDistinct, OwnReply

LEMMA RpcStepInv == RpcInvUntilClash /\ [Next]_vars => RpcInvUntilClash'
<1> SUFFICES ASSUME RpcInvUntilClash, [Next]_vars, ~clash' PROVE RpcInv'
    BY DEF RpcInvUntilClash
<1>1. ~clash  BY DEF Next, StartCall, FinishCall, Reply, DealReply, vars
<1>2. RpcInv  BY <1>1 DEF RpcInvUntilClash
<1>3. CASE UNCHANGED vars
    BY <1>2, <1>3 DEF vars, RpcInv, RpcTypeOK, NodesDistinct, OpenListed, OwnReply
<1>4. CASE Next  BY <1>2, <1>4, StartStep, FinishStep, ReplyStep, DealStep DEF Next
<1> QED BY <1>3, <1>4

\* As long as no two calls share a msgid, a reply finds the call it belongs to in the
\* list of ipc.c, that call still waits for it, and hands back what the reply brought
\* (unless rpc_call has replaced its buffer since): for any threads and sizes, any
\* number of msgids and of calls, so also when they come round, in whatever order
\* the replies come.
THEOREM RepliesCorrect == Spec => []RepliesFindCalls
<1>1. RpcInv => ReplyFindsCall
    <2> SUFFICES ASSUME RpcInv, NEW k \in requests \cup Range(mail)
                 PROVE  LET n == GetSignal(nodes, calls[k].id)
                        IN  n # 0 /\ nodes[n].call = k /\ ~calls[k].done
        BY DEF ReplyFindsCall
    <2>1. k \in DOMAIN calls /\ calls[k].data = None  BY DEF RpcInv, OpenListed
    <2>2. k # None  BY <2>1, Domains DEF RpcInv
    <2>3. ~calls[k].done  BY <2>1, <2>2 DEF RpcInv, OwnReply
    <2> QED BY <2>3, OpenFound
<1>2. RpcInv => ReturnsOwnResult  BY DEF RpcInv, OwnReply, ReturnsOwnResult
<1>3. RpcInvUntilClash => RepliesFindCalls
    BY <1>1, <1>2 DEF RpcInvUntilClash, RepliesFindCalls
<1>4. Init => RpcInvUntilClash  BY RpcInitInv DEF RpcInvUntilClash
<1>5. RpcInvUntilClash /\ [Next]_vars => RpcInvUntilClash'  BY RpcStepInv
<1> QED BY <1>3, <1>4, <1>5, PTL DEF Spec
=============================================================================
