------------------------------ MODULE RpcServer ------------------------------
(* How remote calls are answered: by the modules, libs/libkmod/syscall/rpc.c  *)
(* and the loop of ipc.c, which start a thread for each request, and by       *)
(* sys_task, kernel/syscall/rpc.c and sys_task.c, which answers one after the *)
(* other.                                                                     *)
(*                                                                            *)
(* A message is known by its number; what lies in a block of memory is the    *)
(* number of the message that was copied there.  The result of a call stands  *)
(* for what the function computes of the arguments it reads.                  *)
EXTENDS Integers, FiniteSets, Sequences, SequencesExt, Functions

CONSTANTS Registered,   \* what kmod_init or sys_task registers, in this order
          Clients,      \* the tasks that call
          Funcs,        \* the functions they call, with these sizes of the
          ArgsSizes,    \*   arguments
          ReturnSizes,  \*   and of the result
          SentLimit     \* BOUND: how many messages are sent

\* The sizes a function is registered with; "any" is the -1 of the code.
AnySize == -1
Info == [func : Nat, args_size : Nat \cup {AnySize}, return_size : Nat \cup {AnySize}, gives : Nat]

RpcServerAssumption == /\ Registered \in Seq(Info) /\ SentLimit \in Nat
                       /\ Funcs \subseteq Nat /\ ArgsSizes \subseteq Nat
                       /\ ReturnSizes \subseteq Nat

VARIABLES server,   \* "module" or "sys_task"
          sent,     \* the messages sent to the server
          inbox,    \* those in its mailbox
          heap,     \* its blocks of memory; block 0 is the loop's msg
          workers,  \* the threads that answer requests
          replies   \* what the server has sent, and whether that arrived

serveVars == <<server, sent, inbox, heap, workers, replies>>

\* A request, or some other message, which has none of its fields.
Message == [source : Clients, rpc : {TRUE}, func : Funcs, args_size : ArgsSizes,
            return_size : ReturnSizes]
           \cup [source : Clients, rpc : {FALSE}, func : {0}, args_size : {0},
                 return_size : {0}]

\* Nothing yet, in a block.
NoMessage == 0

\* The loop's own buffer, which every message is received into.
LoopMsg == 0
---------------------------------------------------------------------------
(* The list of the functions. *)

\* add_proccess: in front.
AddProccess(list, info) == <<info>> \o list

\* rpc_register, of all of them, before the loop is entered.
HeadNode == FoldLeft(AddProccess, <<>>, Registered)

\* list_find_proccess, 0 for NULL.
ListFindProccess(func) == SelectInSeq(HeadNode, LAMBDA info : info.func = func)

\* The tests of __deal_rpc_request__.
SizesAgree(info, m) ==
    /\ info.args_size \in {m.args_size, AnySize}
    /\ info.return_size \in {m.return_size, AnySize}

Valid(m) == ListFindProccess(m.func) # 0 /\ SizesAgree(HeadNode[ListFindProccess(m.func)], m)

\* The size of what the function gives back fits what it was registered with.
ReturnMatches(info) == info.return_size \in {info.gives, AnySize}

\* The reply to a message, from the arguments that were read.
Answer(pack, read, arrived) ==
    [to |-> sent[pack].source, msg_id |-> pack, func |-> sent[read].func, result |-> read,
     arrived |-> arrived]

\* __deal_rpc_request__ up to send_msg: the replies that may be sent, none where
\* only an error is reported.  send_msg fails when the caller's mailbox is full.
Outcomes(pack, read) ==
    IF Valid(sent[read]) /\ ReturnMatches(HeadNode[ListFindProccess(sent[read].func)])
    THEN {<<Answer(pack, read, arrived)>> : arrived \in BOOLEAN}
    ELSE {<<>>}
---------------------------------------------------------------------------
ServeInit == /\ server \in {"module", "sys_task"}
             /\ sent = <<>> /\ inbox = <<>> /\ heap = [b \in {LoopMsg} |-> NoMessage]
             /\ workers = {} /\ replies = <<>>

\* A task sends a request, or a module some other message.
Send(m) == /\ Len(sent) < SentLimit
           /\ sent' = Append(sent, m)
           /\ inbox' = Append(inbox, Len(sent'))
           /\ UNCHANGED <<server, heap, workers, replies>>

\* Mutant of CopyOf: the thread is given the loop's msg.
NoCopy == LoopMsg

\* malloc of the copy a thread gets.
CopyOf == CHOOSE b \in 1 .. SentLimit : b \notin DOMAIN heap

\* message_loop and deal_rpc_request of a module: the request is copied into
\* memory of its own and a thread is created for it.
LoopReceives ==
    /\ server = "module" /\ inbox # <<>>
    /\ LET m == Head(inbox)
           received == [heap EXCEPT ![LoopMsg] = m]
       IN  IF sent[m].rpc
           THEN /\ heap' = [b \in DOMAIN heap \cup {CopyOf} |->
                              IF b = CopyOf THEN m ELSE received[b]]
                /\ workers' = workers \cup {[pack |-> m, msg |-> CopyOf]}
           ELSE heap' = received /\ UNCHANGED workers
    /\ inbox' = Tail(inbox)
    /\ UNCHANGED <<server, sent, replies>>

\* __deal_rpc_request: the thread reads the request, calls the function, sends
\* the result, whether or not that arrives, and frees its copy.
ThreadAnswers(t) ==
    /\ \E out \in Outcomes(t.pack, heap[t.msg]) : replies' = replies \o out
    /\ workers' = workers \ {t}
    /\ heap' = IF t.msg = LoopMsg THEN heap ELSE Restrict(heap, DOMAIN heap \ {t.msg})
    /\ UNCHANGED <<server, sent, inbox>>

\* sys_task and its deal_rpc_request, which asserts that send_msg succeeds: where
\* it does not, the kernel stops.
Stopped == server = "sys_task" /\ \E n \in DOMAIN replies : ~replies[n].arrived

SysTaskAnswers ==
    /\ server = "sys_task" /\ ~Stopped /\ inbox # <<>>
    /\ LET m == Head(inbox)
       IN  /\ heap' = [heap EXCEPT ![LoopMsg] = m]
           /\ IF sent[m].rpc THEN \E out \in Outcomes(m, m) : replies' = replies \o out
              ELSE UNCHANGED replies
    /\ inbox' = Tail(inbox)
    /\ UNCHANGED <<server, sent, workers>>

ServeNext == \/ \E m \in Message : Send(m)
             \/ LoopReceives \/ SysTaskAnswers
             \/ \E t \in workers : ThreadAnswers(t)

ServeSpec == ServeInit /\ [][ServeNext]_serveVars
---------------------------------------------------------------------------
RpcServerTypeOK == /\ sent \in Seq(Message) /\ inbox \in Seq(1 .. Len(sent))
                   /\ \A b \in DOMAIN heap : heap[b] \in 0 .. Len(sent)
                   /\ \A t \in workers : t.pack \in 1 .. Len(sent) /\ t.msg \in DOMAIN heap

\* The replies to a request, and the threads that work on it.
RepliesTo(m) == {n \in DOMAIN replies : replies[n].msg_id = m}
WorkOn(m)    == {t \in workers : t.pack = m}

\* Every request whose sizes are right is in the mailbox, or has one thread, or
\* has been answered once: to the task that called, under its msgid and from its
\* own arguments, whatever was received or answered in between.  No other
\* message is answered.  (message_loop, deal_rpc_request, __deal_rpc_request__)
AnswersItsCaller ==
    \A m \in DOMAIN sent :
        LET there == IF \E n \in DOMAIN inbox : inbox[n] = m THEN 1 ELSE 0
        IN  /\ \A n \in RepliesTo(m) : /\ replies[n].to = sent[m].source
                                       /\ replies[n].func = sent[m].func
                                       /\ replies[n].result = m
            /\ there + Cardinality(WorkOn(m)) + Cardinality(RepliesTo(m)) <= 1
            /\ sent[m].rpc /\ Valid(sent[m]) =>
                   there + Cardinality(WorkOn(m)) + Cardinality(RepliesTo(m)) = 1
            /\ ~(sent[m].rpc /\ Valid(sent[m])) => RepliesTo(m) = {}
=============================================================================
