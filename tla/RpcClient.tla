----------------------------- MODULE RpcClient -----------------------------
(* Remote calls as a module makes them: libs/libkmod/syscall/rpc.c and      *)
(* ipc.c.  The threads of one module call services; its message loop finds  *)
(* the semaphore and the buffer of a call by the msgid of the reply.        *)
(*                                                                          *)
(* The modules that call from several threads (the tty) run at level 0: a   *)
(* thread keeps the processor until it sleeps (Scheduler.tla,               *)
(* Level0NotPreempted), so the code between two sleeps is one step.  A call *)
(* is known by the order in which it was made; its semaphore and its buffer *)
(* are its own, so the number of the call stands for both.                  *)
EXTENDS Naturals, Sequences, SequencesExt

CONSTANTS Callers,   \* the threads that make calls
          Sizes,     \* the sizes of the results they ask for
          MsgIds,    \* the number of values of msgid_counter (65536)
          CallLimit  \* bound: calls that are made

ASSUME RpcAssumption ==
    Callers # {} /\ Sizes \subseteq Nat \ {0} /\ MsgIds \in Nat \ {0} /\ CallLimit \in Nat

VARIABLES calls,     \* the calls made so far
          nodes,     \* the list at ipc.c's head: whom a msgid belongs to
          msgid,     \* msgid_counter
          contents,  \* what is in each buffer rpc_call's static result pointed to
          result_sz, \* the size of the buffer it points to now
          requests,  \* calls a service has received and not answered
          mail,      \* replies in the mailbox of the module
          clash,     \* a call has got a msgid that the list still has for another
          hung       \* the message loop goes round in remove_rpc_result: at
                     \* level 0 it never gives the processor back to anyone

vars == <<calls, nodes, msgid, contents, result_sz, requests, mail, clash, hung>>

\* Nothing, where a call could be.
None == 0

\* The calls are numbered from 1.
CallIds == 1 .. CallLimit

Call == [caller : Callers, id : 0 .. MsgIds - 1,
         buf  : Sizes,                \* rpc_call's result when the call was made
         data : {None} \cup CallIds,  \* the call whose reply return_data holds
         got  : {None} \cup CallIds,  \* the call whose result was handed back
         kept : BOOLEAN,              \* and it was in the buffer of the start
         done : BOOLEAN]

Node == [id : 0 .. MsgIds - 1, call : CallIds]

Init == /\ calls = <<>> /\ nodes = <<>> /\ msgid = 0
        /\ contents = [s \in Sizes |-> None] /\ result_sz = 0
        /\ requests = {} /\ mail = <<>> /\ clash = FALSE /\ hung = FALSE

Idle(c) == \A k \in DOMAIN calls : calls[k].caller = c => calls[k].done
---------------------------------------------------------------------------
(* The list of ipc.c. *)

\* Mutant of SetRpcResult: it does not look for the msgid.
SetRpcResultAppends(list, node) == Append(list, node)

\* The last node is compared, the first is changed.
SetRpcResult(list, node) ==
    IF list = <<>> \/ Last(list).id # node.id
    THEN Append(list, node)
    ELSE [list EXCEPT ![1].call = node.call]

\* Mutant of GetSignal: it looks at the first node only.
GetSignalFirst(list, id) == IF list # <<>> /\ list[1].id = id THEN 1 ELSE 0

\* The position of the first node with this id, 0 if there is none.
GetSignal(list, id) == SelectInSeq(list, LAMBDA node : node.id = id)

\* The loop looks at the second node only, and at that one again and again.
RemoveRpcResult(list, id) ==
    IF Len(list) > 1 /\ list[2].id = id THEN RemoveAt(list, 2) ELSE list

RemoveHangs(list, id) == Len(list) > 1 /\ list[2].id # id

\* The counter has come round to a msgid of the list, and set_rpc_result does not
\* find just the node that the first call has left behind.
Clashes(id) == /\ \E n \in DOMAIN nodes : nodes[n].id = id
               /\ ~ (Len(nodes) = 1 /\ calls[nodes[1].call].done)
---------------------------------------------------------------------------
(* rpc_call. *)

NextMsgId == (msgid + 1) % MsgIds

\* rpc_call and __rpc_call up to down_signal.  The result of send_msg is not
\* looked at: a request the service's mailbox refuses is lost.
StartCall(c, size) ==
    /\ ~hung /\ Idle(c) /\ Len(calls) < CallLimit
    /\ LET k   == Len(calls) + 1
           buf == IF size > result_sz THEN size ELSE result_sz
       IN  /\ calls' = Append(calls, [caller |-> c, id |-> msgid, buf |-> buf,
                                      data |-> None, got |-> None, kept |-> FALSE,
                                      done |-> FALSE])
           /\ nodes' = SetRpcResult(nodes, [id |-> msgid, call |-> k])
           /\ result_sz' = buf
           /\ \/ requests' = requests \cup {k}
              \/ UNCHANGED requests
    /\ msgid' = NextMsgId /\ clash' = (clash \/ Clashes(msgid))
    /\ UNCHANGED <<contents, mail, hung>>

\* memcpy from return_data into the buffer that was result's at the start.
Copied(k) == [contents EXCEPT ![calls[k].buf] = calls[k].data]

\* From down_signal to the end of rpc_call, which hands out the buffer that
\* is result's now.
FinishCall(c) ==
    /\ ~hung
    /\ \E k \in DOMAIN calls :
          /\ calls[k].caller = c /\ ~calls[k].done /\ calls[k].data # None
          /\ contents' = Copied(k)
          /\ calls' = [calls EXCEPT ![k].done = TRUE, ![k].got = Copied(k)[result_sz],
                                    ![k].kept = (calls[k].buf = result_sz)]
    /\ UNCHANGED <<nodes, msgid, result_sz, requests, mail, clash, hung>>

\* A service answers the calls it has in any order: each has a thread of its
\* own (deal_rpc_request).  A reply the mailbox refuses is lost.
Reply(k) ==
    /\ ~hung /\ k \in requests
    /\ requests' = requests \ {k}
    /\ \/ mail' = Append(mail, k)
       \/ UNCHANGED mail
    /\ UNCHANGED <<calls, nodes, msgid, contents, result_sz, clash, hung>>

\* One round of message_loop with a reply.
DealReply ==
    /\ ~hung /\ mail # <<>>
    /\ mail' = Tail(mail)
    /\ LET k == Head(mail)
           n == GetSignal(nodes, calls[k].id)
       IN  IF n = 0 THEN UNCHANGED <<calls, nodes, hung>>
           ELSE /\ calls' = [calls EXCEPT ![nodes[n].call].data = k]
                /\ nodes' = RemoveRpcResult(nodes, calls[k].id)
                /\ hung' = RemoveHangs(nodes, calls[k].id)
    /\ UNCHANGED <<msgid, contents, result_sz, requests, clash>>

Next == \/ \E c \in Callers : FinishCall(c) \/ \E s \in Sizes : StartCall(c, s)
        \/ \E k \in CallIds : Reply(k)
        \/ DealReply

Spec == Init /\ [][Next]_vars

\* The threads of the module get the processor (Scheduler.tla, ReadyRuns); a
\* service may never answer.
FairSpec == Spec /\ WF_vars(DealReply) /\ \A c \in Callers : WF_vars(FinishCall(c))
---------------------------------------------------------------------------
(* Properties. *)

RpcTypeOK == /\ calls \in Seq(Call) /\ nodes \in Seq(Node)
             /\ msgid \in 0 .. MsgIds - 1 /\ result_sz \in Sizes \cup {0}
             /\ contents \in [Sizes -> {None} \cup CallIds]
             /\ requests \subseteq CallIds /\ mail \in Seq(CallIds)
             /\ clash \in BOOLEAN /\ hung \in BOOLEAN

\* What a remote call hands back is the result of that call, unless a larger call has
\* replaced the static buffer of rpc_call in the meantime.
ReturnsOwnResult == \A k \in DOMAIN calls : calls[k].kept => calls[k].got = k

\* The reply to a call that is still waited for finds that call: not another
\* one, nor one that has returned and freed its buffer.
ReplyFindsCall ==
    \A k \in requests \cup Range(mail) :
        LET n == GetSignal(nodes, calls[k].id)
        IN  n # 0 /\ nodes[n].call = k /\ ~calls[k].done

\* Replies go to the calls they belong to, on the way and when they are handed back,
\* also after the msgids have come round: until one of them is given out while the
\* list still has it for a call that is waited for, or behind the first node.  The
\* node that the first call leaves in the list does no harm by itself.
\* (set_rpc_result, get_signal, remove_rpc_result)
RepliesFindCalls == ~clash => ReplyFindsCall /\ ReturnsOwnResult

\* As long as the message loop is not caught in remove_rpc_result and no two calls
\* share a msgid, a call whose reply has reached the mailbox of the module returns.
AnsweredReturnsUnlessHung ==
    \A k \in CallIds :
        k \in Range(mail) ~> hung \/ clash \/ (k \in DOMAIN calls /\ calls[k].done)

\* A call whose reply has reached the mailbox of the module returns.
AnsweredReturns ==
    \A k \in CallIds :
        k \in Range(mail) ~> (k \in DOMAIN calls /\ calls[k].done)
=============================================================================
