------------------------------ MODULE MailQueue ------------------------------
(* What a mailbox promises to the modules: the messages that fit come out    *)
(* once, whole, and in the order they were sent.  MailRing implements it    *)
(* with a ring of bytes; Ipc.tla builds on it.                               *)
EXTENDS MailSizes

VARIABLES queue, \* the messages that have not been read
          got    \* what the last recv_msg returned

QueueInit == queue = <<>> /\ got = Nothing

Put(m) == /\ UsedBy(queue) + Footprint(m) <= MailSize
          /\ queue' = Append(queue, m) /\ UNCHANGED got

Take == /\ queue # <<>>
        /\ got' = Head(queue) /\ queue' = Tail(queue)

TakeNothing == queue = <<>> /\ got' = Nothing /\ UNCHANGED queue

\* set_mailbuffer and clear_mail drop what is there.
Drop == queue' = <<>> /\ UNCHANGED got

QueueNext == (\E m \in Messages : Put(m)) \/ Take \/ TakeNothing \/ Drop

QueueSpec == QueueInit /\ [][QueueNext]_<<queue, got>>
==============================================================================
