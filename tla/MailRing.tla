------------------------------ MODULE MailRing ------------------------------
(* The mailbox of one task as kernel/syscall/syscalls.c keeps it: a ring of  *)
(* bytes with a pointer for the writers, one for the reader, and the number *)
(* of bytes in use.  Each call runs with interrupts off, as one action.      *)
(*                                                                          *)
(* A byte is named by the message it belongs to and its place in it; the     *)
(* place MailSize is the byte behind the buffer.  memory keeps old bytes     *)
(* until they are overwritten.                                              *)
EXTENDS MailSizes

VARIABLES memory,    \* the bytes of the buffer
          write_ptr, \* where the next byte is written
          read_ptr,  \* where the next byte is read
          used_size, \* the bytes accounted
          got        \* what the last recv_msg returned

ringVars == <<memory, write_ptr, read_ptr, used_size, got>>

Byte(m, n) == [of |-> m, nth |-> n]

Unwritten == [of |-> Nothing, nth |-> 0]

\* set_mailbuffer, in memory that holds nothing yet.
RingInit == /\ memory = [p \in 0 .. MailSize |-> Unwritten]
            /\ write_ptr = 0 /\ read_ptr = 0 /\ used_size = 0 /\ got = Nothing
---------------------------------------------------------------------------
\* increase_ptr, with pointers counted from mail.
IncreasePtr(p) == IF MailSize <= p + 1 THEN 0 ELSE p + 1

\* The pointer after n bytes.
Advanced(p, n) == LET to[k \in 0 .. n] == IF k = 0 THEN p ELSE IncreasePtr(to[k - 1])
                  IN  to[n]

\* write_to_buffer: the header byte by byte, then the body; a byte written
\* later wins.
Written(m) ==
    LET after[n \in 0 .. Footprint(m)] ==
            IF n = 0 THEN memory
            ELSE [after[n - 1] EXCEPT ![Advanced(write_ptr, n - 1)] = Byte(m, n)]
    IN  after[Footprint(m)]

\* Mutant of Fits: one byte too many is let in.
FitsOneMore(m) == used_size + Footprint(m) <= MailSize + 1

Fits(m) == used_size + Footprint(m) <= MailSize

\* __send_msg and dummy_send_msg, to a mailbox that lets the sender in.
SendMsg(m) ==
    /\ Fits(m)
    /\ used_size' = used_size + Footprint(m)
    /\ memory' = Written(m)
    /\ write_ptr' = Advanced(write_ptr, Footprint(m))
    /\ UNCHANGED <<read_ptr, got>>

\* The n bytes from p on, as the reader sees them.
BytesFrom(p, n) == [k \in 1 .. n |-> memory[Advanced(p, k - 1)]]

\* The message a header is of: its bytes are those of one header, in order.
HeaderAt(p) == LET m == memory[p].of
               IN  IF BytesFrom(p, HeaderSize) = [k \in 1 .. HeaderSize |-> Byte(m, k)]
                   THEN m ELSE Nothing

\* The whole message, if its body is its own too.
MessageAt(p) == LET m == HeaderAt(p)
                IN  IF m # Nothing /\ BytesFrom(p, Footprint(m)) = [k \in 1 .. Footprint(m) |-> Byte(m, k)]
                    THEN m ELSE Nothing

Freed(m) == used_size - Footprint(m)

\* __recv_msg with a message: the length in the header says how much to read.
RecvMsg ==
    /\ used_size > 0
    /\ got' = MessageAt(read_ptr)
    /\ LET m == HeaderAt(read_ptr)
       IN  /\ m # Nothing
           /\ read_ptr' = Advanced(read_ptr, Footprint(m))
           /\ used_size' = Freed(m)
    /\ UNCHANGED <<memory, write_ptr>>

RecvNothing == used_size = 0 /\ got' = Nothing
               /\ UNCHANGED <<memory, write_ptr, read_ptr, used_size>>

\* __set_mailbuffer with the same buffer, and __clear_mail.
ClearMail == /\ read_ptr' = 0 /\ write_ptr' = 0 /\ used_size' = 0
             /\ UNCHANGED <<memory, got>>

RingNext == (\E m \in Messages : SendMsg(m)) \/ RecvMsg \/ RecvNothing \/ ClearMail

RingSpec == RingInit /\ [][RingNext]_ringVars
---------------------------------------------------------------------------
RingTypeOK == /\ memory \in [0 .. MailSize -> [of : Messages \cup {Nothing}, nth : Nat]]
              /\ write_ptr \in 0 .. MailSize - 1 /\ read_ptr \in 0 .. MailSize - 1
              /\ used_size \in 0 .. MailSize
              /\ Advanced(read_ptr, used_size) = write_ptr
              /\ memory[MailSize] = Unwritten   \* nothing is written behind the buffer

\* The bytes in use are those of these messages, one behind the other.
Holds(msgs) ==
    /\ UsedBy(msgs) = used_size
    /\ \A i \in 1 .. Len(msgs) : MessageAt(Advanced(read_ptr, EndsOf(msgs)[i - 1])) = msgs[i]

\* The queues whose headers alone would fit.
Queues == UNION {[1 .. n -> Messages] : n \in {k \in 0 .. MailSize : k * HeaderSize <= MailSize}}

\* The messages in the bytes in use.
Unread == IF \E msgs \in Queues : Holds(msgs) THEN CHOOSE msgs \in Queues : Holds(msgs)
          ELSE <<Nothing>>

Mailbox == INSTANCE MailQueue WITH queue <- Unread

\* The ring is the mailbox MailQueue describes: whatever the lengths and
\* wherever the pointers wrap, messages come out whole and in order.
ImplementsMailQueue == Mailbox!QueueSpec
=============================================================================
