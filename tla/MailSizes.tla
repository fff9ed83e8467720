----------------------------- MODULE MailSizes -----------------------------
(* The messages of a mailbox and the bytes they take in it: a header each   *)
(* and a body, one behind the other (kernel/syscall/syscalls.c).            *)
EXTENDS Naturals, Sequences

CONSTANTS Messages,   \* what can be sent
          LengthOf,   \* pack.length
          HeaderSize, \* sizeof(msgpack_struct)
          MailSize,   \* mail_size
          Nothing     \* what recv_msg returns when there is no message

ASSUME MailSizesAssumption ==
    /\ LengthOf \in [Messages -> Nat]
    /\ HeaderSize \in Nat \ {0} /\ MailSize \in Nat \ {0}
    /\ Nothing \notin Messages

Footprint(m) == HeaderSize + LengthOf[m]

\* Where the first n of the messages end.
EndsOf(msgs) ==
    LET end[n \in 0 .. Len(msgs)] == IF n = 0 THEN 0 ELSE end[n - 1] + Footprint(msgs[n])
    IN  end

UsedBy(msgs) == EndsOf(msgs)[Len(msgs)]
============================================================================
