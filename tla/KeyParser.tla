----------------------------- MODULE KeyParser -----------------------------
(* From scan codes to keys: irq_handler of the keyboard I/O manager and      *)
(* key_parser.c.  A byte from the controller is E0, E1, or the make or break *)
(* code of a key; what a key means depends on the bytes before it.           *)
EXTENDS Naturals, Sequences

CONSTANTS Letters,   \* keys that CapsLock changes
          Pads,      \* keys that NumLock changes
          Others,    \* keys that only shift changes
          E0Keys,    \* keys whose codes follow an E0
          LSHIFT, RSHIFT, CAPSLOCK, NUMLOCK, LCTRL, \* keys that the code names
          Pause      \* the key whose codes follow an E1

Shifts == {LSHIFT, RSHIFT}
Locks  == {CAPSLOCK, NUMLOCK}
Plain  == Letters \cup Pads \cup Others \cup Shifts \cup Locks \cup {LCTRL}

\* The keys that the code names are different keys, and no key has the code of a prefix.
ASSUME KeyParserAssumption ==
    /\ Shifts \cap Locks = {} /\ CAPSLOCK # NUMLOCK
    /\ {Pause, "E0", "E1", "none"} \cap (Plain \cup E0Keys) = {}
    /\ Pause \notin {"E0", "E1", "none"}

VARIABLES key_state, \* the flags of key_parser.c, its variable state
          codes,     \* what the controller has yet to hand out
          out,       \* the keys written to the fifo since the last event
          down,      \* the keys held down
          wanted     \* the keys the last event stands for; the lock lights

keysVars == <<key_state, codes, out, down, wanted>>

Make(k)  == [code |-> k, break |-> FALSE]
Break(k) == [code |-> k, break |-> TRUE]
E0 == Make("E0")
E1 == Make("E1")

\* pausebreak_codes.
pausebreak_codes == <<E1, Make(LCTRL), Make(NUMLOCK), E1, Break(LCTRL), Break(NUMLOCK)>>

\* KEYMAP: a key in the columns "normal", "shift" and "e0".  The keys the code
\* names are the same in the first two; 0 is none.
NoKey == <<"none">>
KEYMAP(k, column) == IF k \in Shifts \cup Locks /\ column # "e0" THEN <<k>>
                     ELSE IF column = "e0" /\ k \notin E0Keys THEN NoKey
                     ELSE <<k, column>>

NORMAL == [e0 |-> FALSE, e1 |-> FALSE, stage |-> 0, failed |-> FALSE,
           NUMLOCK |-> FALSE, CAPSLOCK |-> FALSE, pushed |-> {}]

KeysInit == /\ key_state = NORMAL /\ codes = <<>> /\ out = <<>> /\ down = {}
            /\ wanted = [keys |-> <<>>, NUMLOCK |-> FALSE, CAPSLOCK |-> FALSE]
---------------------------------------------------------------------------
(* key_parser.c: the new flags and the key, if any. *)

Gives(flags, key) == [flags |-> flags, key |-> key]

\* A key of the column, or a shift pushed.
Pushes(code, column) ==
    IF code \in Shifts THEN Gives([key_state EXCEPT !.pushed = @ \cup {code}], NoKey)
    ELSE Gives(key_state, KEYMAP(code, column))

\* E0 in do_normal is an assignment: the locks are reset.
do_normal(byte) ==
    CASE byte = E0  -> Gives([NORMAL EXCEPT !.e0 = TRUE], NoKey)
      [] byte = E1  -> Gives([key_state EXCEPT !.e1 = TRUE], NoKey)
      [] byte.break -> Gives(key_state, NoKey)
      [] OTHER      -> Pushes(byte.code,
                              IF \/ byte.code \in Letters /\ key_state.CAPSLOCK
                                 \/ byte.code \in Pads /\ key_state.NUMLOCK
                              THEN "shift" ELSE "normal")

\* A break code leaves the flag as it is.
do_e0(byte) == IF byte.break THEN Gives(key_state, NoKey)
               ELSE Gives([key_state EXCEPT !.e0 = FALSE], KEYMAP(byte.code, "e0"))

\* The whole sequence has been read.
E1Over(flags) == [flags EXCEPT !.e1 = FALSE, !.stage = 0, !.failed = FALSE]

do_e1(byte) ==
    LET stage  == key_state.stage + 1
        flags  == [key_state EXCEPT !.stage = stage,
                                    !.failed = @ \/ byte # pausebreak_codes[stage + 1]]
    IN  IF stage < 5 THEN Gives(flags, NoKey)
        ELSE Gives(E1Over(flags), IF flags.failed THEN NoKey ELSE <<Pause>>)

\* Mutant of ShiftReleased: the other shift key is taken to be released too.
ShiftReleasedBoth(code) == [key_state EXCEPT !.pushed = {}]

ShiftReleased(code) == [key_state EXCEPT !.pushed = @ \ {code}]

do_shift(byte) ==
    CASE byte = E0  -> Gives([key_state EXCEPT !.e0 = TRUE], NoKey)
      [] byte = E1  -> Gives([key_state EXCEPT !.e1 = TRUE], NoKey)
      [] byte.break -> Gives(ShiftReleased(byte.code), NoKey)
      [] OTHER      -> Pushes(byte.code, "shift")

Parsed(byte) == IF key_state.e1 THEN do_e1(byte)
                ELSE IF key_state.e0 THEN do_e0(byte)
                ELSE IF key_state.pushed # {} THEN do_shift(byte) ELSE do_normal(byte)

\* irq_handler, for one byte.
irq_handler ==
    /\ codes # <<>>
    /\ codes' = Tail(codes)
    /\ LET key   == Parsed(Head(codes)).key
           flags == Parsed(Head(codes)).flags
       IN  /\ key_state' = IF key = <<CAPSLOCK>> THEN [flags EXCEPT !.CAPSLOCK = ~@]
                           ELSE IF key = <<NUMLOCK>> THEN [flags EXCEPT !.NUMLOCK = ~@]
                           ELSE flags
           /\ out' = IF key \in {NoKey, <<CAPSLOCK>>, <<NUMLOCK>>} THEN out ELSE Append(out, key)
    /\ UNCHANGED <<down, wanted>>
---------------------------------------------------------------------------
(* The keyboard, and what somebody who uses it expects.  A key that is held  *)
(* repeats its make code.                                                    *)

Wanted(k) ==
    IF k \in Shifts \cup Locks THEN <<>>
    ELSE IF k = Pause THEN << <<Pause>> >>
    ELSE IF k \in E0Keys THEN << <<k, "e0">> >>
    ELSE << <<k, IF \/ Shifts \cap down # {}
                    \/ k \in Letters /\ wanted.CAPSLOCK
                    \/ k \in Pads /\ wanted.NUMLOCK
                 THEN "shift" ELSE "normal">> >>

Press(k) ==
    /\ codes = <<>>
    /\ codes' = IF k = Pause THEN pausebreak_codes
                ELSE IF k \in E0Keys THEN <<E0, Make(k)>> ELSE <<Make(k)>>
    /\ down' = IF k = Pause THEN down ELSE down \cup {k}
    /\ out' = <<>>
    /\ wanted' = [wanted EXCEPT !.keys = Wanted(k),
                                !.CAPSLOCK = IF k = CAPSLOCK THEN ~@ ELSE @,
                                !.NUMLOCK  = IF k = NUMLOCK THEN ~@ ELSE @]
    /\ UNCHANGED key_state

Release(k) ==
    /\ codes = <<>>
    /\ codes' = IF k \in E0Keys THEN <<E0, Break(k)>> ELSE <<Break(k)>>
    /\ down' = down \ {k}
    /\ out' = <<>>
    /\ wanted' = [wanted EXCEPT !.keys = <<>>]
    /\ UNCHANGED key_state

KeysNext == \/ irq_handler
            \/ \E k \in Plain \cup E0Keys \cup {Pause} : Press(k)
            \/ \E k \in down : Release(k)

KeysSpec == KeysInit /\ [][KeysNext]_keysVars
---------------------------------------------------------------------------
KeyParserTypeOK ==
    /\ key_state \in [e0 : BOOLEAN, e1 : BOOLEAN, stage : 0 .. 4, failed : BOOLEAN,
                      NUMLOCK : BOOLEAN, CAPSLOCK : BOOLEAN, pushed : SUBSET Shifts]
    /\ down \subseteq Plain \cup E0Keys

\* Every press gives the key it stands for, with the shift keys that are held
\* and the locks as they are set, and nothing else: no byte is taken for part
\* of a sequence it does not belong to, and none changes a lock it is not of.
ParsesAsTyped == codes = <<>> => out = wanted.keys
=============================================================================
