------------------------------ MODULE Terminal ------------------------------
(* A key on its way from the keyboard to the screen and to the program that  *)
(* asked for it: the I/O manager (module/driver/keyboard/ioman), the         *)
(* keyboard driver (keyboard/driver), the terminal (vdd/tty) and the fifos   *)
(* between them (libs/libfifo).                                              *)
(*                                                                          *)
(* The threads are of level 0, which nobody preempts: what one does between  *)
(* two points where it can sleep is one action.  The kernel's semaphores are *)
(* the counting semaphores that they implement.                              *)
EXTENDS Naturals, Sequences, FiniteSets, SequencesExt, CountingSemaphore

CONSTANTS Characters, ENTER,     \* the keys
          Readers,               \* threads of the tty that serve getchar
          driver, echo,          \* kmod_main of the driver, echo_input of the tty
          Reply,                 \* the video driver's answer, in the tty's mailbox
          full, local_full,      \* the semaphores: the keys in the two fifos,
          signal, wait_enter,    \* a key to show, a line to read
          CONSOLE_LINES,         \* the maximum of wait_enter
          TypeLimit              \* BOUND: the keys that are typed

ASSUME TerminalAssumption ==
    /\ Ids = {full, local_full, signal, wait_enter} /\ Cardinality(Ids) = 4
    /\ Users = Readers \cup {driver, echo} /\ driver # echo
    /\ {driver, echo} \cap Readers = {} /\ ENTER \notin Characters
    /\ Reply \notin Characters \cup {ENTER}
    /\ IsFiniteSet(Readers) /\ CONSOLE_LINES \in Nat \ {0} /\ TypeLimit \in Nat

VARIABLES typed,   \* every key so far
          fifo,    \* the I/O manager's fifo
          mail,    \* the tty's mailbox: keys, and answers of the video driver
          local,   \* the driver's fifo
          key,     \* the tty's variable
          entered, \* is the message loop of the tty between its two up_signal?
          at,      \* where the threads are
          echoed,  \* what is on the screen
          lost     \* has an up_signal(wait_enter) found the count at its maximum?

terminalVars == <<csVars, typed, fifo, mail, local, key, entered, at, echoed, lost>>

Keys == Characters \cup {ENTER}

\* After the start-up: driver and echo wait for the first key.
\* BOUND: the fifos are never full; there are fewer keys than they have room.
TerminalInit ==
    /\ max = [s \in Ids |-> CASE s = signal -> 1 [] s = wait_enter -> CONSOLE_LINES
                              [] OTHER -> TypeLimit]
    /\ free = [s \in Ids |-> 0]
    /\ waiting = [s \in Ids |-> CASE s = full -> {driver} [] s = signal -> {echo} [] OTHER -> {}]
    /\ typed = <<>> /\ fifo = <<>> /\ mail = <<>> /\ local = <<>>
    /\ key = ENTER /\ entered = FALSE /\ echoed = <<>> /\ lost = FALSE
    /\ at = [t \in Users |-> CASE t = driver -> "pass" [] t = echo -> "echo"
                               [] OTHER -> "idle"]
---------------------------------------------------------------------------
Sleeps(t) == \E s \in Ids : t \in waiting[s]
IsAt(t, place) == at[t] = place /\ ~Sleeps(t)
Goes(t, place) == at' = [at EXCEPT ![t] = place]

\* down_signal: the thread goes on to the place at once or when it is woken.
Down(t, from, s, to) == /\ IsAt(t, from) /\ Goes(t, to)
                        /\ Take(s) \/ Wait(s, t)

AtMaximum(s) == waiting[s] = {} /\ free[s] = max[s]

\* up_signal.
Up(s) == \/ \E t \in Users : HandOver(s, t)
         \/ GiveBack(s)
         \/ AtMaximum(s) /\ UNCHANGED csVars

\* irq_handler of the I/O manager, with a key the parser has found.
Type(k) ==
    /\ Len(typed) < TypeLimit
    /\ typed' = Append(typed, k)
    /\ fifo' = Append(fifo, k) /\ Up(full)
    /\ UNCHANGED <<mail, local, key, entered, at, echoed, lost>>

\* The loop of the driver: fifo_read_bytes ...
DriverReads == /\ Down(driver, "read", full, "pass")
               /\ UNCHANGED <<typed, fifo, mail, local, key, entered, echoed, lost>>

\* ... and the key to the tty, to be shown, and to the local fifo.
DriverPasses ==
    /\ IsAt(driver, "pass") /\ Goes(driver, "read")
    /\ fifo' = Tail(fifo)
    /\ mail' = Append(mail, Head(fifo))
    /\ local' = Append(local, Head(fifo)) /\ Up(local_full)
    /\ UNCHANGED <<typed, key, entered, echoed, lost>>

\* Mutant of Shown: the same key again is not shown.
ShownOnce(k) == IF k = key THEN UNCHANGED csVars ELSE Up(signal)

Shown(k) == Up(signal)

\* The message loop of the tty: normal_ipc_handler, up to its test for ENTER.
HandleKey ==
    /\ ~entered /\ mail # <<>> /\ Head(mail) # Reply
    /\ mail' = Tail(mail)
    /\ key' = Head(mail) /\ Shown(Head(mail))
    /\ entered' = (Head(mail) = ENTER)
    /\ UNCHANGED <<typed, fifo, local, at, echoed, lost>>

HandleEnter ==
    /\ entered /\ entered' = FALSE
    /\ Up(wait_enter)
    /\ lost' = (lost \/ AtMaximum(wait_enter))
    /\ UNCHANGED <<typed, fifo, mail, local, key, at, echoed>>

\* The message loop, with the answer echo waits for.
HandleReply ==
    /\ ~entered /\ mail # <<>> /\ Head(mail) = Reply
    /\ mail' = Tail(mail)
    /\ Goes(echo, "wait")
    /\ UNCHANGED <<csVars, typed, fifo, local, key, entered, echoed, lost>>

\* echo_input: down_signal, then echo_key with what key is then, which calls
\* the video driver.
EchoWaits == /\ Down(echo, "wait", signal, "echo")
             /\ UNCHANGED <<typed, fifo, mail, local, key, entered, echoed, lost>>

EchoKey == /\ IsAt(echo, "echo") /\ Goes(echo, "swap")
           /\ echoed' = Append(echoed, key)
           /\ UNCHANGED <<csVars, typed, fifo, mail, local, key, entered, lost>>

\* The video driver has answered swap_framebuffer.
VideoAnswers == /\ IsAt(echo, "swap") /\ Goes(echo, "answered")
                /\ mail' = Append(mail, Reply)
                /\ UNCHANGED <<csVars, typed, fifo, local, key, entered, echoed, lost>>

\* getchar: down_signal(wait_enter), ...
GetChar(r) == /\ Down(r, "idle", wait_enter, "getkey")
              /\ UNCHANGED <<typed, fifo, mail, local, key, entered, echoed, lost>>

\* ... getkey, a call of the driver, where its thread reads the local fifo ...
GetKey(r) == /\ Down(r, "getkey", local_full, "take")
             /\ UNCHANGED <<typed, fifo, mail, local, key, entered, echoed, lost>>

LineGoesOn(k) == k # ENTER

\* ... and up_signal unless that was the end of the line.
TakeKey(r) ==
    /\ IsAt(r, "take") /\ Goes(r, "idle")
    /\ local' = Tail(local)
    /\ \/ /\ LineGoesOn(Head(local)) /\ Up(wait_enter)
          /\ lost' = (lost \/ AtMaximum(wait_enter))
       \/ /\ ~LineGoesOn(Head(local))
          /\ UNCHANGED <<csVars, lost>>
    /\ UNCHANGED <<typed, fifo, mail, key, entered, echoed>>

TerminalNext ==
    \/ \E k \in Keys : Type(k)
    \/ DriverReads \/ DriverPasses
    \/ HandleKey \/ HandleEnter \/ HandleReply
    \/ EchoWaits \/ EchoKey \/ VideoAnswers
    \/ \E r \in Readers : GetChar(r) \/ GetKey(r) \/ TakeKey(r)

TerminalSpec == TerminalInit /\ [][TerminalNext]_terminalVars
---------------------------------------------------------------------------
TerminalTypeOK ==
    /\ typed \in Seq(Keys) /\ fifo \in Seq(Keys) /\ local \in Seq(Keys)
    /\ mail \in Seq(Keys \cup {Reply}) /\ key \in Keys
    /\ \A s \in Ids : free[s] \in 0 .. max[s] /\ (free[s] > 0 => waiting[s] = {})

\* Every key has gone the whole way, and all wait for the next one.
Quiet == /\ fifo = <<>> /\ mail = <<>> /\ ~entered
         /\ driver \in waiting[full] /\ echo \in waiting[signal]
         /\ \A r \in Readers : IsAt(r, "idle") \/ Sleeps(r)

LinesIn(s) == Cardinality({i \in DOMAIN s : s[i] = ENTER})

\* Unless more lines have been typed ahead than wait_enter can count, it counts
\* the lines that are still to be read: getchar never waits while there is one,
\* and never lets a reader at a line that is not complete, however many read.
LinesAreCounted == Quiet /\ ~lost => free[wait_enter] = LinesIn(local)

\* The screen ends with the last key that was typed, however fast the keys
\* come and whichever of them echo_input misses.
LastKeyShown == Quiet /\ typed # <<>> => echoed # <<>> /\ Last(echoed) = Last(typed)

\* Nothing that is typed is lost to the readers, nor the last of it to the eye.
TypedIsReadAndShown == LinesAreCounted /\ LastKeyShown

\* Every key is shown, once, in the order they are typed.
EveryKeyShown == Quiet => echoed = typed
=============================================================================
