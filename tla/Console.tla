------------------------------- MODULE Console -------------------------------
(* What is printed and what is seen: the consoles of tty                      *)
(* (module/driver/vdd/tty/console.c), the framebuffers of the video driver    *)
(* that they share memory with (video/framebuffers.c, video/text.c), and the   *)
(* calls between the two (libkmod/export/video).                              *)
(*                                                                           *)
(* Each request is answered by a thread of its own, but what a thread of a     *)
(* level 0 driver does between two system calls is one step, as Scheduler     *)
(* shows: so an output is one step of tty and a swap one of video, and other  *)
(* threads run in between.  The colour is left out.                           *)
EXTENDS Integers, Sequences

CONSTANTS Columns, ScreenLines, \* CONSOLE_COLUMNS, CONSOLE_LINES: those of the screen
          ConsoleNum,      \* CONSOLE_NUM
          TabWidth,        \* 4
          Printables,      \* the characters that are printed as they are
          Blank,           \* the character ' '
          Strings,         \* what is given to puts
          Writers,         \* the threads of tty: those that answer and the echo
          NoCall,          \* of a thread that waits for nothing
          StackBytes,      \* what the caller's stack may hold behind a bool, as part
                           \*   of the int that is read there
          OutputLimit      \* BOUND: how many characters are printed

Controls == {"newline", "tab", "vtab", "backspace", "formfeed"}
Chars == Printables \cup Controls

ASSUME ConsoleAssumption ==
    /\ Columns \in Nat \ {0} /\ ScreenLines \in Nat \ {0} /\ TabWidth \in 1 .. Columns - 1
    /\ ConsoleNum \in 1 .. 256
    /\ Blank \notin Printables /\ Printables \cap Controls = {}
    /\ Strings \subseteq Seq(Chars) /\ NoCall \notin Nat /\ OutputLimit \in Nat
    \* The other three bytes of the int are zeros, or make it more than a byte holds.
    /\ \A rest \in StackBytes : rest \in Nat /\ (rest = 0 \/ rest >= 256)

VARIABLES consoles, \* pos_x, pos_y and the framebuffer, of the consoles so far
          nodes,    \* video: the list of the framebuffers, ids and whose they are
          swaps,    \* the framebuffer each thread has asked video to show
          screen,   \* what is on the screen
          printed,  \* how many characters have been printed
          strayed   \* history: whether one has been written outside the framebuffers

consoleVars == <<consoles, nodes, swaps, screen, printed, strayed>>

Positions == 0 .. Columns * ScreenLines - 1
Empty == [p \in Positions |-> Blank]

\* A console as init_consoles makes it.
Fresh == [framebuffer |-> Empty, pos_x |-> 0, pos_y |-> 0]

\* current_active_console, which nothing changes.
Active == 0

ConsoleInit ==
    /\ consoles = <<>> /\ nodes = <<>>
    /\ swaps = [w \in Writers |-> NoCall]
    /\ screen = Empty /\ printed = 0 /\ strayed = FALSE
---------------------------------------------------------------------------
(* __putchar, on a console. *)

\* Where in the framebuffer the next character goes.
Place(c) == c.pos_y * Columns + c.pos_x

\* __putrawchar.  Nothing ends the page, and pos_x is compared with the width only
\* after a letter, so that a tabulator may take it behind the line for good.  What is
\* written behind the framebuffer is not in it (Strays).
Putrawchar(c, ch) ==
    LET atEnd == c.pos_x + 1 = Columns
    IN  [framebuffer |-> [c.framebuffer EXCEPT ![Place(c)] = ch],
         pos_x |-> IF atEnd THEN 0 ELSE c.pos_x + 1,
         pos_y |-> IF atEnd THEN c.pos_y + 1 ELSE c.pos_y]

\* One position back, or to the end of the line in front.
StepBack(c) == IF c.pos_x > 0 THEN [c EXCEPT !.pos_x = @ - 1]
               ELSE [c EXCEPT !.pos_x = Columns - 1, !.pos_y = @ - 1]

\* There is nothing in front of the first position.
InConsole(c) == IF c.pos_y < 0 THEN [c EXCEPT !.pos_x = 0, !.pos_y = 0] ELSE c

Putchar(c, ch) ==
    CASE ch = "newline"   -> [c EXCEPT !.pos_x = 0, !.pos_y = @ + 1]
      [] ch = "tab"       -> [c EXCEPT !.pos_x = @ + TabWidth]
      [] ch = "vtab"      -> [c EXCEPT !.pos_y = @ + 1]
      [] ch = "backspace" -> StepBack(Putrawchar(InConsole(StepBack(c)), Blank))
      [] ch = "formfeed"  -> [c EXCEPT !.pos_x = 0, !.pos_y = 0]
      [] OTHER            -> Putrawchar(c, ch)

\* The console after the first n characters.
Outputs(c, str) ==
    LET after[n \in 0 .. Len(str)] == IF n = 0 THEN c ELSE Putchar(after[n - 1], str[n])
    IN  after

PutString(c, str) == Outputs(c, str)[Len(str)]

\* Where a character is written, if it is.
PlacesWritten(c, ch) == CASE ch \in Printables   -> {Place(c)}
                    [] ch = "backspace" -> {Place(InConsole(StepBack(c)))}
                    [] OTHER            -> {}

\* A character is written behind the page, or through the framebuffer of a console
\* that is not there yet, which is NULL.
Strays(no, str) ==
    LET there == no < Len(consoles)
        after == Outputs(IF there THEN consoles[no + 1] ELSE Fresh, str)
    IN  \E n \in 1 .. Len(str) : \E p \in PlacesWritten(after[n - 1], str[n]) :
            ~there \/ p \notin Positions
---------------------------------------------------------------------------
(* video: the framebuffers. *)

\* __create_framebuffer: the next number, in front of the list.
Created(list, owner) == <<[id |-> Len(list), framebuffer |-> owner]>> \o list

\* get_framebuffer: whose framebuffer the first node with the number has.
GetFramebuffer(id) == {nodes[n].framebuffer : n \in {m \in DOMAIN nodes : nodes[m].id = id}}

\* init_consoles asks video for a framebuffer, which is made, ...
CreateFramebuffer ==
    /\ Len(nodes) = Len(consoles) /\ Len(nodes) < ConsoleNum
    /\ nodes' = Created(nodes, Len(consoles))
    /\ UNCHANGED <<consoles, swaps, screen, printed, strayed>>

\* ... and has its console when the answer is there.  Threads that answer requests
\* run before that and in between.
InitConsole ==
    /\ Len(nodes) > Len(consoles)
    /\ consoles' = Append(consoles, Fresh)
    /\ UNCHANGED <<nodes, swaps, screen, printed, strayed>>

\* consoles and their framebuffers are numbered from 0.
Console(no) == consoles[no + 1]

\* Mutant of FlushIds: the call is made for the console that was printed last.
FlushAny(no) == {no}

\* __flush_console, and swap_framebuffer, which passes the number on as a bool: a
\* byte that is 0 or 1, and behind it what the stack holds.
FlushIds(no) == IF no = Active THEN {(IF no = 0 THEN 0 ELSE 1) + rest : rest \in StackBytes}
                ELSE {NoCall}

\* putchar, puts, flush_console and the echo of a key: the output, if any, and the
\* call that shows it.  Nobody tests whether the console is there; init_consoles puts
\* the position of one that is not back to its start.
Output(w, no, str) ==
    /\ swaps[w] = NoCall /\ printed + Len(str) <= OutputLimit
    /\ consoles' = IF no < Len(consoles) THEN [consoles EXCEPT ![no + 1] = PutString(@, str)]
                   ELSE consoles
    /\ strayed' = Strays(no, str)
    /\ \E id \in FlushIds(no) : swaps' = [swaps EXCEPT ![w] = id]
    /\ printed' = printed + Len(str)
    /\ UNCHANGED <<nodes, screen>>

WrapperPutchar(w)      == \E no \in 0 .. ConsoleNum - 1, ch \in Chars : Output(w, no, <<ch>>)
WrapperPuts(w)         == \E no \in 0 .. ConsoleNum - 1, str \in Strings : Output(w, no, str)
WrapperFlushConsole(w) == \E no \in 0 .. ConsoleNum - 1 : Output(w, no, <<>>)

\* echo_key, of what escape_key makes of it.
EchoOnConsole(w) == \E ch \in Printables \cup {"newline", "tab", "backspace"} : Output(w, Active, <<ch>>)

\* What is shown of a framebuffer that is not there.
FromNull == [p \in Positions |-> NoCall]

\* What a framebuffer shows; nothing has been printed on one that tty does not know.
FrameShows(no) == IF no < Len(consoles) THEN Console(no).framebuffer ELSE Empty

\* __swap_framebuffer of one that covers the screen, and the answer.  For a number
\* that no framebuffer has, get_framebuffer gives NULL, which a driver of ring 1 may
\* read: anything is shown, or the call never ends.
SwapFramebuffer(w) ==
    /\ swaps[w] # NoCall
    /\ IF GetFramebuffer(swaps[w]) = {} THEN screen' = FromNull
       ELSE \E no \in GetFramebuffer(swaps[w]) : screen' = FrameShows(no)
    /\ swaps' = [swaps EXCEPT ![w] = NoCall]
    /\ UNCHANGED <<consoles, nodes, printed, strayed>>

\* Once a character has been written over what is not a framebuffer nothing is said
\* of what comes.
ConsoleNext ==
    /\ ~strayed
    /\ \/ CreateFramebuffer
       \/ InitConsole
       \/ \E w \in Writers : \/ WrapperPutchar(w) \/ WrapperPuts(w) \/ WrapperFlushConsole(w)
                             \/ EchoOnConsole(w) \/ SwapFramebuffer(w)

ConsoleSpec == ConsoleInit /\ [][ConsoleNext]_consoleVars
---------------------------------------------------------------------------
ConsoleTypeOK ==
    /\ \A n \in DOMAIN consoles :
           /\ consoles[n].framebuffer \in [Positions -> Printables \cup {Blank}]
           /\ consoles[n].pos_x \in Nat /\ consoles[n].pos_y \in Nat
    /\ swaps \in [Writers -> Nat \cup {NoCall}]
    /\ screen \in [Positions -> Printables \cup {Blank}] \cup {FromNull}
    /\ strayed \in BOOLEAN

\* When video has answered every call, the last one with a framebuffer, the screen
\* shows the active console, with everything that any of the threads has printed
\* there and nothing of another console.
\* (__flush_console, swap_framebuffer, get_framebuffer)
ScreenShowsConsole ==
    /\ consoles # <<>> /\ screen # FromNull
    /\ \A w \in Writers : swaps[w] = NoCall
    => screen = Console(Active).framebuffer

\* A backspace takes back the letter in front of it, wherever in the console the
\* letter was printed, the last column and the last line included.
\* (__putrawchar, __putchar)
BackspaceTakesBack ==
    \A n \in DOMAIN consoles, ch \in Printables :
        LET c == consoles[n]
        IN  Place(c) \in Positions =>
                PutString(c, <<ch, "backspace">>) = [c EXCEPT !.framebuffer[Place(c)] = Blank]

\* What is seen is what was printed on the active console, less what was taken back,
\* until a character is written where there is no framebuffer.
PrintedIsSeen == ~strayed => ScreenShowsConsole /\ BackspaceTakesBack
=============================================================================
