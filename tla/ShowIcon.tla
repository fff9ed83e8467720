------------------------------- MODULE ShowIcon -------------------------------
(* The icon the loader shows in the graphics mode, show_icon.c, and what the   *)
(* loader has for interrupts, init.c and int_handlers.c: the clock counts the   *)
(* progress while the program draws one frame after the other.                 *)
(*                                                                           *)
(* The clock is the only line that is ever enabled, the disk is polled.  A     *)
(* frame is the progress each of its rows was drawn with.                      *)
EXTENDS Integers, Sequences

CONSTANTS Complete,    \* the progress at which the icon has its colours, 100
          CntLimit,    \* the ticks it takes to get one further
          Rows         \* of the icon

ASSUME ShowIconAssumption ==
    Complete \in Nat \ {0} /\ CntLimit \in Nat \ {0} /\ Rows \in Nat \ {0}

VARIABLES clock_raised,      \* IRR, ISR and IMR of the clock's line
          in_service,
          clock_masked,
          interrupts_on,     \* rflags.IF
          handler,           \* where irq_interrup_handler is
          place,             \* where show_icon is
          progress, cnt,
          last_progress,
          rows_drawn,        \* what has been drawn of the frame
          shown              \* ghost: the frames that have been completed

clockVars == <<clock_raised, in_service, clock_masked>>
drawVars  == <<place, last_progress, rows_drawn, shown>>
iconVars  == <<clockVars, interrupts_on, handler, progress, cnt, drawVars>>

\* init_pic masks every line; loader_main has turned interrupts on.
IconInit ==
    /\ clock_raised = FALSE /\ in_service = FALSE /\ clock_masked = TRUE
    /\ interrupts_on = TRUE
    /\ handler = "none" /\ place = "start"
    /\ progress = -1 /\ cnt = 0 /\ last_progress = -1
    /\ rows_drawn = <<>> /\ shown = <<>>
---------------------------------------------------------------------------
(* The clock. *)

\* The timer raises its line.
Tick == /\ ~clock_raised /\ place # "done"
        /\ clock_raised' = TRUE
        /\ UNCHANGED <<in_service, clock_masked, interrupts_on, handler, progress, cnt, drawVars>>

\* init_idt_desc: every vector has an interrupt gate, which turns interrupts off.
ClockGate == "GATE_INTERRUPT"

TakeClockIrq == /\ clock_raised /\ ~in_service /\ ~clock_masked /\ interrupts_on
                /\ clock_raised' = FALSE /\ in_service' = TRUE
                /\ interrupts_on' = (ClockGate # "GATE_INTERRUPT")
                /\ handler' = "entered"
                /\ UNCHANGED <<clock_masked, progress, cnt, drawVars>>

Handles(from, to) == /\ handler = from
                     /\ handler' = to
                     /\ UNCHANGED drawVars

\* disable_irq and the ends of interrupt, then interrupts are on.
MaskAndEnd == /\ Handles("entered", "on")
              /\ clock_masked' = TRUE /\ in_service' = FALSE /\ interrupts_on' = TRUE
              /\ UNCHANGED <<clock_raised, progress, cnt>>

\* clock_irq_handler: progress is read, tested and counted on.
clock_irq_handler ==
    IF progress # -1 /\ progress < Complete
    THEN IF cnt + 1 >= CntLimit THEN cnt' = 0 /\ progress' = progress + 1
                                ELSE cnt' = cnt + 1 /\ UNCHANGED progress
    ELSE UNCHANGED <<progress, cnt>>

CallClockHandler == /\ Handles("on", "called")
                    /\ clock_irq_handler
                    /\ UNCHANGED <<clockVars, interrupts_on>>

\* cli and enable_irq.
Unmask == /\ Handles("called", "unmasked")
          /\ clock_masked' = FALSE /\ interrupts_on' = FALSE
          /\ UNCHANGED <<clock_raised, in_service, progress, cnt>>

ReturnFromIrq == /\ Handles("unmasked", "none")
                 /\ interrupts_on' = TRUE
                 /\ UNCHANGED <<clockVars, progress, cnt>>
---------------------------------------------------------------------------
(* show_icon. *)

Runs(from) == handler = "none" /\ place = from

\* Up to the loop: the clock is enabled, and ticks while the icon is read.
Prepare == /\ Runs("start")
           /\ progress' = 0 /\ clock_masked' = FALSE /\ place' = "test"
           /\ UNCHANGED <<clock_raised, in_service, interrupts_on, handler, cnt, last_progress, rows_drawn, shown>>

\* The two tests of the loop.
Test == /\ Runs("test")
        /\ place' = IF last_progress >= Complete THEN "done"
                 ELSE IF last_progress < progress THEN "display" ELSE "drawn"
        /\ UNCHANGED <<clockVars, interrupts_on, handler, progress, cnt, last_progress, rows_drawn, shown>>

\* Mutant of EnterDisplay: without the cli.
EnterDisplayOn == TRUE

\* display_icon up to its loops: cli.
EnterDisplay == FALSE

DisplayIcon == /\ Runs("display")
               /\ interrupts_on' = EnterDisplay
               /\ rows_drawn' = <<>> /\ place' = "rows"
               /\ UNCHANGED <<clockVars, handler, progress, cnt, last_progress, shown>>

\* A row of the icon, with the progress of that moment.
DrawRow == /\ Runs("rows") /\ Len(rows_drawn) < Rows
           /\ rows_drawn' = Append(rows_drawn, progress)
           /\ UNCHANGED <<clockVars, interrupts_on, handler, progress, cnt, place, last_progress, shown>>

\* Its end: sti.
EndDisplay == /\ Runs("rows") /\ Len(rows_drawn) = Rows
              /\ interrupts_on' = TRUE
              /\ shown' = Append(shown, rows_drawn) /\ place' = "drawn"
              /\ UNCHANGED <<clockVars, handler, progress, cnt, last_progress, rows_drawn>>

\* last_progress = progress, which need not be what has been drawn.
NoteProgress == /\ Runs("drawn")
                /\ last_progress' = progress /\ place' = "test"
                /\ UNCHANGED <<clockVars, interrupts_on, handler, progress, cnt, rows_drawn, shown>>

IconNext ==
    \/ Tick \/ TakeClockIrq \/ MaskAndEnd \/ CallClockHandler \/ Unmask \/ ReturnFromIrq
    \/ Prepare \/ Test \/ DisplayIcon \/ DrawRow \/ EndDisplay \/ NoteProgress

IconSpec == IconInit /\ [][IconNext]_iconVars
---------------------------------------------------------------------------
ShowIconTypeOK == /\ progress \in -1 .. Complete /\ cnt \in 0 .. CntLimit - 1
                  /\ last_progress \in -1 .. Complete
                  /\ Len(rows_drawn) <= Rows

\* Whenever the clock ticks, every frame is drawn with one progress, none is
\* paler than the one before it, show_icon has drawn one when it returns, and the
\* clock is as it was: enabled, and interrupts on.  A progress that comes between
\* the test and NoteProgress is never drawn, the last one included.
\* (display_icon, show_icon, clock_irq_handler, irq_interrup_handler)
IconIsShown ==
    /\ \A n \in DOMAIN shown :
          /\ \A i, j \in 1 .. Rows : shown[n][i] = shown[n][j]
          /\ n > 1 => shown[n - 1][1] < shown[n][1]
    /\ place = "done" => shown # <<>>
    /\ handler = "none" /\ place \notin {"start", "rows"} => interrupts_on /\ ~clock_masked /\ ~in_service
=============================================================================
