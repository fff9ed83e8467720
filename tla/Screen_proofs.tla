----------------------------- MODULE Screen_proofs -----------------------------
(* Proofs about what is typed and printed on its way to the eye: the icon of   *)
(* the loader, for any size, number of ticks and of steps to its colours; the  *)
(* keyboard driver and the terminal, for any letters, readers and number of    *)
(* keys; and the consoles and the video driver, for any screen, strings and    *)
(* threads that print, whatever the stack of a caller holds.                   *)
EXTENDS ShowIcon, Terminal, Console, QueueLemmas, FiniteSetTheorems
---------------------------------------------------------------------------
(* The icon. *)

Frames == [1 .. Rows -> Int]

IconTypes ==
    /\ progress \in -1 .. Complete /\ cnt \in 0 .. CntLimit - 1 /\ last_progress \in -1 .. Complete
    /\ rows_drawn \in Seq(Int) /\ Len(rows_drawn) <= Rows
    /\ shown \in Seq(Frames)

\* Where the handler is says what is masked, in service and switched off; while
\* the rows are drawn there is no handler.
ClockAsLeft ==
    /\ handler \in {"none", "entered", "on", "called", "unmasked"}
    /\ place \in {"start", "test", "display", "rows", "drawn", "done"}
    /\ handler = "entered"  => in_service /\ ~interrupts_on
    /\ handler \in {"on", "called"} => clock_masked /\ ~in_service /\ interrupts_on
    /\ handler = "unmasked" => ~clock_masked /\ ~in_service /\ ~interrupts_on
    /\ place = "start" => handler = "none" /\ clock_masked /\ ~in_service /\ interrupts_on
    /\ place = "rows"  => handler = "none" /\ ~clock_masked /\ ~in_service /\ ~interrupts_on
    /\ handler = "none" /\ place \notin {"start", "rows"} => ~clock_masked /\ ~in_service /\ interrupts_on

\* What has been drawn, is being drawn and has been noted is in the order it counted.
ProgressInOrder ==
    /\ IF place = "start" THEN progress = -1 /\ shown = <<>> ELSE progress >= 0
    /\ last_progress <= progress
    /\ place \in {"display", "rows"} => last_progress < progress
    /\ place = "rows" => \A i \in 1 .. Len(rows_drawn) : rows_drawn[i] = progress
    /\ shown # <<>> => shown[Len(shown)][1] <= IF place = "drawn" THEN progress ELSE last_progress
    /\ last_progress >= 0 \/ place = "drawn" => shown # <<>>
    /\ place = "done" => last_progress >= Complete

\* A frame is of one progress, which is more than that of the frame before.
FramesRise == \A n \in 1 .. Len(shown) : /\ \A i \in 1 .. Rows : shown[n][i] = shown[n][1]
                                         /\ n > 1 => shown[n - 1][1] < shown[n][1]

IconInv == IconTypes /\ ClockAsLeft /\ ProgressInOrder /\ FramesRise

LEMMA IconInitInv ==
    ASSUME ShowIconAssumption, IconInit
    PROVE  IconInv
<1>1. IconTypes
  <2>1. rows_drawn \in Seq(Int) /\ Len(rows_drawn) = 0 /\ shown \in Seq(Frames) BY DEF IconInit
  <2>2. progress = -1 /\ cnt = 0 /\ last_progress = -1 BY DEF IconInit
  <2> QED BY <2>1, <2>2 DEF IconTypes, ShowIconAssumption
<1>2. ClockAsLeft BY DEF IconInit, ClockAsLeft
<1>3. FramesRise
  <2>1. Len(shown) = 0 BY DEF IconInit
  <2> QED BY <2>1 DEF FramesRise
<1>4. ProgressInOrder BY DEF IconInit, ProgressInOrder
<1> QED BY <1>1, <1>2, <1>3, <1>4 DEF IconInv

ClockSteps == Tick \/ TakeClockIrq \/ MaskAndEnd \/ CallClockHandler \/ Unmask \/ ReturnFromIrq

\* The handler can be entered only where it leaves the way it was entered.
LEMMA ClockIsLeft ==
    ASSUME ClockAsLeft, IconNext
    PROVE  ClockAsLeft'
<1> USE DEF ClockAsLeft, clockVars, drawVars, Handles, Runs
<1>1. CASE Tick BY <1>1 DEF Tick
<1>2. CASE TakeClockIrq BY <1>2 DEF TakeClockIrq, ClockGate
<1>3. CASE MaskAndEnd BY <1>3 DEF MaskAndEnd
<1>4. CASE CallClockHandler BY <1>4 DEF CallClockHandler
<1>5. CASE Unmask BY <1>5 DEF Unmask
<1>6. CASE ReturnFromIrq BY <1>6 DEF ReturnFromIrq
<1>7. CASE Prepare BY <1>7 DEF Prepare
<1>8. CASE Test
  <2>1. place' \in {"done", "display", "drawn"} BY <1>8 DEF Test
  <2> QED BY <1>8, <2>1 DEF Test
<1>9. CASE DisplayIcon BY <1>9 DEF DisplayIcon, EnterDisplay
<1>10. CASE DrawRow BY <1>10 DEF DrawRow
<1>11. CASE EndDisplay BY <1>11 DEF EndDisplay
<1>12. CASE NoteProgress BY <1>12 DEF NoteProgress
<1> QED BY <1>1, <1>2, <1>3, <1>4, <1>5, <1>6, <1>7, <1>8, <1>9, <1>10, <1>11, <1>12 DEF IconNext

\* The clock counts only while no frame is being drawn.
LEMMA ClockKeeps ==
    ASSUME ShowIconAssumption, IconInv, ClockSteps
    PROVE  IconTypes' /\ ProgressInOrder' /\ FramesRise'
<1>1. UNCHANGED drawVars
  BY DEF ClockSteps, Tick, TakeClockIrq, MaskAndEnd, CallClockHandler, Unmask, ReturnFromIrq, Handles
<1>2. CASE UNCHANGED <<progress, cnt>>
  BY <1>1, <1>2 DEF IconInv, IconTypes, ProgressInOrder, FramesRise, drawVars
<1>3. CASE CallClockHandler /\ progress # -1 /\ progress < Complete
  <2>1. place \notin {"start", "rows"} BY <1>3 DEF CallClockHandler, Handles, IconInv, ClockAsLeft
  <2>2. progress' \in {progress, progress + 1} /\ cnt' \in {0, cnt + 1} /\ cnt' < CntLimit
    BY <1>3 DEF CallClockHandler, clock_irq_handler, IconInv, IconTypes, ShowIconAssumption
  <2>3. progress' \in -1 .. Complete /\ cnt' \in 0 .. CntLimit - 1
    BY <1>3, <2>2 DEF IconInv, IconTypes, ShowIconAssumption
  <2>4. IconTypes' BY <1>1, <2>3 DEF IconInv, IconTypes, drawVars
  <2>5. shown # <<>> => shown[Len(shown)][1] \in Int
    BY DEF IconInv, IconTypes, Frames, ShowIconAssumption
  <2>6. ProgressInOrder' BY <1>1, <2>1, <2>2, <2>5 DEF IconInv, IconTypes, ProgressInOrder, drawVars
  <2>7. FramesRise' BY <1>1 DEF IconInv, FramesRise, drawVars
  <2> QED BY <2>4, <2>6, <2>7
<1>4. CASE CallClockHandler /\ ~(progress # -1 /\ progress < Complete)
  <2>1. UNCHANGED <<progress, cnt>> BY <1>4 DEF CallClockHandler, clock_irq_handler
  <2> QED BY <1>2, <2>1
<1>5. CASE Tick \/ TakeClockIrq \/ MaskAndEnd \/ Unmask \/ ReturnFromIrq
  <2>1. UNCHANGED <<progress, cnt>>
    BY <1>5 DEF Tick, TakeClockIrq, MaskAndEnd, Unmask, ReturnFromIrq
  <2> QED BY <1>2, <2>1
<1> QED BY <1>3, <1>4, <1>5 DEF ClockSteps

LEMMA ShowKeeps ==
    ASSUME ShowIconAssumption, IconInv,
           Prepare \/ Test \/ DisplayIcon \/ DrawRow \/ NoteProgress
    PROVE  IconTypes' /\ ProgressInOrder' /\ FramesRise'
<1> USE DEF ShowIconAssumption, IconInv, IconTypes, Runs
<1>1. UNCHANGED shown BY DEF Prepare, Test, DisplayIcon, DrawRow, NoteProgress
<1>2. FramesRise' BY <1>1 DEF FramesRise
<1>3. CASE Prepare
  <2>1. ProgressInOrder' BY <1>3 DEF Prepare, ProgressInOrder
  <2>2. IconTypes' BY <1>1, <1>3 DEF Prepare
  <2> QED BY <1>2, <2>1, <2>2
<1>4. CASE Test
  <2>1. ProgressInOrder' BY <1>4 DEF Test, ProgressInOrder
  <2>2. IconTypes' BY <1>1, <1>4 DEF Test
  <2> QED BY <1>2, <2>1, <2>2
<1>5. CASE DisplayIcon
  <2>1. rows_drawn' \in Seq(Int) /\ Len(rows_drawn') = 0 BY <1>5 DEF DisplayIcon
  <2>2. ProgressInOrder' BY <1>5, <2>1 DEF DisplayIcon, ProgressInOrder
  <2>3. IconTypes' BY <1>1, <1>5, <2>1 DEF DisplayIcon
  <2> QED BY <1>2, <2>2, <2>3
<1>6. CASE DrawRow
  <2>1. rows_drawn' \in Seq(Int) /\ Len(rows_drawn') = Len(rows_drawn) + 1 BY <1>6 DEF DrawRow
  <2>2. \A i \in 1 .. Len(rows_drawn') : rows_drawn'[i] = progress BY <1>6, <2>1 DEF DrawRow, ProgressInOrder
  <2>3. ProgressInOrder' BY <1>6, <2>2 DEF DrawRow, ProgressInOrder
  <2>4. IconTypes' BY <1>1, <1>6, <2>1 DEF DrawRow
  <2> QED BY <1>2, <2>3, <2>4
<1>7. CASE NoteProgress
  <2>1. ProgressInOrder' BY <1>7 DEF NoteProgress, ProgressInOrder
  <2>2. IconTypes' BY <1>1, <1>7 DEF NoteProgress
  <2> QED BY <1>2, <2>1, <2>2
<1> QED BY <1>3, <1>4, <1>5, <1>6, <1>7

\* A frame that is complete is of the progress it was begun with, which is more than
\* that of the frames before.
LEMMA EndKeeps ==
    ASSUME ShowIconAssumption, IconInv, EndDisplay
    PROVE  IconTypes' /\ ProgressInOrder' /\ FramesRise'
<1> USE DEF ShowIconAssumption, IconInv, IconTypes, Runs
<1>1. place = "rows" /\ Len(rows_drawn) = Rows /\ place' = "drawn" /\ shown' = Append(shown, rows_drawn)
  BY DEF EndDisplay
<1>2. rows_drawn \in Frames /\ \A i \in 1 .. Rows : rows_drawn[i] = progress
  BY <1>1 DEF ProgressInOrder, Frames
<1>3. shown' \in Seq(Frames) /\ Len(shown') = Len(shown) + 1 BY <1>1, <1>2
<1>4. shown'[Len(shown')] = rows_drawn /\ \A n \in 1 .. Len(shown) : shown'[n] = shown[n] BY <1>1, <1>3
<1>5. rows_drawn[1] = progress /\ shown' # <<>> BY <1>2, <1>3
<1>6. ASSUME shown # <<>> PROVE shown[Len(shown)][1] < progress
  <2>1. shown[Len(shown)][1] <= last_progress /\ last_progress < progress
    BY <1>1, <1>6 DEF ProgressInOrder
  <2>2. shown[Len(shown)][1] \in Int BY <1>6 DEF Frames
  <2> QED BY <2>1, <2>2
<1>7. ASSUME NEW n \in 1 .. Len(shown')
      PROVE  /\ \A i \in 1 .. Rows : shown'[n][i] = shown'[n][1]
             /\ n > 1 => shown'[n - 1][1] < shown'[n][1]
  <2>1. CASE n = Len(shown')
    <3>1. shown'[n] = rows_drawn /\ n = Len(shown) + 1 BY <1>3, <1>4, <2>1
    <3>2. \A i \in 1 .. Rows : rows_drawn[i] = rows_drawn[1] BY <1>2
    <3>3. n > 1 => shown # <<>> /\ shown'[n - 1] = shown[Len(shown)] BY <1>4, <3>1
    <3> QED BY <1>5, <1>6, <3>1, <3>2, <3>3
  <2>2. CASE n \in 1 .. Len(shown)
    <3>1. shown'[n] = shown[n] BY <1>4, <2>2
    <3>2. ASSUME n > 1 PROVE shown'[n - 1] = shown[n - 1]
      <4>1. n - 1 \in 1 .. Len(shown) BY <1>4, <2>2, <3>2
      <4> QED BY <1>4, <4>1
    <3> QED BY <2>2, <3>1, <3>2 DEF FramesRise
  <2> QED BY <1>3, <2>1, <2>2
<1>8. UNCHANGED <<progress, cnt, last_progress, rows_drawn>> BY DEF EndDisplay
<1>9. ProgressInOrder'
  <2>1. shown'[Len(shown')][1] = progress BY <1>4, <1>5
  <2> QED BY <1>1, <1>5, <1>8, <2>1 DEF ProgressInOrder
<1>10. IconTypes' BY <1>3, <1>8
<1> QED BY <1>7, <1>9, <1>10 DEF FramesRise

\* ShowIcon: the clock and the drawing leave all of this as it should be.
\* (show_icon, clock_irq_handler, irq_interrup_handler)
THEOREM IconInvariant ==
    ASSUME ShowIconAssumption
    PROVE  IconSpec => []IconInv
<1>1. IconInit => IconInv BY IconInitInv
<1>2. IconInv /\ [IconNext]_iconVars => IconInv'
  <2> SUFFICES ASSUME IconInv, [IconNext]_iconVars PROVE IconInv' OBVIOUS
  <2>1. CASE UNCHANGED iconVars
    BY <2>1 DEF iconVars, clockVars, drawVars, IconInv, IconTypes, ClockAsLeft, ProgressInOrder,
                FramesRise
  <2>2. CASE IconNext
    <3>1. ClockAsLeft' BY <2>2, ClockIsLeft DEF IconInv
    <3>2. IconTypes' /\ ProgressInOrder' /\ FramesRise'
      BY <2>2, ClockKeeps, ShowKeeps, EndKeeps DEF IconNext, ClockSteps
    <3> QED BY <3>1, <3>2 DEF IconInv
  <2> QED BY <2>1, <2>2
<1> QED BY <1>1, <1>2, PTL DEF IconSpec

\* ShowIcon: every frame is of one progress and of a later one than the frame before
\* it, one is shown before show_icon returns, and the clock is enabled again, for any
\* number of rows, ticks and steps.  (display_icon, show_icon, irq_interrup_handler)
THEOREM IconIsShownCorrect ==
    ASSUME ShowIconAssumption
    PROVE  IconSpec => []IconIsShown
<1>1. IconInv => IconIsShown
  <2> SUFFICES ASSUME IconInv PROVE IconIsShown OBVIOUS
  <2>1. \A n \in DOMAIN shown :
           /\ \A i, j \in 1 .. Rows : shown[n][i] = shown[n][j]
           /\ n > 1 => shown[n - 1][1] < shown[n][1]
    <3>1. DOMAIN shown = 1 .. Len(shown) BY DEF IconInv, IconTypes
    <3> QED BY <3>1 DEF IconInv, FramesRise
  <2>2. place = "done" => shown # <<>>
    BY DEF ShowIconAssumption, IconInv, IconTypes, ProgressInOrder
  <2>3. handler = "none" /\ place \notin {"start", "rows"} => interrupts_on /\ ~clock_masked /\ ~in_service
    BY DEF IconInv, ClockAsLeft
  <2> QED BY <2>1, <2>2, <2>3 DEF IconIsShown
<1> QED BY <1>1, IconInvariant, PTL
---------------------------------------------------------------------------
(* The terminal. *)

\* The semaphores and the threads have names of their own.
LEMMA NamesDiffer ==
    ASSUME TerminalAssumption
    PROVE  /\ full # local_full /\ full # signal /\ full # wait_enter
           /\ local_full # signal /\ local_full # wait_enter /\ signal # wait_enter
           /\ {full, local_full, signal, wait_enter} = Ids
           /\ driver \in Users /\ echo \in Users /\ Readers \subseteq Users /\ driver # echo
           /\ driver \notin Readers /\ echo \notin Readers /\ Users = Readers \cup {driver, echo}
           /\ ENTER \in Keys /\ Reply \notin Keys /\ IsFiniteSet(Readers)
<1>1. ASSUME NEW a, NEW b, NEW c PROVE Cardinality({a, b, c}) <= 3
  <2>1. IsFiniteSet({}) /\ Cardinality({}) = 0 BY FS_EmptySet
  <2>2. IsFiniteSet({a}) /\ Cardinality({a}) = 1 BY FS_Singleton
  <2>3. IsFiniteSet({a} \cup {b}) /\ Cardinality({a} \cup {b}) \in {1, 2}
    <3>1. CASE b \in {a}
      <4>1. {a} \cup {b} = {a} BY <3>1
      <4> QED BY <2>2, <4>1
    <3>2. CASE b \notin {a} BY <2>2, <3>2, FS_AddElement
    <3> QED BY <3>1, <3>2
  <2>4. Cardinality(({a} \cup {b}) \cup {c}) \in {1, 2, 3}
    <3>1. CASE c \in {a} \cup {b}
      <4>1. ({a} \cup {b}) \cup {c} = {a} \cup {b} BY <3>1
      <4> QED BY <2>3, <4>1
    <3>2. CASE c \notin {a} \cup {b} BY <2>3, <3>2, FS_AddElement
    <3> QED BY <3>1, <3>2
  <2>5. Cardinality(({a} \cup {b}) \cup {c}) <= 3 BY <2>4
  <2>6. ({a} \cup {b}) \cup {c} = {a, b, c} OBVIOUS
  <2> QED BY <2>5, <2>6
<1>2. Ids = {full, local_full, signal, wait_enter} /\ Cardinality(Ids) = 4 BY DEF TerminalAssumption
<1>3. full # local_full
  <2> SUFFICES ASSUME full = local_full PROVE FALSE OBVIOUS
  <2>1. Ids = {full, signal, wait_enter} BY <1>2
  <2>2. Cardinality({full, signal, wait_enter}) <= 3 BY <1>1
  <2> QED BY <1>2, <2>1, <2>2
<1>4. full # signal
  <2> SUFFICES ASSUME full = signal PROVE FALSE OBVIOUS
  <2>1. Ids = {full, local_full, wait_enter} BY <1>2
  <2>2. Cardinality({full, local_full, wait_enter}) <= 3 BY <1>1
  <2> QED BY <1>2, <2>1, <2>2
<1>5. full # wait_enter
  <2> SUFFICES ASSUME full = wait_enter PROVE FALSE OBVIOUS
  <2>1. Ids = {full, local_full, signal} BY <1>2
  <2>2. Cardinality({full, local_full, signal}) <= 3 BY <1>1
  <2> QED BY <1>2, <2>1, <2>2
<1>6. local_full # signal
  <2> SUFFICES ASSUME local_full = signal PROVE FALSE OBVIOUS
  <2>1. Ids = {full, signal, wait_enter} BY <1>2
  <2>2. Cardinality({full, signal, wait_enter}) <= 3 BY <1>1
  <2> QED BY <1>2, <2>1, <2>2
<1>7. local_full # wait_enter
  <2> SUFFICES ASSUME local_full = wait_enter PROVE FALSE OBVIOUS
  <2>1. Ids = {full, signal, wait_enter} BY <1>2
  <2>2. Cardinality({full, signal, wait_enter}) <= 3 BY <1>1
  <2> QED BY <1>2, <2>1, <2>2
<1>8. signal # wait_enter
  <2> SUFFICES ASSUME signal = wait_enter PROVE FALSE OBVIOUS
  <2>1. Ids = {full, local_full, wait_enter} BY <1>2
  <2>2. Cardinality({full, local_full, wait_enter}) <= 3 BY <1>1
  <2> QED BY <1>2, <2>1, <2>2
<1>9. /\ Users = Readers \cup {driver, echo} /\ driver # echo /\ {driver, echo} \cap Readers = {}
      /\ ENTER \in Keys /\ Reply \notin Keys /\ IsFiniteSet(Readers)
  BY DEF TerminalAssumption, Keys
<1> QED BY <1>2, <1>3, <1>4, <1>5, <1>6, <1>7, <1>8, <1>9

EnterAt(s) == {i \in 1 .. Len(s) : s[i] = ENTER}

LEMMA EntersFinite ==
    ASSUME NEW S, NEW s \in Seq(S)
    PROVE  IsFiniteSet(EnterAt(s)) /\ LinesIn(s) = Cardinality(EnterAt(s)) /\ LinesIn(s) \in Nat
<1>1. IsFiniteSet(1 .. Len(s)) BY FS_Interval
<1>2. EnterAt(s) \subseteq 1 .. Len(s) BY DEF EnterAt
<1>3. DOMAIN s = 1 .. Len(s) OBVIOUS
<1> QED BY <1>1, <1>2, <1>3, FS_Subset, FS_CardinalityType DEF LinesIn, EnterAt

LEMMA LinesInNone == LinesIn(<<>>) = 0
<1>1. {i \in DOMAIN <<>> : <<>>[i] = ENTER} = {} OBVIOUS
<1> QED BY <1>1, FS_EmptySet DEF LinesIn

LEMMA LinesInAppend ==
    ASSUME NEW S, NEW s \in Seq(S), NEW k \in S
    PROVE  LinesIn(Append(s, k)) = LinesIn(s) + IF k = ENTER THEN 1 ELSE 0
<1> DEFINE t == Append(s, k)
<1>1. t \in Seq(S) /\ Len(t) = Len(s) + 1 /\ t[Len(s) + 1] = k /\ \A i \in 1 .. Len(s) : t[i] = s[i]
  OBVIOUS
<1> HIDE DEF t
<1>2. CASE k = ENTER
  <2>1. EnterAt(t) = EnterAt(s) \cup {Len(s) + 1} BY <1>1, <1>2 DEF EnterAt
  <2>2. Len(s) + 1 \notin EnterAt(s) BY DEF EnterAt
  <2>3. Cardinality(EnterAt(t)) = Cardinality(EnterAt(s)) + 1
    BY <2>1, <2>2, EntersFinite, FS_AddElement
  <2>4. LinesIn(t) = LinesIn(s) + 1 BY <1>1, <2>3, EntersFinite
  <2> QED BY <1>2, <2>4 DEF t
<1>3. CASE k # ENTER
  <2>1. EnterAt(t) = EnterAt(s) BY <1>1, <1>3 DEF EnterAt
  <2>2. LinesIn(t) = LinesIn(s) BY <1>1, <2>1, EntersFinite
  <2> QED BY <1>3, <2>2, EntersFinite DEF t
<1> QED BY <1>2, <1>3

LEMMA LinesInTail ==
    ASSUME NEW S, NEW s \in Seq(S), s # <<>>
    PROVE  LinesIn(s) = LinesIn(Tail(s)) + IF Head(s) = ENTER THEN 1 ELSE 0
<1> DEFINE t == Tail(s)
           B == EnterAt(s) \ {1}
           f == [i \in EnterAt(t) |-> i + 1]
<1>1. /\ t \in Seq(S) /\ Len(t) = Len(s) - 1 /\ Len(s) \in Nat \ {0} /\ Head(s) = s[1]
      /\ \A i \in 1 .. Len(t) : t[i] = s[i + 1]
  OBVIOUS
<1> HIDE DEF t
<1>2. f \in Bijection(EnterAt(t), B)
  <2>1. f \in [EnterAt(t) -> B] BY <1>1 DEF EnterAt
  <2>2. \A i, j \in EnterAt(t) : f[i] = f[j] => i = j BY <1>1 DEF EnterAt
  <2>3. ASSUME NEW j \in B PROVE \E i \in EnterAt(t) : f[i] = j
    <3>1. j - 1 \in EnterAt(t) /\ (j - 1) + 1 = j BY <1>1, <2>3 DEF EnterAt
    <3> QED BY <3>1
  <2> HIDE DEF f, B
  <2>4. f \in Injection(EnterAt(t), B) BY <2>1, <2>2 DEF Injection, IsInjective
  <2>5. f \in Surjection(EnterAt(t), B) BY <2>1, <2>3 DEF Surjection
  <2> QED BY <2>4, <2>5 DEF Bijection
<1>3. Cardinality(B) = Cardinality(EnterAt(t))
  BY <1>1, <1>2, EntersFinite, FS_Bijection DEF ExistsBijection
<1>4. Cardinality(EnterAt(s)) = Cardinality(B) + IF Head(s) = ENTER THEN 1 ELSE 0
  <2>1. CASE Head(s) = ENTER
    <3>1. 1 \in EnterAt(s) BY <1>1, <2>1 DEF EnterAt
    <3>2. Cardinality(B) = Cardinality(EnterAt(s)) - 1
      BY <3>1, EntersFinite, FS_RemoveElement
    <3>3. Cardinality(EnterAt(s)) \in Nat BY EntersFinite, FS_CardinalityType
    <3> QED BY <2>1, <3>2, <3>3
  <2>2. CASE Head(s) # ENTER
    <3>1. 1 \notin EnterAt(s) BY <1>1, <2>2 DEF EnterAt
    <3>2. B = EnterAt(s) BY <3>1
    <3>3. Cardinality(B) = Cardinality(EnterAt(s)) BY <3>2
    <3>4. Cardinality(EnterAt(s)) \in Nat BY EntersFinite, FS_CardinalityType
    <3> HIDE DEF B
    <3> QED BY <2>2, <3>3, <3>4
  <2> QED BY <2>1, <2>2
<1> QED BY <1>1, <1>3, <1>4, EntersFinite DEF t
---------------------------------------------------------------------------
\* Readers that have a unit of wait_enter, and those that have a key to take.
LineHolders == {r \in Readers : at[r] \in {"getkey", "take"} /\ r \notin waiting[wait_enter]}
KeyHolders  == {r \in Readers : at[r] = "take" /\ r \notin waiting[local_full]}

DriverHolds == at[driver] = "pass" /\ driver \notin waiting[full]
EchoHolds   == at[echo] = "echo" /\ echo \notin waiting[signal]

Limits == [s \in Ids |-> CASE s = signal -> 1 [] s = wait_enter -> CONSOLE_LINES [] OTHER -> TypeLimit]

TerminalTypes ==
    /\ typed \in Seq(Keys) /\ fifo \in Seq(Keys) /\ local \in Seq(Keys)
    /\ mail \in Seq(Keys \cup {Reply}) /\ key \in Keys /\ echoed \in Seq(Keys)
    /\ max = Limits /\ free \in [Ids -> Nat] /\ waiting \in [Ids -> SUBSET Users]

PlacesOfThreads ==
    /\ DOMAIN at = Users
    /\ at[driver] \in {"read", "pass"} /\ at[echo] \in {"wait", "echo", "swap", "answered"}
    /\ \A r \in Readers : at[r] \in {"idle", "getkey", "take"}

\* Nobody waits for what is there.
NoneFreeWhileWaiting == \A s \in Ids : free[s] <= max[s] /\ (free[s] > 0 => waiting[s] = {})

\* Every key in the I/O manager's fifo has a unit of its semaphore, or the driver
\* comes for it.
DriverCounted ==
    /\ free[full] + (IF DriverHolds THEN 1 ELSE 0) = Len(fifo)
    /\ waiting[full] \subseteq {driver} /\ (driver \in waiting[full] => at[driver] = "pass")

\* The same of the driver's fifo and the readers.
KeysCounted ==
    /\ free[local_full] + Cardinality(KeyHolders) = Len(local)
    /\ waiting[local_full] \subseteq {r \in Readers : at[r] = "take"}

\* So has every line, but for the one the message loop is at and those it has not seen.
LinesCounted ==
    /\ ~lost => free[wait_enter] + Cardinality(LineHolders) + LinesIn(mail)
                    + (IF entered THEN 1 ELSE 0) = LinesIn(local)
    /\ waiting[wait_enter] \subseteq {r \in Readers : at[r] = "getkey"}

KeysWithinLimit == Len(fifo) + Len(local) <= Len(typed) /\ Len(typed) <= TypeLimit

\* The video driver answers echo_input, once, and nobody else.
EchoAnswered ==
    /\ waiting[signal] \subseteq {echo} /\ (echo \in waiting[signal] => at[echo] = "echo")
    /\ \A i \in 1 .. Len(mail) : mail[i] = Reply => at[echo] = "answered"
    /\ \A i, j \in 1 .. Len(mail) : mail[i] = Reply /\ mail[j] = Reply => i = j

\* echo_input has shown the tty's key or is going to.
KeyIsEchoed == \/ free[signal] > 0
               \/ EchoHolds
               \/ echoed # <<>> /\ echoed[Len(echoed)] = key

\* The last key that was typed is the last in the fifo, or else the last in the
\* mailbox, or else the tty's.
LastKeyOnItsWay ==
    /\ fifo # <<>> => fifo[Len(fifo)] = typed[Len(typed)]
    /\ fifo = <<>> => \A i \in 1 .. Len(mail) :
           mail[i] # Reply /\ (\A j \in i + 1 .. Len(mail) : mail[j] = Reply)
               => mail[i] = typed[Len(typed)]
    /\ fifo = <<>> /\ typed # <<>> /\ (\A i \in 1 .. Len(mail) : mail[i] = Reply)
           => key = typed[Len(typed)] /\ KeyIsEchoed

TerminalInv ==
    /\ TerminalTypes /\ PlacesOfThreads /\ NoneFreeWhileWaiting /\ KeysWithinLimit
    /\ DriverCounted /\ KeysCounted /\ LinesCounted /\ EchoAnswered /\ LastKeyOnItsWay
---------------------------------------------------------------------------
(* What up_signal and down_signal do to the semaphores. *)

Others(s) == \A r \in Ids \ {s} : free'[r] = free[r] /\ waiting'[r] = waiting[r]

LEMMA LimitsAre ==
    ASSUME TerminalAssumption
    PROVE  /\ Limits \in [Ids -> Nat]
           /\ Limits[full] = TypeLimit /\ Limits[local_full] = TypeLimit
BY NamesDiffer DEF TerminalAssumption, Limits

LEMMA UpDoes ==
    ASSUME TerminalAssumption, TerminalTypes, NoneFreeWhileWaiting, NEW s \in Ids, Up(s)
    PROVE  /\ max' = max /\ free' \in [Ids -> Nat] /\ waiting' \in [Ids -> SUBSET Users]
           /\ NoneFreeWhileWaiting' /\ Others(s)
           /\ \/ /\ free[s] = 0 /\ free'[s] = 0
                 /\ \E t \in waiting[s] : waiting'[s] = waiting[s] \ {t}
              \/ waiting[s] = {} /\ waiting'[s] = {} /\ free'[s] = free[s] + 1
              \/ waiting[s] = {} /\ waiting'[s] = {} /\ free'[s] = free[s] /\ AtMaximum(s)
<1> USE LimitsAre DEF TerminalTypes, NoneFreeWhileWaiting, Others
<1>1. CASE \E t \in Users : HandOver(s, t)
  <2>1. PICK t \in Users : HandOver(s, t) BY <1>1
  <2>2. t \in waiting[s] /\ waiting' = [waiting EXCEPT ![s] = @ \ {t}] /\ UNCHANGED <<max, free>>
    BY <2>1 DEF HandOver
  <2>3. free[s] = 0 BY <2>2
  <2> QED BY <2>2, <2>3
<1>2. CASE GiveBack(s)
  <2>1. /\ waiting[s] = {} /\ free[s] < max[s] /\ max' = max /\ waiting' = waiting
        /\ free' = [free EXCEPT ![s] = @ + 1]
    BY <1>2 DEF GiveBack
  <2>2. free[s] \in Nat /\ free' \in [Ids -> Nat] /\ free'[s] = free[s] + 1 /\ Others(s)
    BY SMTT(30), <2>1
  <2>3. max \in [Ids -> Nat] OBVIOUS
  <2>4. ASSUME NEW r \in Ids PROVE free'[r] <= max[r] /\ (free'[r] > 0 => waiting[r] = {})
    <3>1. CASE r = s
      <4>1. max[s] \in Nat /\ free[s] \in Nat BY <2>3
      <4>2. free[s] + 1 <= max[s] BY <2>1, <4>1
      <4> HIDE DEF TerminalTypes, NoneFreeWhileWaiting
      <4> QED BY <2>1, <2>2, <3>1, <4>2
    <3>2. CASE r # s
      <4>1. free'[r] = free[r] BY <2>2, <3>2
      <4> QED BY <4>1
    <3> QED BY <3>1, <3>2
  <2> QED BY <2>1, <2>2, <2>4
<1>3. CASE AtMaximum(s) /\ UNCHANGED csVars BY <1>3 DEF AtMaximum, csVars
<1> QED BY <1>1, <1>2, <1>3 DEF Up

LEMMA DownDoes ==
    ASSUME TerminalAssumption, TerminalTypes, NoneFreeWhileWaiting,
           NEW t \in Users, NEW s \in Ids, NEW from, NEW to, Down(t, from, s, to)
    PROVE  /\ max' = max /\ free' \in [Ids -> Nat] /\ waiting' \in [Ids -> SUBSET Users]
           /\ NoneFreeWhileWaiting' /\ Others(s)
           /\ at[t] = from /\ at' = [at EXCEPT ![t] = to] /\ \A r \in Ids : t \notin waiting[r]
           /\ \/ free[s] > 0 /\ free'[s] = free[s] - 1 /\ waiting'[s] = waiting[s]
              \/ free[s] = 0 /\ free'[s] = 0 /\ waiting'[s] = waiting[s] \cup {t}
<1> USE LimitsAre DEF TerminalTypes, NoneFreeWhileWaiting, Others, Down, IsAt, Goes, Sleeps
<1>1. CASE Take(s)
  <2>1. free[s] > 0 /\ max' = max /\ waiting' = waiting /\ free' = [free EXCEPT ![s] = @ - 1]
    BY <1>1 DEF Take
  <2>2. free[s] \in Nat /\ free' \in [Ids -> Nat] /\ free'[s] = free[s] - 1 BY SMTT(30), <2>1
  <2>3. max \in [Ids -> Nat] OBVIOUS
  <2>4. ASSUME NEW r \in Ids PROVE free'[r] <= max[r] /\ (free'[r] > 0 => waiting[r] = {})
    <3>1. CASE r = s
      <4>1. free[s] <= max[s] /\ waiting[s] = {} BY <2>1
      <4>2. max[s] \in Nat BY <2>3
      <4> QED BY SMTT(30), <2>2, <3>1, <4>1, <4>2
    <3>2. CASE r # s
      <4>1. free'[r] = free[r] BY <2>1, <3>2
      <4> QED BY <4>1
    <3> QED BY <3>1, <3>2
  <2>5. Others(s) BY <2>1
  <2> QED BY <2>1, <2>2, <2>4, <2>5
<1>2. CASE Wait(s, t) BY <1>2 DEF Wait
<1> QED BY <1>1, <1>2

\* A unit is given back to those that hold one, or to the free ones.
LEMMA UpCounts ==
    ASSUME TerminalAssumption, TerminalTypes, NoneFreeWhileWaiting, NEW s \in Ids, Up(s),
           ~AtMaximum(s), NEW S, IsFiniteSet(S), S \cap waiting[s] = {}
    PROVE  free'[s] + Cardinality(S \cup (waiting[s] \ waiting'[s])) = free[s] + Cardinality(S) + 1
<1> DEFINE W == waiting[s] \ waiting'[s]
<1>1. Cardinality(S) \in Nat /\ free[s] \in Nat BY FS_CardinalityType DEF TerminalTypes
<1>2. CASE \E t \in waiting[s] : waiting'[s] = waiting[s] \ {t} /\ free[s] = 0 /\ free'[s] = 0
  <2>1. PICK t \in waiting[s] : waiting'[s] = waiting[s] \ {t} BY <1>2
  <2>2. W = {t} /\ t \notin S BY <2>1
  <2>3. Cardinality(S \cup {t}) = Cardinality(S) + 1 BY <2>2, FS_AddElement
  <2>4. S \cup W = S \cup {t} BY <2>2
  <2> HIDE DEF W
  <2>5. Cardinality(S \cup W) = Cardinality(S) + 1 BY <2>3, <2>4
  <2>6. free'[s] + Cardinality(S \cup W) = free[s] + Cardinality(S) + 1 BY <1>1, <1>2, <2>5
  <2> QED BY <2>6 DEF W
<1>3. CASE waiting[s] = {} /\ free'[s] = free[s] + 1
  <2>1. S \cup W = S BY <1>3
  <2> HIDE DEF W
  <2>2. Cardinality(S \cup W) = Cardinality(S) BY <2>1
  <2>3. free'[s] + Cardinality(S \cup W) = free[s] + Cardinality(S) + 1 BY <1>1, <1>3, <2>2
  <2> QED BY <2>3 DEF W
<1> QED BY <1>2, <1>3, UpDoes

\* A unit is taken by one that held none, or waited for.
LEMMA DownCounts ==
    ASSUME TerminalAssumption, TerminalTypes, NoneFreeWhileWaiting,
           NEW t \in Users, NEW s \in Ids, NEW from, NEW to, Down(t, from, s, to),
           NEW S, IsFiniteSet(S), t \notin S, NEW T, T = S \cup ({t} \ waiting'[s])
    PROVE  free'[s] + Cardinality(T) = free[s] + Cardinality(S)
<1>1. Cardinality(S) \in Nat /\ free[s] \in Nat BY FS_CardinalityType DEF TerminalTypes
<1>2. CASE free[s] > 0 /\ free'[s] = free[s] - 1 /\ waiting'[s] = waiting[s]
  <2>1. t \notin waiting[s] BY DownDoes
  <2>2. T = S \cup {t} BY <1>2, <2>1
  <2>3. Cardinality(T) = Cardinality(S) + 1 BY <2>2, FS_AddElement
  <2> QED BY <1>1, <1>2, <2>3
<1>3. CASE free[s] = 0 /\ free'[s] = 0 /\ waiting'[s] = waiting[s] \cup {t}
  <2>1. T = S BY <1>3
  <2> QED BY <1>3, <2>1
<1> QED BY <1>2, <1>3, DownDoes

LEMMA HoldersFinite ==
    ASSUME TerminalAssumption
    PROVE  /\ IsFiniteSet(KeyHolders) /\ IsFiniteSet(LineHolders)
           /\ Cardinality(KeyHolders) \in Nat /\ Cardinality(LineHolders) \in Nat
<1>1. KeyHolders \subseteq Readers /\ LineHolders \subseteq Readers BY DEF KeyHolders, LineHolders
<1> QED BY <1>1, NamesDiffer, FS_Subset, FS_CardinalityType
---------------------------------------------------------------------------
(* Where a step does not touch a fifo and its threads, what is counted stays. *)

LEMMA DriverFrame ==
    ASSUME DriverCounted, free'[full] = free[full], waiting'[full] = waiting[full],
           at'[driver] = at[driver], Len(fifo') = Len(fifo)
    PROVE  DriverCounted'
BY DEF DriverCounted, DriverHolds

LEMMA KeysFrame ==
    ASSUME KeysCounted, free'[local_full] = free[local_full],
           waiting'[local_full] = waiting[local_full],
           \A r \in Readers : at'[r] = "take" <=> at[r] = "take", Len(local') = Len(local)
    PROVE  KeysCounted'
<1>1. KeyHolders' = KeyHolders BY DEF KeyHolders
<1>2. {r \in Readers : at'[r] = "take"} = {r \in Readers : at[r] = "take"} OBVIOUS
<1> QED BY <1>1, <1>2 DEF KeysCounted

\* The lines of all of them are numbers.
LEMMA LinesAreNumbers ==
    ASSUME TerminalTypes
    PROVE  LinesIn(mail) \in Nat /\ LinesIn(local) \in Nat
BY EntersFinite DEF TerminalTypes

LEMMA LinesFrame ==
    ASSUME TerminalAssumption, TerminalTypes, TerminalTypes', LinesCounted,
           free'[wait_enter] = free[wait_enter],
           waiting'[wait_enter] = waiting[wait_enter],
           \A r \in Readers : at'[r] \in {"getkey", "take"} <=> at[r] \in {"getkey", "take"},
           \A r \in waiting[wait_enter] : at'[r] = at[r],
           LinesIn(mail') - LinesIn(mail) = LinesIn(local') - LinesIn(local),
           UNCHANGED <<entered, lost>>
    PROVE  LinesCounted'
<1>1. LineHolders' = LineHolders BY DEF LineHolders
<1>2. waiting'[wait_enter] \subseteq {r \in Readers : at'[r] = "getkey"} BY DEF LinesCounted
<1>3. /\ LinesIn(mail) \in Nat /\ LinesIn(local) \in Nat /\ LinesIn(mail') \in Nat
      /\ LinesIn(local') \in Nat /\ Cardinality(LineHolders) \in Nat /\ free[wait_enter] \in Nat
  BY EntersFinite, HoldersFinite, NamesDiffer DEF TerminalTypes
<1>4. ASSUME ~lost
      PROVE  free[wait_enter] + Cardinality(LineHolders) + LinesIn(mail')
                 + (IF entered THEN 1 ELSE 0) = LinesIn(local')
  <2>1. free[wait_enter] + Cardinality(LineHolders) + LinesIn(mail)
            + (IF entered THEN 1 ELSE 0) = LinesIn(local)
    BY <1>4 DEF LinesCounted
  <2> QED BY <1>3, <2>1
<1> QED BY <1>1, <1>2, <1>4 DEF LinesCounted

LEMMA EchoFrame ==
    ASSUME EchoAnswered, waiting'[signal] = waiting[signal], at'[echo] = at[echo], mail' = mail
    PROVE  EchoAnswered'
BY DEF EchoAnswered

LEMMA LastKeyFrame ==
    ASSUME LastKeyOnItsWay, free'[signal] = free[signal], waiting'[signal] = waiting[signal],
           at'[echo] = at[echo], UNCHANGED <<mail, fifo, typed, key, echoed>>
    PROVE  LastKeyOnItsWay'
BY DEF LastKeyOnItsWay, KeyIsEchoed, EchoHolds

---------------------------------------------------------------------------
(* The steps. *)

LEMMA TypeKeeps ==
    ASSUME TerminalAssumption, TerminalInv, NEW k \in Keys, Type(k)
    PROVE  TerminalInv'
<1> USE NamesDiffer
<1>1. /\ Len(typed) < TypeLimit /\ typed' = Append(typed, k) /\ fifo' = Append(fifo, k) /\ Up(full)
      /\ UNCHANGED <<mail, local, key, entered, at, echoed, lost>>
  BY DEF Type
<1>2. /\ typed' \in Seq(Keys) /\ Len(typed') = Len(typed) + 1 /\ typed'[Len(typed')] = k
      /\ fifo' \in Seq(Keys) /\ Len(fifo') = Len(fifo) + 1 /\ fifo'[Len(fifo')] = k
  BY <1>1 DEF TerminalInv, TerminalTypes
<1>3. /\ max' = max /\ free' \in [Ids -> Nat] /\ waiting' \in [Ids -> SUBSET Users]
      /\ NoneFreeWhileWaiting' /\ Others(full)
  BY <1>1, UpDoes DEF TerminalInv
<1>4. TerminalTypes' BY <1>1, <1>2, <1>3 DEF TerminalInv, TerminalTypes, Limits
<1>5. PlacesOfThreads' BY <1>1 DEF TerminalInv, PlacesOfThreads
<1>6. /\ Len(typed) \in Nat /\ Len(fifo) \in Nat /\ Len(local) \in Nat /\ TypeLimit \in Nat
      /\ free[full] \in Nat
  BY DEF TerminalInv, TerminalTypes, TerminalAssumption
<1>7. KeysWithinLimit' BY <1>1, <1>2, <1>6 DEF TerminalInv, KeysWithinLimit
<1>8. DriverCounted'
  <2>1. free[full] < TypeLimit BY <1>1, <1>6 DEF TerminalInv, DriverCounted, KeysWithinLimit
  <2>2. ~AtMaximum(full) BY <2>1, <1>6, LimitsAre DEF AtMaximum, TerminalInv, TerminalTypes
  <2>3. CASE /\ free[full] = 0 /\ free'[full] = 0
             /\ \E t \in waiting[full] : waiting'[full] = waiting[full] \ {t}
    <3>1. driver \in waiting[full] /\ waiting'[full] = {} BY <2>3 DEF TerminalInv, DriverCounted
    <3>2. at'[driver] = "pass" /\ Len(fifo) = 0
      BY <1>1, <2>3, <3>1 DEF TerminalInv, DriverCounted, DriverHolds
    <3> QED BY <1>2, <2>3, <3>1, <3>2 DEF DriverCounted, DriverHolds
  <2>4. CASE waiting[full] = {} /\ waiting'[full] = {} /\ free'[full] = free[full] + 1
    BY <1>1, <1>2, <1>6, <2>4 DEF TerminalInv, DriverCounted, DriverHolds
  <2> QED BY <1>1, <2>2, <2>3, <2>4, UpDoes DEF TerminalInv
<1>9. KeysCounted' BY <1>1, <1>3, KeysFrame DEF TerminalInv, Others
<1>10. LinesCounted'
  <2>1. free'[wait_enter] = free[wait_enter] /\ waiting'[wait_enter] = waiting[wait_enter]
    BY <1>3 DEF Others
  <2>2. LinesIn(mail') - LinesIn(mail) = LinesIn(local') - LinesIn(local)
    BY <1>1, LinesAreNumbers DEF TerminalInv
  <2> QED BY <1>1, <1>4, <2>1, <2>2, LinesFrame DEF TerminalInv
<1>11. EchoAnswered' BY <1>1, <1>3, EchoFrame DEF TerminalInv, Others
<1>12. LastKeyOnItsWay' BY SMTT(30), <1>1, <1>2, <1>6 DEF LastKeyOnItsWay
<1> QED BY <1>3, <1>4, <1>5, <1>7, <1>8, <1>9, <1>10, <1>11, <1>12 DEF TerminalInv

LEMMA DriverReadsKeeps ==
    ASSUME TerminalAssumption, TerminalInv, DriverReads
    PROVE  TerminalInv'
<1> USE NamesDiffer
<1>1. /\ Down(driver, "read", full, "pass")
      /\ UNCHANGED <<typed, fifo, mail, local, key, entered, echoed, lost>>
  BY DEF DriverReads
<1>2. /\ max' = max /\ free' \in [Ids -> Nat] /\ waiting' \in [Ids -> SUBSET Users]
      /\ NoneFreeWhileWaiting' /\ Others(full)
      /\ at[driver] = "read" /\ at' = [at EXCEPT ![driver] = "pass"] /\ driver \notin waiting[full]
      /\ \/ free[full] > 0 /\ free'[full] = free[full] - 1 /\ waiting'[full] = waiting[full]
         \/ free[full] = 0 /\ free'[full] = 0 /\ waiting'[full] = waiting[full] \cup {driver}
  <2>1. full \in Ids /\ driver \in Users /\ TerminalTypes /\ NoneFreeWhileWaiting BY DEF TerminalInv
  <2> HIDE NamesDiffer
  <2>2. /\ max' = max /\ free' \in [Ids -> Nat] /\ waiting' \in [Ids -> SUBSET Users]
        /\ NoneFreeWhileWaiting' /\ Others(full)
    BY <1>1, <2>1, DownDoes
  <2>3. at[driver] = "read" /\ at' = [at EXCEPT ![driver] = "pass"] /\ driver \notin waiting[full]
    BY <1>1, <2>1, DownDoes
  <2>4. \/ free[full] > 0 /\ free'[full] = free[full] - 1 /\ waiting'[full] = waiting[full]
        \/ free[full] = 0 /\ free'[full] = 0 /\ waiting'[full] = waiting[full] \cup {driver}
    BY <1>1, <2>1, DownDoes
  <2> QED BY <2>2, <2>3, <2>4
<1>3. /\ TerminalTypes' /\ KeysWithinLimit'
  BY <1>1, <1>2 DEF TerminalInv, TerminalTypes, KeysWithinLimit, Limits
<1>4. /\ at'[driver] = "pass" /\ DOMAIN at' = Users
      /\ \A t \in Users \ {driver} : at'[t] = at[t]
  BY <1>2 DEF TerminalInv, PlacesOfThreads
<1>5. PlacesOfThreads' BY <1>4 DEF TerminalInv, PlacesOfThreads
<1>6. DriverCounted'
  <2>1. free[full] \in Nat /\ free[full] = Len(fifo)
    BY <1>2 DEF TerminalInv, TerminalTypes, DriverCounted, DriverHolds
  <2>2. CASE free[full] > 0 /\ free'[full] = free[full] - 1 /\ waiting'[full] = waiting[full]
    BY <1>1, <1>2, <1>4, <2>1, <2>2 DEF TerminalInv, DriverCounted, DriverHolds
  <2>3. CASE free[full] = 0 /\ free'[full] = 0 /\ waiting'[full] = waiting[full] \cup {driver}
    BY <1>1, <1>2, <1>4, <2>1, <2>3 DEF TerminalInv, DriverCounted, DriverHolds
  <2> QED BY <1>2, <2>2, <2>3
<1>7. KeysCounted' BY <1>1, <1>2, <1>4, KeysFrame DEF TerminalInv, Others
<1>8. LinesCounted'
  <2>1. waiting[wait_enter] \subseteq Readers BY DEF TerminalInv, LinesCounted
  <2>2. free'[wait_enter] = free[wait_enter] /\ waiting'[wait_enter] = waiting[wait_enter]
    BY <1>2 DEF Others
  <2>3. LinesIn(mail') - LinesIn(mail) = LinesIn(local') - LinesIn(local)
    BY <1>1, LinesAreNumbers DEF TerminalInv
  <2>4. \A r \in Readers : at'[r] = at[r] BY <1>4
  <2> QED BY <1>1, <1>3, <2>1, <2>2, <2>3, <2>4, LinesFrame DEF TerminalInv
<1>9. EchoAnswered' BY <1>1, <1>2, <1>4, EchoFrame DEF TerminalInv, Others
<1>10. LastKeyOnItsWay' BY <1>1, <1>2, <1>4, LastKeyFrame DEF TerminalInv, Others
<1> QED BY <1>2, <1>3, <1>5, <1>6, <1>7, <1>8, <1>9, <1>10 DEF TerminalInv

LEMMA DriverPassesKeeps ==
    ASSUME TerminalAssumption, TerminalInv, DriverPasses
    PROVE  TerminalInv'
<1> USE NamesDiffer
<1> DEFINE k == Head(fifo)
<1>1. /\ IsAt(driver, "pass") /\ Goes(driver, "read") /\ Up(local_full) /\ fifo' = Tail(fifo)
      /\ mail' = Append(mail, k) /\ local' = Append(local, k)
      /\ UNCHANGED <<typed, key, entered, echoed, lost>>
  BY DEF DriverPasses
<1>2. DriverHolds BY <1>1 DEF IsAt, Sleeps, DriverHolds
<1>3. fifo # <<>> /\ Len(fifo) = free[full] + 1 /\ free[full] \in Nat
  BY <1>2 DEF TerminalInv, TerminalTypes, DriverCounted
<1>4. /\ k \in Keys /\ fifo' \in Seq(Keys) /\ Len(fifo') = Len(fifo) - 1
      /\ local' \in Seq(Keys) /\ Len(local') = Len(local) + 1
      /\ mail' \in Seq(Keys \cup {Reply}) /\ Len(mail') = Len(mail) + 1 /\ mail'[Len(mail) + 1] = k
      /\ \A i \in 1 .. Len(mail) : mail'[i] = mail[i]
      /\ fifo' # <<>> => fifo'[Len(fifo')] = fifo[Len(fifo)]
      /\ fifo' = <<>> => k = fifo[Len(fifo)]
  <2>1. fifo \in Seq(Keys) /\ local \in Seq(Keys) /\ mail \in Seq(Keys \cup {Reply})
    BY DEF TerminalInv, TerminalTypes
  <2>2. k \in Keys /\ fifo' \in Seq(Keys) /\ Len(fifo') = Len(fifo) - 1 BY <1>1, <1>3, <2>1
  <2>3. fifo' # <<>> => fifo'[Len(fifo')] = fifo[Len(fifo)]
    <3>1. \A i \in 1 .. Len(fifo) - 1 : fifo'[i] = fifo[i + 1] BY <1>1, <1>3, <2>1, HeadTailProperties
    <3>2. fifo' # <<>> => Len(fifo') \in 1 .. Len(fifo) - 1 BY <2>1, <2>2, EmptySeq, LenProperties
    <3> QED BY <2>1, <2>2, <3>1, <3>2
  <2>4. fifo' = <<>> => k = fifo[Len(fifo)]
    <3>1. fifo' = <<>> => Len(fifo) = 1 BY <2>1, <2>2, EmptySeq, LenProperties
    <3>2. k = fifo[1] BY <1>3, <2>1
    <3> QED BY <3>1, <3>2
  <2> HIDE DEF k
  <2>5. local' \in Seq(Keys) /\ Len(local') = Len(local) + 1 BY <1>1, <2>1, <2>2
  <2>6. /\ mail' \in Seq(Keys \cup {Reply}) /\ Len(mail') = Len(mail) + 1 /\ mail'[Len(mail) + 1] = k
        /\ \A i \in 1 .. Len(mail) : mail'[i] = mail[i]
    BY <1>1, <2>1, <2>2
  <2> QED BY <2>2, <2>3, <2>4, <2>5, <2>6
<1> HIDE DEF k
<1>5. /\ max' = max /\ free' \in [Ids -> Nat] /\ waiting' \in [Ids -> SUBSET Users]
      /\ NoneFreeWhileWaiting' /\ Others(local_full)
  BY <1>1, UpDoes DEF TerminalInv
<1>6. /\ at'[driver] = "read" /\ DOMAIN at' = Users
      /\ \A t \in Users \ {driver} : at'[t] = at[t]
  BY <1>1 DEF Goes, TerminalInv, PlacesOfThreads
<1>7. TerminalTypes' BY <1>1, <1>4, <1>5 DEF TerminalInv, TerminalTypes, Limits
<1>8. PlacesOfThreads' BY <1>6 DEF TerminalInv, PlacesOfThreads
<1>9. /\ Len(typed) \in Nat /\ Len(fifo) \in Nat /\ Len(local) \in Nat /\ Len(mail) \in Nat
      /\ TypeLimit \in Nat /\ free[local_full] \in Nat
  BY DEF TerminalInv, TerminalTypes, TerminalAssumption
<1>10. KeysWithinLimit' BY <1>1, <1>4, <1>9 DEF TerminalInv, KeysWithinLimit
<1>11. DriverCounted'
  <2>1. ~DriverHolds' BY <1>6 DEF DriverHolds
  <2>2. waiting'[full] = {} BY <1>2, <1>5 DEF TerminalInv, DriverCounted, DriverHolds, Others
  <2>3. free'[full] = free[full] BY <1>5 DEF Others
  <2> QED BY <1>3, <1>4, <2>1, <2>2, <2>3 DEF DriverCounted
<1>12. KeysCounted'
  <2>1. free[local_full] < TypeLimit
    <3>1. Len(fifo) >= 1 /\ Len(fifo) + Len(local) <= TypeLimit
      BY <1>3, <1>9 DEF TerminalInv, KeysWithinLimit
    <3>2. free[local_full] + Cardinality(KeyHolders) = Len(local) BY DEF TerminalInv, KeysCounted
    <3>3. Cardinality(KeyHolders) \in Nat BY HoldersFinite
    <3> QED BY <1>9, <3>1, <3>2, <3>3
  <2>2. ~AtMaximum(local_full) BY <1>9, <2>1, LimitsAre DEF AtMaximum, TerminalInv, TerminalTypes
  <2>3. KeyHolders \cap waiting[local_full] = {} BY DEF KeyHolders
  <2>4. waiting[local_full] \subseteq {r \in Readers : at[r] = "take"}
    BY DEF TerminalInv, KeysCounted
  <2>5. waiting'[local_full] \subseteq waiting[local_full] BY <1>1, UpDoes DEF TerminalInv
  <2>6. KeyHolders' = KeyHolders \cup (waiting[local_full] \ waiting'[local_full])
    BY <1>6, <2>4, <2>5 DEF KeyHolders
  <2>7. free'[local_full] + Cardinality(KeyHolders') = free[local_full] + Cardinality(KeyHolders) + 1
    BY <1>1, <2>2, <2>3, <2>6, UpCounts, HoldersFinite DEF TerminalInv
  <2>8. free'[local_full] + Cardinality(KeyHolders') = Len(local')
    BY <1>4, <2>7 DEF TerminalInv, KeysCounted
  <2>9. waiting'[local_full] \subseteq {r \in Readers : at'[r] = "take"} BY <1>6, <2>4, <2>5
  <2> QED BY <2>8, <2>9 DEF KeysCounted
<1>13. LinesCounted'
  <2>1. waiting[wait_enter] \subseteq Readers BY DEF TerminalInv, LinesCounted
  <2>2. /\ LinesIn(mail') = LinesIn(mail) + IF k = ENTER THEN 1 ELSE 0
        /\ LinesIn(local') = LinesIn(local) + IF k = ENTER THEN 1 ELSE 0
    <3>1. LinesIn(mail') = LinesIn(mail) + IF k = ENTER THEN 1 ELSE 0
      BY SMTT(30), <1>1, <1>4, LinesInAppend DEF TerminalInv, TerminalTypes
    <3>2. LinesIn(local') = LinesIn(local) + IF k = ENTER THEN 1 ELSE 0
      BY SMTT(30), <1>1, <1>4, LinesInAppend DEF TerminalInv, TerminalTypes
    <3> QED BY <3>1, <3>2
  <2>3. /\ LinesIn(mail') \in Int /\ LinesIn(local') \in Int
        /\ LinesIn(mail') - LinesIn(mail) = LinesIn(local') - LinesIn(local)
    BY <2>2, LinesAreNumbers DEF TerminalInv
  <2>4. free'[wait_enter] = free[wait_enter] /\ waiting'[wait_enter] = waiting[wait_enter]
    BY <1>5 DEF Others
  <2>5. \A r \in Readers : at'[r] = at[r] BY <1>6
  <2> QED BY <1>1, <1>7, <2>1, <2>3, <2>4, <2>5, LinesFrame DEF TerminalInv
<1>14. EchoAnswered'
  <2>1. waiting'[signal] = waiting[signal] /\ at'[echo] = at[echo] BY <1>5, <1>6 DEF Others
  <2>2. \A i \in 1 .. Len(mail') : mail'[i] = Reply => i \in 1 .. Len(mail) /\ mail[i] = Reply
    BY SMTT(30), <1>4, <1>9
  <2> QED BY <2>1, <2>2 DEF TerminalInv, EchoAnswered
<1>15. LastKeyOnItsWay'
  <2>1. k # Reply BY <1>4
  <2>2. fifo[Len(fifo)] = typed[Len(typed)] BY <1>3 DEF TerminalInv, LastKeyOnItsWay
  <2>3. ASSUME fifo' = <<>>, NEW i \in 1 .. Len(mail'), \A j \in i + 1 .. Len(mail') : mail'[j] = Reply
        PROVE  mail'[i] = typed[Len(typed)]
    <3>1. i = Len(mail) + 1 BY <1>4, <1>9, <2>1, <2>3
    <3> QED BY <1>4, <2>2, <2>3, <3>1
  <2>4. ~ \A i \in 1 .. Len(mail') : mail'[i] = Reply
    <3>1. Len(mail) + 1 \in 1 .. Len(mail') BY <1>4, <1>9
    <3> QED BY <1>4, <2>1, <3>1
  <2> QED BY <1>1, <1>4, <2>2, <2>3, <2>4 DEF LastKeyOnItsWay
<1> QED BY <1>5, <1>7, <1>8, <1>10, <1>11, <1>12, <1>13, <1>14, <1>15 DEF TerminalInv

\* What the message loop takes from the mailbox.
LEMMA MailTaken ==
    ASSUME TerminalAssumption, TerminalInv, mail # <<>>, mail' = Tail(mail)
    PROVE  /\ Head(mail) \in Keys \cup {Reply} /\ Head(mail) = mail[1]
           /\ mail' \in Seq(Keys \cup {Reply}) /\ Len(mail) \in Nat /\ Len(mail) = Len(mail') + 1
           /\ Len(mail') \in Nat /\ \A i \in 1 .. Len(mail') : mail'[i] = mail[i + 1]
           /\ LinesIn(mail) = LinesIn(mail') + IF Head(mail) = ENTER THEN 1 ELSE 0
           /\ LinesIn(mail') \in Nat /\ LinesIn(mail) \in Nat /\ LinesIn(local) \in Nat
<1>1. mail \in Seq(Keys \cup {Reply}) BY DEF TerminalInv, TerminalTypes
<1>2. /\ Head(mail) \in Keys \cup {Reply} /\ Head(mail) = mail[1] /\ mail' \in Seq(Keys \cup {Reply})
      /\ Len(mail') = Len(mail) - 1 /\ \A i \in 1 .. Len(mail') : mail'[i] = mail[i + 1]
  BY <1>1, HeadTailProperties
<1>3. LinesIn(mail) = LinesIn(mail') + IF Head(mail) = ENTER THEN 1 ELSE 0 BY <1>1, LinesInTail
<1>4. Len(mail) \in Nat /\ Len(mail') \in Nat BY <1>1, <1>2
<1>5. LinesIn(mail') \in Nat BY <1>2, EntersFinite
<1> QED BY <1>2, <1>3, <1>4, <1>5, LinesAreNumbers DEF TerminalInv

LEMMA HandleKeyKeeps ==
    ASSUME TerminalAssumption, TerminalInv, HandleKey
    PROVE  TerminalInv'
<1> USE NamesDiffer
<1> DEFINE k == Head(mail)
<1>1. /\ ~entered /\ mail # <<>> /\ k # Reply /\ mail' = Tail(mail) /\ key' = k /\ Up(signal)
      /\ UNCHANGED <<typed, fifo, local, at, echoed, lost>>
  BY DEF HandleKey, Shown
<1>2. entered' <=> k = ENTER BY DEF HandleKey
<1>3. k \in Keys /\ mail[1] = k BY <1>1, MailTaken
<1>4. LinesIn(mail) = LinesIn(mail') + IF k = ENTER THEN 1 ELSE 0 BY <1>1, MailTaken
<1> HIDE DEF k
<1>5. /\ max' = max /\ free' \in [Ids -> Nat] /\ waiting' \in [Ids -> SUBSET Users]
      /\ NoneFreeWhileWaiting' /\ Others(signal)
  BY <1>1, UpDoes DEF TerminalInv
<1>6. /\ free'[full] = free[full] /\ waiting'[full] = waiting[full]
      /\ free'[local_full] = free[local_full] /\ waiting'[local_full] = waiting[local_full]
      /\ free'[wait_enter] = free[wait_enter] /\ waiting'[wait_enter] = waiting[wait_enter]
  BY <1>5 DEF Others
<1>7. TerminalTypes' BY <1>1, <1>3, <1>5, MailTaken DEF TerminalInv, TerminalTypes, Limits
<1>8. PlacesOfThreads' /\ KeysWithinLimit'
  BY <1>1 DEF TerminalInv, PlacesOfThreads, KeysWithinLimit
<1>9. DriverCounted' BY <1>1, <1>6, DriverFrame DEF TerminalInv
<1>10. KeysCounted' BY <1>1, <1>6, KeysFrame DEF TerminalInv
<1>11. LinesCounted'
  <2>1. LineHolders' = LineHolders BY <1>1, <1>6 DEF LineHolders
  <2>3. Cardinality(LineHolders) \in Nat /\ free[wait_enter] \in Nat
    BY HoldersFinite DEF TerminalInv, TerminalTypes
  <2>4. ASSUME ~lost
        PROVE  free[wait_enter] + Cardinality(LineHolders) + LinesIn(mail')
                   + (IF entered' THEN 1 ELSE 0) = LinesIn(local)
    <3>1. free[wait_enter] + Cardinality(LineHolders) + LinesIn(mail) + 0 = LinesIn(local)
      BY <1>1, <2>4 DEF TerminalInv, LinesCounted
    <3>2. LinesIn(mail') \in Nat /\ LinesIn(mail) \in Nat BY <1>1, MailTaken
    <3>3. CASE k = ENTER BY <1>2, <1>4, <2>3, <3>1, <3>2, <3>3
    <3>4. CASE k # ENTER BY <1>2, <1>4, <2>3, <3>1, <3>2, <3>4
    <3> QED BY <3>3, <3>4
  <2>5. waiting'[wait_enter] \subseteq {r \in Readers : at'[r] = "getkey"}
    BY <1>1, <1>6 DEF TerminalInv, LinesCounted
  <2> QED BY <1>1, <1>6, <2>1, <2>4, <2>5 DEF LinesCounted
<1>12. EchoAnswered'
  <2>1. waiting'[signal] \subseteq waiting[signal] BY <1>1, UpDoes DEF TerminalInv
  <2>2. \A i \in 1 .. Len(mail') : i + 1 \in 1 .. Len(mail) /\ mail'[i] = mail[i + 1]
    BY <1>1, MailTaken
  <2>3. \A i \in 1 .. Len(mail') : mail'[i] = Reply => at'[echo] = "answered"
    BY <1>1, <2>2 DEF TerminalInv, EchoAnswered
  <2>4. \A i, j \in 1 .. Len(mail') : mail'[i] = Reply /\ mail'[j] = Reply => i = j
    <3> SUFFICES ASSUME NEW i \in 1 .. Len(mail'), NEW j \in 1 .. Len(mail'),
                        mail'[i] = Reply, mail'[j] = Reply
                 PROVE  i = j
      OBVIOUS
    <3>1. i + 1 = j + 1 BY <2>2 DEF TerminalInv, EchoAnswered
    <3> QED BY <3>1
  <2> QED BY <1>1, <2>1, <2>3, <2>4 DEF TerminalInv, EchoAnswered
<1>13. LastKeyOnItsWay'
  <2>1. ASSUME fifo = <<>>, NEW i \in 1 .. Len(mail'), mail'[i] # Reply,
               \A j \in i + 1 .. Len(mail') : mail'[j] = Reply
        PROVE  mail'[i] = typed[Len(typed)]
    <3>1. i + 1 \in 1 .. Len(mail) /\ mail'[i] = mail[i + 1] BY <1>1, MailTaken
    <3>2. ASSUME NEW j \in (i + 1) + 1 .. Len(mail) PROVE mail[j] = Reply
      <4>1. j - 1 \in i + 1 .. Len(mail') /\ j = (j - 1) + 1 BY <1>1, MailTaken
      <4>2. mail'[j - 1] = mail[j] BY <1>1, <4>1, MailTaken
      <4> QED BY <2>1, <4>1, <4>2
    <3> QED BY <2>1, <3>1, <3>2 DEF TerminalInv, LastKeyOnItsWay
  <2>2. ASSUME fifo = <<>>, \A i \in 1 .. Len(mail') : mail'[i] = Reply
        PROVE  k = typed[Len(typed)]
    <3>1. 1 \in 1 .. Len(mail) BY <1>1, MailTaken
    <3>2. ASSUME NEW j \in 1 + 1 .. Len(mail) PROVE mail[j] = Reply
      <4>1. j - 1 \in 1 .. Len(mail') /\ j = (j - 1) + 1 BY <1>1, MailTaken
      <4>2. mail'[j - 1] = mail[j] BY <1>1, <4>1, MailTaken
      <4> QED BY <2>2, <4>1, <4>2
    <3> QED BY <1>1, <1>3, <2>2, <3>1, <3>2 DEF TerminalInv, LastKeyOnItsWay
  <2>3. free'[signal] > 0 \/ EchoHolds'
    <3>1. free[signal] \in Nat /\ max[signal] = 1
      BY DEF TerminalInv, TerminalTypes, Limits
    <3>2. CASE \E t \in waiting[signal] : waiting'[signal] = waiting[signal] \ {t}
      BY <1>1, <3>2 DEF TerminalInv, EchoAnswered, EchoHolds
    <3>3. CASE free'[signal] = free[signal] + 1 BY <3>1, <3>3
    <3>4. CASE free'[signal] = free[signal] /\ AtMaximum(signal) BY <3>1, <3>4 DEF AtMaximum
    <3> QED BY <1>1, <3>2, <3>3, <3>4, UpDoes DEF TerminalInv
  <2> QED BY <1>1, <2>1, <2>2, <2>3 DEF TerminalInv, LastKeyOnItsWay, KeyIsEchoed
<1> QED BY <1>5, <1>7, <1>8, <1>9, <1>10, <1>11, <1>12, <1>13 DEF TerminalInv

LEMMA HandleEnterKeeps ==
    ASSUME TerminalAssumption, TerminalInv, HandleEnter
    PROVE  TerminalInv'
<1> USE NamesDiffer
<1>1. /\ entered /\ ~entered' /\ Up(wait_enter) /\ (~lost' => ~lost /\ ~AtMaximum(wait_enter))
      /\ UNCHANGED <<typed, fifo, mail, local, key, at, echoed>>
  BY DEF HandleEnter
<1>2. /\ max' = max /\ free' \in [Ids -> Nat] /\ waiting' \in [Ids -> SUBSET Users]
      /\ NoneFreeWhileWaiting' /\ Others(wait_enter)
  BY <1>1, UpDoes DEF TerminalInv
<1>3. /\ free'[full] = free[full] /\ waiting'[full] = waiting[full]
      /\ free'[local_full] = free[local_full] /\ waiting'[local_full] = waiting[local_full]
      /\ free'[signal] = free[signal] /\ waiting'[signal] = waiting[signal]
  BY <1>2 DEF Others
<1>4. TerminalTypes' BY <1>1, <1>2 DEF TerminalInv, TerminalTypes, Limits
<1>5. PlacesOfThreads' /\ KeysWithinLimit'
  BY <1>1 DEF TerminalInv, PlacesOfThreads, KeysWithinLimit
<1>6. DriverCounted' BY <1>1, <1>3, DriverFrame DEF TerminalInv
<1>7. KeysCounted' BY <1>1, <1>3, KeysFrame DEF TerminalInv
<1>8. EchoAnswered' BY <1>1, <1>3, EchoFrame DEF TerminalInv
<1>9. LastKeyOnItsWay' BY <1>1, <1>3, LastKeyFrame DEF TerminalInv
<1>10. LinesCounted'
  <2>1. waiting[wait_enter] \subseteq {r \in Readers : at[r] = "getkey"}
    BY DEF TerminalInv, LinesCounted
  <2>2. waiting'[wait_enter] \subseteq waiting[wait_enter] BY <1>1, UpDoes DEF TerminalInv
  <2>3. LineHolders' = LineHolders \cup (waiting[wait_enter] \ waiting'[wait_enter])
    BY <1>1, <2>1, <2>2 DEF LineHolders
  <2>4. ASSUME ~lost'
        PROVE  free'[wait_enter] + Cardinality(LineHolders') + LinesIn(mail) + 0 = LinesIn(local)
    <3>1. LineHolders \cap waiting[wait_enter] = {} BY DEF LineHolders
    <3>2. free'[wait_enter] + Cardinality(LineHolders')
              = free[wait_enter] + Cardinality(LineHolders) + 1
      BY <1>1, <2>3, <2>4, <3>1, UpCounts, HoldersFinite DEF TerminalInv
    <3>3. free[wait_enter] + Cardinality(LineHolders) + LinesIn(mail) + 1 = LinesIn(local)
      BY <1>1, <2>4 DEF TerminalInv, LinesCounted
    <3>4. Cardinality(LineHolders) \in Nat /\ free[wait_enter] \in Nat /\ LinesIn(mail) \in Nat
      BY HoldersFinite, LinesAreNumbers DEF TerminalInv, TerminalTypes
    <3>5. Cardinality(LineHolders') \in Nat /\ free'[wait_enter] \in Nat
      BY <1>2, <2>3, HoldersFinite, FS_Subset, FS_CardinalityType DEF LineHolders
    <3> QED BY <3>2, <3>3, <3>4, <3>5
  <2>5. waiting'[wait_enter] \subseteq {r \in Readers : at'[r] = "getkey"} BY <1>1, <2>1, <2>2
  <2> QED BY <1>1, <2>4, <2>5, HoldersFinite DEF LinesCounted
<1> QED BY <1>2, <1>4, <1>5, <1>6, <1>7, <1>8, <1>9, <1>10 DEF TerminalInv

LEMMA HandleReplyKeeps ==
    ASSUME TerminalAssumption, TerminalInv, HandleReply
    PROVE  TerminalInv'
<1> USE NamesDiffer
<1>1. /\ mail # <<>> /\ Head(mail) = Reply /\ mail' = Tail(mail) /\ Goes(echo, "wait")
      /\ UNCHANGED <<max, free, waiting, typed, fifo, local, key, entered, echoed, lost>>
  BY DEF HandleReply, csVars
<1>2. /\ at'[echo] = "wait" /\ DOMAIN at' = Users /\ \A t \in Users \ {echo} : at'[t] = at[t]
  BY <1>1 DEF Goes, TerminalInv, PlacesOfThreads
<1>3. at'[driver] = at[driver] /\ \A r \in Readers : at'[r] = at[r] BY <1>2
<1>4. /\ TerminalTypes' /\ NoneFreeWhileWaiting' /\ KeysWithinLimit'
  BY <1>1, MailTaken DEF TerminalInv, TerminalTypes, NoneFreeWhileWaiting, KeysWithinLimit, Limits
<1>5. PlacesOfThreads' BY <1>2 DEF TerminalInv, PlacesOfThreads
<1>6. DriverCounted' BY <1>1, <1>3, DriverFrame DEF TerminalInv
<1>7. KeysCounted' BY <1>1, <1>3, KeysFrame DEF TerminalInv
<1>8. LinesCounted'
  <2>1. waiting[wait_enter] \subseteq Readers BY DEF TerminalInv, LinesCounted
  <2>2. LinesIn(mail') - LinesIn(mail) = LinesIn(local') - LinesIn(local) BY <1>1, MailTaken
  <2> QED BY <1>1, <1>3, <1>4, <2>1, <2>2, LinesFrame DEF TerminalInv
<1>9. mail[1] = Reply /\ 1 \in 1 .. Len(mail) /\ at[echo] = "answered"
  BY <1>1, MailTaken DEF TerminalInv, EchoAnswered
<1>10. \A i \in 1 .. Len(mail') : /\ i + 1 \in 1 .. Len(mail) /\ mail'[i] = mail[i + 1]
                                  /\ mail'[i] # Reply
  <2> SUFFICES ASSUME NEW i \in 1 .. Len(mail')
               PROVE  i + 1 \in 1 .. Len(mail) /\ mail'[i] = mail[i + 1] /\ mail'[i] # Reply
    OBVIOUS
  <2>1. i + 1 \in 1 .. Len(mail) /\ mail'[i] = mail[i + 1] BY <1>1, MailTaken
  <2>2. i + 1 # 1 OBVIOUS
  <2> QED BY <1>9, <2>1, <2>2 DEF TerminalInv, EchoAnswered
<1>11. EchoAnswered' BY <1>1, <1>9, <1>10 DEF TerminalInv, EchoAnswered
<1>12. LastKeyOnItsWay'
  <2>1. ASSUME fifo = <<>>, NEW i \in 1 .. Len(mail'), \A j \in i + 1 .. Len(mail') : mail'[j] = Reply
        PROVE  mail'[i] = typed[Len(typed)]
    <3>1. ASSUME NEW j \in (i + 1) + 1 .. Len(mail) PROVE mail[j] = Reply
      <4>1. j - 1 \in i + 1 .. Len(mail') /\ j = (j - 1) + 1 BY <1>1, MailTaken
      <4>2. mail'[j - 1] = mail[j] BY <1>1, <4>1, MailTaken
      <4> QED BY <2>1, <4>1, <4>2
    <3> QED BY <1>10, <2>1, <3>1 DEF TerminalInv, LastKeyOnItsWay
  <2>2. ASSUME fifo = <<>>, typed # <<>>, \A i \in 1 .. Len(mail') : mail'[i] = Reply
        PROVE  key = typed[Len(typed)] /\ KeyIsEchoed
    <3>1. ASSUME NEW j \in 1 .. Len(mail) PROVE mail[j] = Reply
      <4>1. CASE j = 1 BY <1>9, <4>1
      <4>2. CASE j # 1
        <5>1. j - 1 \in 1 .. Len(mail') BY <1>1, <4>2, MailTaken
        <5> QED BY <1>10, <2>2, <5>1
      <4> QED BY <4>1, <4>2
    <3> QED BY <2>2, <3>1 DEF TerminalInv, LastKeyOnItsWay
  <2>3. KeyIsEchoed => KeyIsEchoed' BY <1>1, <1>9 DEF KeyIsEchoed, EchoHolds
  <2> QED BY <1>1, <2>1, <2>2, <2>3 DEF TerminalInv, LastKeyOnItsWay
<1> QED BY <1>4, <1>5, <1>6, <1>7, <1>8, <1>11, <1>12 DEF TerminalInv

LEMMA EchoWaitsKeeps ==
    ASSUME TerminalAssumption, TerminalInv, EchoWaits
    PROVE  TerminalInv'
<1> USE NamesDiffer
<1>1. /\ Down(echo, "wait", signal, "echo")
      /\ UNCHANGED <<typed, fifo, mail, local, key, entered, echoed, lost>>
  BY DEF EchoWaits
<1>2. /\ max' = max /\ free' \in [Ids -> Nat] /\ waiting' \in [Ids -> SUBSET Users]
      /\ NoneFreeWhileWaiting' /\ Others(signal)
      /\ at[echo] = "wait" /\ at' = [at EXCEPT ![echo] = "echo"] /\ echo \notin waiting[signal]
      /\ \/ free[signal] > 0 /\ free'[signal] = free[signal] - 1 /\ waiting'[signal] = waiting[signal]
         \/ free[signal] = 0 /\ free'[signal] = 0 /\ waiting'[signal] = waiting[signal] \cup {echo}
  <2>1. signal \in Ids /\ echo \in Users /\ TerminalTypes /\ NoneFreeWhileWaiting BY DEF TerminalInv
  <2>2. \A r \in Ids : echo \notin waiting[r] BY <1>1 DEF Down, IsAt, Sleeps
  <2>3. /\ max' = max /\ free' \in [Ids -> Nat] /\ waiting' \in [Ids -> SUBSET Users]
        /\ NoneFreeWhileWaiting' /\ Others(signal)
    BY <1>1, <2>1, DownDoes
  <2>5. at[echo] = "wait" /\ at' = [at EXCEPT ![echo] = "echo"] BY <1>1 DEF Down, IsAt, Goes
  <2>4. \/ free[signal] > 0 /\ free'[signal] = free[signal] - 1 /\ waiting'[signal] = waiting[signal]
        \/ free[signal] = 0 /\ free'[signal] = 0 /\ waiting'[signal] = waiting[signal] \cup {echo}
    BY <1>1, <2>1, DownDoes
  <2> QED BY <2>1, <2>2, <2>3, <2>4, <2>5
<1>3. /\ free'[full] = free[full] /\ waiting'[full] = waiting[full]
      /\ free'[local_full] = free[local_full] /\ waiting'[local_full] = waiting[local_full]
      /\ free'[wait_enter] = free[wait_enter] /\ waiting'[wait_enter] = waiting[wait_enter]
  BY <1>2 DEF Others
<1>4. /\ at'[echo] = "echo" /\ DOMAIN at' = Users /\ \A t \in Users \ {echo} : at'[t] = at[t]
  BY <1>2 DEF TerminalInv, PlacesOfThreads
<1>5. at'[driver] = at[driver] /\ \A r \in Readers : at'[r] = at[r] BY <1>4
<1>6. TerminalTypes' /\ KeysWithinLimit'
  BY <1>1, <1>2 DEF TerminalInv, TerminalTypes, KeysWithinLimit, Limits
<1>7. PlacesOfThreads' BY <1>4 DEF TerminalInv, PlacesOfThreads
<1>8. DriverCounted' BY <1>1, <1>3, <1>5, DriverFrame DEF TerminalInv
<1>9. KeysCounted' BY <1>1, <1>3, <1>5, KeysFrame DEF TerminalInv
<1>10. LinesCounted'
  <2>1. waiting[wait_enter] \subseteq Readers BY DEF TerminalInv, LinesCounted
  <2>2. LinesIn(mail') - LinesIn(mail) = LinesIn(local') - LinesIn(local)
    BY <1>1, LinesAreNumbers DEF TerminalInv
  <2> QED BY <1>1, <1>3, <1>5, <1>6, <2>1, <2>2, LinesFrame DEF TerminalInv
<1>11. EchoAnswered' BY <1>1, <1>2, <1>4 DEF TerminalInv, EchoAnswered
<1>12. LastKeyOnItsWay'
  <2>1. ASSUME KeyIsEchoed PROVE KeyIsEchoed'
    <3>1. CASE free[signal] > 0 /\ waiting'[signal] = waiting[signal]
      BY <1>2, <1>4, <3>1 DEF KeyIsEchoed, EchoHolds
    <3>2. CASE free[signal] = 0 BY <1>1, <1>2, <2>1, <3>2 DEF KeyIsEchoed, EchoHolds
    <3> QED BY <1>2, <3>1, <3>2
  <2> QED BY <1>1, <2>1 DEF TerminalInv, LastKeyOnItsWay
<1> QED BY <1>2, <1>6, <1>7, <1>8, <1>9, <1>10, <1>11, <1>12 DEF TerminalInv

LEMMA EchoKeyKeeps ==
    ASSUME TerminalAssumption, TerminalInv, EchoKey \/ VideoAnswers
    PROVE  TerminalInv'
<1> USE NamesDiffer
<1>1. UNCHANGED <<max, free, waiting, typed, fifo, local, key, entered, lost>>
  BY DEF EchoKey, VideoAnswers, csVars
<1>2. /\ at[echo] \in {"echo", "swap"} /\ echo \notin waiting[signal]
      /\ at'[echo] \in {"swap", "answered"} /\ DOMAIN at' = Users
      /\ \A t \in Users \ {echo} : at'[t] = at[t]
  BY DEF EchoKey, VideoAnswers, IsAt, Sleeps, Goes, TerminalInv, PlacesOfThreads
<1>3. at'[driver] = at[driver] /\ \A r \in Readers : at'[r] = at[r] BY <1>2
<1>4. \/ EchoKey /\ mail' = mail /\ echoed' \in Seq(Keys) /\ echoed' # <<>> /\ echoed'[Len(echoed')] = key
      \/ VideoAnswers /\ echoed' = echoed /\ mail' = Append(mail, Reply) /\ at[echo] = "swap"
             /\ at'[echo] = "answered"
  <2>1. CASE EchoKey
    <3>1. echoed' = Append(echoed, key) /\ mail' = mail /\ echoed \in Seq(Keys) /\ key \in Keys
      BY <2>1 DEF EchoKey, TerminalInv, TerminalTypes
    <3> QED BY <2>1, <3>1
  <2>2. CASE VideoAnswers BY <2>2 DEF VideoAnswers, IsAt, Goes, TerminalInv, PlacesOfThreads
  <2> QED BY <2>1, <2>2
<1>5. \A i \in 1 .. Len(mail) : mail[i] # Reply BY <1>2 DEF TerminalInv, EchoAnswered
<1>6. mail \in Seq(Keys \cup {Reply}) /\ Len(mail) \in Nat BY DEF TerminalInv, TerminalTypes
<1>7. mail' = Append(mail, Reply) =>
          /\ mail' \in Seq(Keys \cup {Reply}) /\ Len(mail') = Len(mail) + 1
          /\ mail'[Len(mail) + 1] = Reply /\ \A i \in 1 .. Len(mail) : mail'[i] = mail[i]
  BY <1>6
<1>8. /\ TerminalTypes' /\ NoneFreeWhileWaiting' /\ KeysWithinLimit'
  BY <1>1, <1>4, <1>7 DEF TerminalInv, TerminalTypes, NoneFreeWhileWaiting, KeysWithinLimit, Limits
<1>9. PlacesOfThreads' BY <1>2 DEF TerminalInv, PlacesOfThreads
<1>10. DriverCounted' BY <1>1, <1>3, DriverFrame DEF TerminalInv
<1>11. KeysCounted' BY <1>1, <1>3, KeysFrame DEF TerminalInv
<1>12. LinesCounted'
  <2>1. waiting[wait_enter] \subseteq Readers BY DEF TerminalInv, LinesCounted
  <2>2. LinesIn(mail') = LinesIn(mail)
    <3>1. Reply # ENTER OBVIOUS
    <3>2. mail' = Append(mail, Reply) => LinesIn(mail') = LinesIn(mail) + IF Reply = ENTER THEN 1 ELSE 0
      BY <1>6, LinesInAppend
    <3> QED BY <1>4, <3>1, <3>2, LinesAreNumbers DEF TerminalInv
  <2>3. LinesIn(mail') - LinesIn(mail) = LinesIn(local') - LinesIn(local)
    BY <1>1, <2>2, LinesAreNumbers DEF TerminalInv
  <2> QED BY <1>1, <1>3, <1>8, <2>1, <2>3, LinesFrame DEF TerminalInv
<1>13. EchoAnswered'
  <2>1. waiting'[signal] = {} BY <1>1, <1>2 DEF TerminalInv, EchoAnswered
  <2>2. CASE mail' = mail BY <1>5, <2>1, <2>2 DEF EchoAnswered
  <2>3. CASE mail' = Append(mail, Reply) /\ at'[echo] = "answered"
    <3>1. \A i \in 1 .. Len(mail') : mail'[i] = Reply => i = Len(mail) + 1
      BY <1>5, <1>6, <1>7, <2>3
    <3> QED BY <2>1, <2>3, <3>1 DEF EchoAnswered
  <2> QED BY <1>4, <2>2, <2>3
<1>14. LastKeyOnItsWay'
  <2>1. CASE mail' = mail /\ echoed' # <<>> /\ echoed'[Len(echoed')] = key
    BY <1>1, <2>1 DEF TerminalInv, LastKeyOnItsWay, KeyIsEchoed
  <2>2. CASE mail' = Append(mail, Reply) /\ echoed' = echoed /\ at[echo] = "swap"
    <3>1. ASSUME fifo = <<>>, NEW i \in 1 .. Len(mail'), mail'[i] # Reply,
                 \A j \in i + 1 .. Len(mail') : mail'[j] = Reply
          PROVE  mail'[i] = typed[Len(typed)]
      <4>1. i \in 1 .. Len(mail) /\ mail'[i] = mail[i] BY <1>6, <1>7, <2>2, <3>1
      <4>2. \A j \in i + 1 .. Len(mail) : mail[j] = Reply BY <1>6, <1>7, <2>2, <3>1
      <4> QED BY <3>1, <4>1, <4>2 DEF TerminalInv, LastKeyOnItsWay
    <3>2. ASSUME fifo = <<>>, typed # <<>>, \A i \in 1 .. Len(mail') : mail'[i] = Reply
          PROVE  key = typed[Len(typed)] /\ KeyIsEchoed
      <4>1. \A i \in 1 .. Len(mail) : mail[i] = Reply BY <1>6, <1>7, <2>2, <3>2
      <4> QED BY <3>2, <4>1 DEF TerminalInv, LastKeyOnItsWay
    <3>3. KeyIsEchoed => KeyIsEchoed' BY <1>1, <2>2 DEF KeyIsEchoed, EchoHolds
    <3> QED BY <1>1, <3>1, <3>2, <3>3 DEF TerminalInv, LastKeyOnItsWay
  <2> QED BY <1>4, <2>1, <2>2
<1> QED BY <1>8, <1>9, <1>10, <1>11, <1>12, <1>13, <1>14 DEF TerminalInv

\* Of what a step of a reader leaves alone.
LEMMA ReaderFrame ==
    ASSUME TerminalAssumption, TerminalInv, NEW r \in Readers, NEW to \in {"idle", "getkey", "take"},
           Goes(r, to), UNCHANGED <<typed, fifo, mail, key, entered, echoed>>,
           free'[full] = free[full], waiting'[full] = waiting[full],
           free'[signal] = free[signal], waiting'[signal] = waiting[signal]
    PROVE  /\ at'[r] = to /\ \A q \in Readers \ {r} : at'[q] = at[q]
           /\ PlacesOfThreads' /\ DriverCounted' /\ EchoAnswered' /\ LastKeyOnItsWay'
<1> USE NamesDiffer
<1>1. at'[r] = to /\ DOMAIN at' = Users /\ \A t \in Users \ {r} : at'[t] = at[t]
  BY DEF Goes, TerminalInv, PlacesOfThreads
<1>2. at'[driver] = at[driver] /\ at'[echo] = at[echo] /\ \A q \in Readers \ {r} : at'[q] = at[q]
  BY <1>1
<1>3. PlacesOfThreads' BY <1>1, <1>2 DEF TerminalInv, PlacesOfThreads
<1>4. DriverCounted' BY <1>2, DriverFrame DEF TerminalInv
<1>5. EchoAnswered' BY <1>2, EchoFrame DEF TerminalInv
<1>6. LastKeyOnItsWay' BY <1>2, LastKeyFrame DEF TerminalInv
<1> QED BY <1>1, <1>2, <1>3, <1>4, <1>5, <1>6

LEMMA GetCharKeeps ==
    ASSUME TerminalAssumption, TerminalInv, NEW r \in Readers, GetChar(r)
    PROVE  TerminalInv'
<1> USE NamesDiffer
<1>1. /\ Down(r, "idle", wait_enter, "getkey")
      /\ UNCHANGED <<typed, fifo, mail, local, key, entered, echoed, lost>>
  BY DEF GetChar
<1>2. wait_enter \in Ids /\ r \in Users /\ TerminalTypes /\ NoneFreeWhileWaiting
  BY DEF TerminalInv
<1>3. at[r] = "idle" /\ Goes(r, "getkey") /\ \A s \in Ids : r \notin waiting[s]
  BY <1>1 DEF Down, IsAt, Sleeps
<1>4. /\ max' = max /\ free' \in [Ids -> Nat] /\ waiting' \in [Ids -> SUBSET Users]
      /\ NoneFreeWhileWaiting' /\ Others(wait_enter)
  BY <1>1, <1>2, DownDoes
<1>5. waiting'[wait_enter] \subseteq waiting[wait_enter] \cup {r}
      /\ waiting[wait_enter] \subseteq waiting'[wait_enter]
  BY <1>1, <1>2, DownDoes
<1>6. /\ free'[full] = free[full] /\ waiting'[full] = waiting[full]
      /\ free'[local_full] = free[local_full] /\ waiting'[local_full] = waiting[local_full]
      /\ free'[signal] = free[signal] /\ waiting'[signal] = waiting[signal]
  BY <1>4 DEF Others
<1>7. /\ at'[r] = "getkey" /\ \A q \in Readers \ {r} : at'[q] = at[q]
      /\ PlacesOfThreads' /\ DriverCounted' /\ EchoAnswered' /\ LastKeyOnItsWay'
  BY <1>1, <1>3, <1>6, ReaderFrame
<1>8. TerminalTypes' /\ KeysWithinLimit'
  BY <1>1, <1>4 DEF TerminalInv, TerminalTypes, KeysWithinLimit, Limits
<1>9. KeysCounted'
  <2>1. \A q \in Readers : at'[q] = "take" <=> at[q] = "take" BY <1>3, <1>7
  <2> QED BY <1>1, <1>6, <2>1, KeysFrame DEF TerminalInv
<1>10. LinesCounted'
  <2>1. r \notin LineHolders BY <1>3 DEF LineHolders
  <2>2. LineHolders' = LineHolders \cup ({r} \ waiting'[wait_enter])
    <3>1. \A q \in Readers \ {r} : q \in waiting'[wait_enter] <=> q \in waiting[wait_enter] BY <1>5
    <3> QED BY <1>3, <1>7, <2>1, <3>1 DEF LineHolders
  <2>3. free'[wait_enter] + Cardinality(LineHolders') = free[wait_enter] + Cardinality(LineHolders)
    BY <1>1, <1>2, <2>1, <2>2, DownCounts, HoldersFinite
  <2>4. ASSUME ~lost
        PROVE  free'[wait_enter] + Cardinality(LineHolders') + LinesIn(mail)
                   + (IF entered THEN 1 ELSE 0) = LinesIn(local)
    <3>1. free[wait_enter] + Cardinality(LineHolders) + LinesIn(mail)
              + (IF entered THEN 1 ELSE 0) = LinesIn(local)
      BY <2>4 DEF TerminalInv, LinesCounted
    <3> QED BY <2>3, <3>1
  <2>5. waiting'[wait_enter] \subseteq {q \in Readers : at'[q] = "getkey"}
    BY <1>5, <1>7 DEF TerminalInv, LinesCounted
  <2> QED BY <1>1, <2>4, <2>5 DEF LinesCounted
<1> QED BY <1>4, <1>7, <1>8, <1>9, <1>10 DEF TerminalInv

LEMMA GetKeyKeeps ==
    ASSUME TerminalAssumption, TerminalInv, NEW r \in Readers, GetKey(r)
    PROVE  TerminalInv'
<1> USE NamesDiffer
<1>1. /\ Down(r, "getkey", local_full, "take")
      /\ UNCHANGED <<typed, fifo, mail, local, key, entered, echoed, lost>>
  BY DEF GetKey
<1>2. local_full \in Ids /\ r \in Users /\ TerminalTypes /\ NoneFreeWhileWaiting
  BY DEF TerminalInv
<1>3. at[r] = "getkey" /\ Goes(r, "take") /\ \A s \in Ids : r \notin waiting[s]
  BY <1>1 DEF Down, IsAt, Sleeps
<1>4. /\ max' = max /\ free' \in [Ids -> Nat] /\ waiting' \in [Ids -> SUBSET Users]
      /\ NoneFreeWhileWaiting' /\ Others(local_full)
  BY <1>1, <1>2, DownDoes
<1>5. waiting'[local_full] \subseteq waiting[local_full] \cup {r}
      /\ waiting[local_full] \subseteq waiting'[local_full]
  BY <1>1, <1>2, DownDoes
<1>6. /\ free'[full] = free[full] /\ waiting'[full] = waiting[full]
      /\ free'[wait_enter] = free[wait_enter] /\ waiting'[wait_enter] = waiting[wait_enter]
      /\ free'[signal] = free[signal] /\ waiting'[signal] = waiting[signal]
  BY <1>4 DEF Others
<1>7. /\ at'[r] = "take" /\ \A q \in Readers \ {r} : at'[q] = at[q]
      /\ PlacesOfThreads' /\ DriverCounted' /\ EchoAnswered' /\ LastKeyOnItsWay'
  BY <1>1, <1>3, <1>6, ReaderFrame
<1>8. TerminalTypes' /\ KeysWithinLimit'
  BY <1>1, <1>4 DEF TerminalInv, TerminalTypes, KeysWithinLimit, Limits
<1>9. KeysCounted'
  <2>1. r \notin KeyHolders BY <1>3 DEF KeyHolders
  <2>2. KeyHolders' = KeyHolders \cup ({r} \ waiting'[local_full])
    <3>1. \A q \in Readers \ {r} : q \in waiting'[local_full] <=> q \in waiting[local_full] BY <1>5
    <3> QED BY <1>3, <1>7, <2>1, <3>1 DEF KeyHolders
  <2>3. free'[local_full] + Cardinality(KeyHolders') = free[local_full] + Cardinality(KeyHolders)
    BY <1>1, <1>2, <2>1, <2>2, DownCounts, HoldersFinite
  <2>4. free'[local_full] + Cardinality(KeyHolders') = Len(local')
    BY <1>1, <2>3 DEF TerminalInv, KeysCounted
  <2>5. waiting'[local_full] \subseteq {q \in Readers : at'[q] = "take"}
    BY <1>5, <1>7 DEF TerminalInv, KeysCounted
  <2> QED BY <2>4, <2>5 DEF KeysCounted
<1>10. LinesCounted'
  <2>1. \A q \in Readers : at'[q] \in {"getkey", "take"} <=> at[q] \in {"getkey", "take"}
    BY <1>3, <1>7
  <2>2. \A q \in waiting[wait_enter] : at'[q] = at[q] BY <1>3, <1>7 DEF TerminalInv, LinesCounted
  <2>3. LinesIn(mail') - LinesIn(mail) = LinesIn(local') - LinesIn(local)
    BY <1>1, LinesAreNumbers DEF TerminalInv
  <2> QED BY <1>1, <1>6, <1>8, <2>1, <2>2, <2>3, LinesFrame DEF TerminalInv
<1> QED BY <1>4, <1>7, <1>8, <1>9, <1>10 DEF TerminalInv

\* One of those that hold a line goes back for the next, or gives it back.
LEMMA LineTaken ==
    ASSUME TerminalAssumption, TerminalInv, NEW r \in LineHolders, NEW k,
           LinesIn(local) = LinesIn(local') + (IF k = ENTER THEN 1 ELSE 0),
           NEW T, IsFiniteSet(T),
           \/ k = ENTER /\ T = LineHolders \ {r} /\ free'[wait_enter] = free[wait_enter]
           \/ /\ k # ENTER /\ Up(wait_enter) /\ ~AtMaximum(wait_enter)
              /\ T = (LineHolders \ {r}) \cup (waiting[wait_enter] \ waiting'[wait_enter]),
           ~lost, LinesIn(local') \in Nat, free'[wait_enter] \in Nat
    PROVE  free'[wait_enter] + Cardinality(T) + LinesIn(mail) + (IF entered THEN 1 ELSE 0)
               = LinesIn(local')
<1> USE NamesDiffer
<1> DEFINE S == LineHolders \ {r}
           e == IF entered THEN 1 ELSE 0
<1>1. /\ free[wait_enter] \in Nat /\ LinesIn(mail) \in Nat /\ Cardinality(LineHolders) \in Nat
      /\ e \in Nat
  BY HoldersFinite, LinesAreNumbers DEF TerminalInv, TerminalTypes
<1>2. IsFiniteSet(S) /\ Cardinality(S) = Cardinality(LineHolders) - 1
  BY HoldersFinite, FS_RemoveElement
<1>3. free[wait_enter] + Cardinality(LineHolders) + LinesIn(mail) + e = LinesIn(local)
  BY DEF TerminalInv, LinesCounted
<1>4. Cardinality(T) \in Nat /\ Cardinality(S) \in Nat BY <1>2, FS_CardinalityType
<1>5. S \cap waiting[wait_enter] = {} BY DEF LineHolders
<1> HIDE DEF S, e
<1>6. CASE k = ENTER /\ T = S /\ free'[wait_enter] = free[wait_enter]
  <2>1. Cardinality(T) = Cardinality(S) BY <1>6
  <2>2. LinesIn(local) = LinesIn(local') + 1 BY <1>6
  <2>3. free'[wait_enter] + Cardinality(T) + LinesIn(mail) + e = LinesIn(local')
    BY <1>1, <1>2, <1>3, <1>4, <1>6, <2>1, <2>2
  <2> QED BY <2>3 DEF e
<1>7. CASE /\ k # ENTER /\ Up(wait_enter) /\ ~AtMaximum(wait_enter)
           /\ T = S \cup (waiting[wait_enter] \ waiting'[wait_enter])
  <2>1. free'[wait_enter] + Cardinality(T) = free[wait_enter] + Cardinality(S) + 1
    BY <1>2, <1>5, <1>7, UpCounts DEF TerminalInv
  <2>2. LinesIn(local) = LinesIn(local') BY <1>7
  <2>3. free'[wait_enter] + Cardinality(T) + LinesIn(mail) + e = LinesIn(local')
    BY <1>1, <1>2, <1>3, <1>4, <2>1, <2>2
  <2> QED BY <2>3 DEF e
<1> QED BY <1>6, <1>7 DEF S

LEMMA TakeKeyKeeps ==
    ASSUME TerminalAssumption, TerminalInv, NEW r \in Readers, TakeKey(r)
    PROVE  TerminalInv'
<1> USE NamesDiffer
<1> DEFINE k == Head(local)
           Gone == waiting[wait_enter] \ waiting'[wait_enter]
<1>1. /\ IsAt(r, "take") /\ Goes(r, "idle") /\ local' = Tail(local)
      /\ UNCHANGED <<typed, fifo, mail, key, entered, echoed>>
  BY DEF TakeKey
<1>2. \/ k # ENTER /\ Up(wait_enter) /\ (~lost' => ~lost /\ ~AtMaximum(wait_enter))
      \/ k = ENTER /\ UNCHANGED <<max, free, waiting, lost>>
  BY DEF TakeKey, LineGoesOn, csVars
<1>3. at[r] = "take" /\ \A s \in Ids : r \notin waiting[s] BY <1>1 DEF IsAt, Sleeps
<1>4. r \in KeyHolders /\ r \in LineHolders BY <1>3 DEF KeyHolders, LineHolders
<1>5. /\ local \in Seq(Keys) /\ local # <<>> /\ free[local_full] \in Nat
      /\ Cardinality(KeyHolders) \in Nat \ {0}
  <2>1. local \in Seq(Keys) /\ free[local_full] \in Nat BY DEF TerminalInv, TerminalTypes
  <2>2. Cardinality(KeyHolders) # 0 BY <1>4, HoldersFinite, FS_EmptySet
  <2>3. free[local_full] + Cardinality(KeyHolders) = Len(local) BY DEF TerminalInv, KeysCounted
  <2>4. Len(local) # 0 BY <2>1, <2>2, <2>3, HoldersFinite
  <2> QED BY <2>1, <2>2, <2>4, HoldersFinite
<1>6. local' \in Seq(Keys) /\ Len(local) = Len(local') + 1 /\ Len(local') \in Nat BY <1>1, <1>5
<1>7. LinesIn(local) = LinesIn(local') + (IF k = ENTER THEN 1 ELSE 0)
      /\ LinesIn(local') \in Nat
  BY <1>1, <1>5, <1>6, LinesInTail, EntersFinite
<1> HIDE DEF k
<1>8. /\ max' = max /\ free' \in [Ids -> Nat] /\ waiting' \in [Ids -> SUBSET Users]
      /\ NoneFreeWhileWaiting' /\ Others(wait_enter)
      /\ waiting'[wait_enter] \subseteq waiting[wait_enter]
  <2>1. CASE Up(wait_enter) BY <2>1, UpDoes DEF TerminalInv
  <2>2. CASE UNCHANGED <<max, free, waiting>>
    BY <2>2 DEF TerminalInv, TerminalTypes, NoneFreeWhileWaiting, Others
  <2> QED BY <1>2, <2>1, <2>2
<1>9. /\ free'[full] = free[full] /\ waiting'[full] = waiting[full]
      /\ free'[local_full] = free[local_full] /\ waiting'[local_full] = waiting[local_full]
      /\ free'[signal] = free[signal] /\ waiting'[signal] = waiting[signal]
  BY <1>8 DEF Others
<1>10. /\ at'[r] = "idle" /\ \A q \in Readers \ {r} : at'[q] = at[q]
       /\ PlacesOfThreads' /\ DriverCounted' /\ EchoAnswered' /\ LastKeyOnItsWay'
  BY <1>1, <1>9, ReaderFrame
<1>11. TerminalTypes' BY <1>1, <1>6, <1>8 DEF TerminalInv, TerminalTypes, Limits
<1>12. KeysWithinLimit'
  <2>1. Len(typed) \in Nat /\ Len(fifo) \in Nat /\ TypeLimit \in Nat
    BY DEF TerminalInv, TerminalTypes, TerminalAssumption
  <2> QED BY <1>1, <1>6, <2>1 DEF TerminalInv, KeysWithinLimit
<1>13. KeysCounted'
  <2>1. KeyHolders' = KeyHolders \ {r} BY <1>9, <1>10 DEF KeyHolders
  <2>2. Cardinality(KeyHolders') = Cardinality(KeyHolders) - 1
    BY <1>4, <2>1, HoldersFinite, FS_RemoveElement
  <2>3. free[local_full] + Cardinality(KeyHolders) = Len(local) BY DEF TerminalInv, KeysCounted
  <2>4. free'[local_full] + Cardinality(KeyHolders') = Len(local')
    BY <1>5, <1>6, <1>9, <2>2, <2>3
  <2>5. waiting'[local_full] \subseteq {q \in Readers : at'[q] = "take"}
    BY <1>3, <1>9, <1>10 DEF TerminalInv, KeysCounted
  <2> QED BY <2>4, <2>5 DEF KeysCounted
<1>14. LinesCounted'
  <2>1. waiting[wait_enter] \subseteq {q \in Readers : at[q] = "getkey"}
    BY DEF TerminalInv, LinesCounted
  <2>2. waiting'[wait_enter] \subseteq {q \in Readers : at'[q] = "getkey"}
    BY <1>3, <1>8, <1>10, <2>1
  <2>3. LineHolders' = (LineHolders \ {r}) \cup Gone
    BY <1>3, <1>8, <1>10, <2>1 DEF LineHolders
  <2>4. UNCHANGED waiting => LineHolders' = LineHolders \ {r} BY <2>3
  <2>5. IsFiniteSet(LineHolders') /\ free'[wait_enter] \in Nat
    <3>1. LineHolders' \subseteq Readers BY DEF LineHolders
    <3> QED BY <1>8, <3>1, FS_Subset
  <2>6. ASSUME ~lost'
        PROVE  free'[wait_enter] + Cardinality(LineHolders') + LinesIn(mail)
                   + (IF entered THEN 1 ELSE 0) = LinesIn(local')
    <3>1. ~lost BY <1>2, <2>6
    <3>2. \/ k = ENTER /\ LineHolders' = LineHolders \ {r} /\ free'[wait_enter] = free[wait_enter]
          \/ /\ k # ENTER /\ Up(wait_enter) /\ ~AtMaximum(wait_enter)
             /\ LineHolders' = (LineHolders \ {r}) \cup Gone
      BY <1>2, <2>3, <2>4, <2>6
    <3> QED BY <1>4, <1>7, <2>5, <3>1, <3>2, LineTaken
  <2> QED BY <1>1, <2>2, <2>6 DEF LinesCounted
<1> QED BY <1>8, <1>10, <1>11, <1>12, <1>13, <1>14 DEF TerminalInv

LEMMA TerminalInitInv ==
    ASSUME TerminalAssumption, TerminalInit
    PROVE  TerminalInv
<1> USE NamesDiffer
<1>1. /\ max = Limits /\ free = [s \in Ids |-> 0] /\ typed = <<>> /\ fifo = <<>> /\ mail = <<>>
      /\ local = <<>> /\ key = ENTER /\ ~entered /\ echoed = <<>>
  BY DEF TerminalInit, Limits
<1>2. waiting[full] = {driver} /\ waiting[signal] = {echo} /\ waiting[local_full] = {}
      /\ waiting[wait_enter] = {} /\ waiting \in [Ids -> SUBSET Users]
  BY DEF TerminalInit
<1>3. /\ DOMAIN at = Users /\ at[driver] = "pass" /\ at[echo] = "echo"
      /\ \A r \in Readers : at[r] = "idle"
  BY DEF TerminalInit
<1>4. TerminalTypes BY <1>1, <1>2 DEF TerminalTypes
<1>5. PlacesOfThreads BY <1>3 DEF PlacesOfThreads
<1>6. NoneFreeWhileWaiting
  <2>1. Limits \in [Ids -> Nat] BY LimitsAre
  <2> QED BY <1>1, <2>1 DEF NoneFreeWhileWaiting
<1>7. KeysWithinLimit BY <1>1 DEF KeysWithinLimit, TerminalAssumption
<1>8. DriverCounted BY <1>1, <1>2, <1>3 DEF DriverCounted, DriverHolds
<1>9. KeyHolders = {} /\ LineHolders = {} BY <1>3 DEF KeyHolders, LineHolders
<1>10. KeysCounted BY <1>1, <1>2, <1>9, FS_EmptySet DEF KeysCounted
<1>11. LinesCounted
  <2>1. free[wait_enter] = 0 /\ Cardinality(LineHolders) = 0 BY <1>1, <1>9, FS_EmptySet
  <2>2. LinesIn(mail) = 0 /\ LinesIn(local) = 0 BY <1>1, LinesInNone
  <2> QED BY <1>1, <1>2, <2>1, <2>2 DEF LinesCounted
<1>12. EchoAnswered BY <1>1, <1>2, <1>3 DEF EchoAnswered
<1>13. LastKeyOnItsWay BY <1>1 DEF LastKeyOnItsWay
<1> QED BY <1>4, <1>5, <1>6, <1>7, <1>8, <1>10, <1>11, <1>12, <1>13 DEF TerminalInv

\* Terminal: what the driver, echo_input, the message loop and the threads of getchar
\* count together.  (fifo_read_bytes, echo_input, getchar, up_signal, down_signal)
THEOREM TerminalInvariant ==
    ASSUME TerminalAssumption
    PROVE  TerminalSpec => []TerminalInv
<1>1. TerminalInit => TerminalInv BY TerminalInitInv
<1>2. TerminalInv /\ [TerminalNext]_terminalVars => TerminalInv'
  <2> SUFFICES ASSUME TerminalInv, [TerminalNext]_terminalVars PROVE TerminalInv' OBVIOUS
  <2>1. CASE UNCHANGED terminalVars
    BY SMTT(30), <2>1 DEF terminalVars, csVars, TerminalInv, TerminalTypes, PlacesOfThreads,
                NoneFreeWhileWaiting, KeysWithinLimit, DriverCounted, DriverHolds, KeysCounted,
                KeyHolders, LinesCounted, LineHolders, EchoAnswered, LastKeyOnItsWay, KeyIsEchoed,
                EchoHolds, Limits
  <2>2. CASE TerminalNext
    BY <2>2, TypeKeeps, DriverReadsKeeps, DriverPassesKeeps, HandleKeyKeeps, HandleEnterKeeps,
       HandleReplyKeeps, EchoWaitsKeeps, EchoKeyKeeps, GetCharKeeps, GetKeyKeeps, TakeKeyKeeps
    DEF TerminalNext
  <2> QED BY <2>1, <2>2
<1> QED BY <1>1, <1>2, PTL DEF TerminalSpec

\* Terminal: whenever the keys have gone their way, wait_enter counts the lines that are
\* still to be read, unless there were once more than it can count, and the screen ends
\* with the last key, for any number of keys, of threads in getchar and any maximum.
\* (getchar, normal_ipc_handler, echo_input)
THEOREM TypedIsReadAndShownCorrect ==
    ASSUME TerminalAssumption
    PROVE  TerminalSpec => []TypedIsReadAndShown
<1> USE NamesDiffer
<1>1. ASSUME TerminalInv, Quiet, ~lost PROVE free[wait_enter] = LinesIn(local)
  <2>1. /\ free[wait_enter] \in Nat /\ free[local_full] \in Nat /\ LinesIn(local) \in Nat
        /\ Cardinality(LineHolders) \in Nat /\ Cardinality(KeyHolders) \in Nat
        /\ local \in Seq(Keys)
    BY <1>1, HoldersFinite, LinesAreNumbers DEF TerminalInv, TerminalTypes
  <2>2. free[wait_enter] + Cardinality(LineHolders) = LinesIn(local)
    <3>1. LinesIn(mail) = 0 /\ ~entered BY <1>1, LinesInNone DEF Quiet
    <3>2. free[wait_enter] + Cardinality(LineHolders) + 0 + 0 = LinesIn(local)
      BY <1>1, <3>1 DEF TerminalInv, LinesCounted
    <3> QED BY <2>1, <3>2
  <2>3. ASSUME NEW r \in Readers
        PROVE  at[r] = "idle" \/ r \in waiting[wait_enter] \/ r \in waiting[local_full]
    <3>1. r \notin waiting[full] /\ r \notin waiting[signal]
      BY <1>1 DEF TerminalInv, DriverCounted, EchoAnswered
    <3> QED BY <1>1, <3>1 DEF Quiet, IsAt, Sleeps
  <2>4. KeyHolders = {}
    <3>1. \A r \in waiting[wait_enter] : at[r] = "getkey" BY <1>1 DEF TerminalInv, LinesCounted
    <3> QED BY <2>3, <3>1 DEF KeyHolders
  <2>5. CASE waiting[local_full] = {}
    <3>1. LineHolders = {} BY <2>3, <2>5 DEF LineHolders
    <3>2. Cardinality(LineHolders) = 0 BY <3>1, FS_EmptySet
    <3> QED BY <2>1, <2>2, <3>2
  <2>6. CASE waiting[local_full] # {}
    <3>1. free[local_full] = 0 BY <1>1, <2>1, <2>6 DEF TerminalInv, NoneFreeWhileWaiting
    <3>2. Cardinality(KeyHolders) = 0 BY <2>4, FS_EmptySet
    <3>3. Len(local) = 0 BY <1>1, <3>1, <3>2 DEF TerminalInv, KeysCounted
    <3>4. local = <<>> BY <2>1, <3>3, EmptySeq
    <3>5. LinesIn(local) = 0 BY <3>4, LinesInNone
    <3> QED BY <2>1, <2>2, <3>5
  <2> QED BY <2>5, <2>6
<1>2. ASSUME TerminalInv, Quiet, typed # <<>>
      PROVE  echoed # <<>> /\ Last(echoed) = Last(typed)
  <2>1. fifo = <<>> /\ mail = <<>> /\ echo \in waiting[signal] BY <1>2 DEF Quiet
  <2>2. \A i \in 1 .. Len(mail) : mail[i] = Reply BY <2>1
  <2>3. key = typed[Len(typed)] /\ KeyIsEchoed
    BY <1>2, <2>1, <2>2 DEF TerminalInv, LastKeyOnItsWay
  <2>4. ~(free[signal] > 0) BY <1>2, <2>1 DEF TerminalInv, NoneFreeWhileWaiting
  <2>5. echoed # <<>> /\ echoed[Len(echoed)] = key BY <2>1, <2>3, <2>4 DEF KeyIsEchoed, EchoHolds
  <2> QED BY <2>3, <2>5 DEF Last
<1>3. TerminalInv => TypedIsReadAndShown
  BY <1>1, <1>2 DEF TypedIsReadAndShown, LinesAreCounted, LastKeyShown
<1> QED BY <1>3, TerminalInvariant, PTL
---------------------------------------------------------------------------
(* The consoles. *)

\* What the consoles need of the constants.
ConsoleSizes ==
    /\ Columns \in Nat \ {0} /\ ScreenLines \in Nat \ {0} /\ TabWidth \in 1 .. Columns - 1
    /\ ConsoleNum \in Nat \ {0} /\ ConsoleNum <= 256 /\ NoCall \notin Nat
    /\ Printables \cap Controls = {} /\ Strings \subseteq Seq(Chars)
    /\ \A rest \in StackBytes : rest \in Nat /\ (rest = 0 \/ rest >= 256)

LEMMA SizesAre == ConsoleSizes
<1>1. ConsoleNum \in Nat \ {0} /\ ConsoleNum <= 256 BY ConsoleAssumption
<1> QED BY <1>1, ConsoleAssumption DEF ConsoleSizes

\* What can be in a framebuffer.
Contents == [Positions -> Printables \cup {Blank}]

LEMMA ContentsPut ==
    ASSUME NEW f \in Contents, NEW p, NEW x \in Printables \cup {Blank}
    PROVE  [f EXCEPT ![p] = x] \in Contents
BY DEF Contents

\* A console, whose position may be behind its end.
ConsoleSet == [framebuffer : Contents, pos_x : Nat, pos_y : Nat]

\* The character is where the console is, which has not moved.
Put(c, ch) == [framebuffer |-> [c.framebuffer EXCEPT ![Place(c)] = ch],
               pos_x |-> c.pos_x, pos_y |-> c.pos_y]

LEMMA PutrawcharIn ==
    ASSUME ConsoleSizes, NEW c \in ConsoleSet, NEW ch \in Printables \cup {Blank}
    PROVE  /\ Putrawchar(c, ch) \in ConsoleSet
           /\ StepBack(Putrawchar(c, ch)) = Put(c, ch)
<1> DEFINE d == Putrawchar(c, ch)
           f == [c.framebuffer EXCEPT ![Place(c)] = ch]
<1>1. /\ Columns \in Nat \ {0} /\ c.pos_x \in Nat /\ c.pos_y \in Nat
      /\ c = [framebuffer |-> c.framebuffer, pos_x |-> c.pos_x, pos_y |-> c.pos_y]
      /\ c.framebuffer \in Contents
  BY DEF ConsoleSizes, ConsoleSet
<1>2. f \in Contents BY <1>1, ContentsPut
<1>3. /\ d.framebuffer = f
      /\ d.pos_x = IF c.pos_x + 1 = Columns THEN 0 ELSE c.pos_x + 1
      /\ d.pos_y = IF c.pos_x + 1 = Columns THEN c.pos_y + 1 ELSE c.pos_y
      /\ d = [framebuffer |-> d.framebuffer, pos_x |-> d.pos_x, pos_y |-> d.pos_y]
  BY DEF Putrawchar
<1> HIDE DEF d, f
<1>4. d.pos_x \in Nat /\ d.pos_y \in Nat BY <1>1, <1>3
<1>5. d \in ConsoleSet BY <1>2, <1>3, <1>4 DEF ConsoleSet
<1>6. StepBack(d) = [framebuffer |-> f, pos_x |-> c.pos_x, pos_y |-> c.pos_y]
  <2>1. CASE c.pos_x + 1 = Columns
    <3>1. d.pos_x = 0 /\ d.pos_y = c.pos_y + 1 BY <1>3, <2>1
    <3>2. StepBack(d) = [d EXCEPT !.pos_x = Columns - 1, !.pos_y = d.pos_y - 1]
      BY <3>1 DEF StepBack
    <3>3. Columns - 1 = c.pos_x /\ d.pos_y - 1 = c.pos_y BY <1>1, <2>1, <3>1
    <3> QED BY <1>3, <3>2, <3>3
  <2>2. CASE c.pos_x + 1 # Columns
    <3>1. d.pos_x = c.pos_x + 1 /\ d.pos_y = c.pos_y BY <1>3, <2>2
    <3>2. d.pos_x > 0 /\ d.pos_x - 1 = c.pos_x BY <1>1, <3>1
    <3>3. StepBack(d) = [d EXCEPT !.pos_x = d.pos_x - 1] BY <3>2 DEF StepBack
    <3> QED BY <1>3, <3>1, <3>2, <3>3
  <2> QED BY <2>1, <2>2
<1> QED BY <1>5, <1>6 DEF d, f, Put

\* A position back is one on the console, the first at the first.
LEMMA StepBackIn ==
    ASSUME ConsoleSizes, NEW c \in ConsoleSet
    PROVE  InConsole(StepBack(c)) \in ConsoleSet
<1>1. /\ Columns \in Nat \ {0} /\ c.pos_x \in Nat /\ c.pos_y \in Nat
      /\ c = [framebuffer |-> c.framebuffer, pos_x |-> c.pos_x, pos_y |-> c.pos_y]
      /\ c.framebuffer \in Contents
  BY DEF ConsoleSizes, ConsoleSet
<1>2. CASE c.pos_x > 0
  <2>1. StepBack(c) = [framebuffer |-> c.framebuffer, pos_x |-> c.pos_x - 1, pos_y |-> c.pos_y]
    BY <1>1, <1>2 DEF StepBack
  <2>2. InConsole(StepBack(c)) = StepBack(c) BY <1>1, <2>1 DEF InConsole
  <2>3. c.pos_x - 1 \in Nat BY <1>1, <1>2
  <2> QED BY <1>1, <2>1, <2>2, <2>3 DEF ConsoleSet
<1>3. CASE c.pos_x = 0
  <2> DEFINE d == [framebuffer |-> c.framebuffer, pos_x |-> Columns - 1, pos_y |-> c.pos_y - 1]
  <2>1. StepBack(c) = d
    <3>1. StepBack(c) = [c EXCEPT !.pos_x = Columns - 1, !.pos_y = c.pos_y - 1]
      BY <1>3 DEF StepBack
    <3> QED BY <1>1, <3>1
  <2>2. CASE c.pos_y = 0
    <3>1. d.pos_y < 0 BY <2>2
    <3>2. InConsole(d) = [framebuffer |-> c.framebuffer, pos_x |-> 0, pos_y |-> 0]
      BY <3>1 DEF InConsole
    <3>3. 0 \in Nat BY <1>1
    <3> QED BY <1>1, <2>1, <3>2, <3>3 DEF ConsoleSet
  <2>3. CASE c.pos_y > 0
    <3>1. c.pos_y - 1 \in Nat /\ Columns - 1 \in Nat BY <1>1, <2>3
    <3>2. InConsole(d) = d BY <3>1 DEF InConsole
    <3> QED BY <1>1, <2>1, <3>1, <3>2 DEF ConsoleSet
  <2> QED BY <1>1, <2>2, <2>3
<1> QED BY <1>1, <1>2, <1>3

\* Every character leaves the console a console.
LEMMA PutcharIn ==
    ASSUME ConsoleSizes, NEW c \in ConsoleSet, NEW ch \in Chars
    PROVE  Putchar(c, ch) \in ConsoleSet
<1> DEFINE d == Putchar(c, ch)
<1>1. /\ TabWidth \in Nat /\ c.pos_x \in Nat /\ c.pos_y \in Nat
      /\ c = [framebuffer |-> c.framebuffer, pos_x |-> c.pos_x, pos_y |-> c.pos_y]
      /\ c.framebuffer \in Contents
  BY DEF ConsoleSizes, ConsoleSet
<1>5. CASE ch = "newline"
  <2>1. d = [framebuffer |-> c.framebuffer, pos_x |-> 0, pos_y |-> c.pos_y + 1]
    BY <1>1, <1>5 DEF Putchar
  <2> QED BY <1>1, <2>1 DEF ConsoleSet
<1>6. CASE ch = "tab"
  <2>1. d = [framebuffer |-> c.framebuffer, pos_x |-> c.pos_x + TabWidth, pos_y |-> c.pos_y]
    BY <1>1, <1>6 DEF Putchar
  <2> QED BY <1>1, <2>1 DEF ConsoleSet
<1>7. CASE ch = "vtab"
  <2>1. d = [framebuffer |-> c.framebuffer, pos_x |-> c.pos_x, pos_y |-> c.pos_y + 1]
    BY <1>1, <1>7 DEF Putchar
  <2> QED BY <1>1, <2>1 DEF ConsoleSet
<1>8. CASE ch = "formfeed"
  <2>1. d = [framebuffer |-> c.framebuffer, pos_x |-> 0, pos_y |-> 0]
    BY <1>1, <1>8 DEF Putchar
  <2> QED BY <1>1, <2>1 DEF ConsoleSet
<1>9. CASE ch = "backspace"
  <2> DEFINE b == InConsole(StepBack(c))
             f == [b.framebuffer EXCEPT ![Place(b)] = Blank]
  <2>1. b \in ConsoleSet BY StepBackIn
  <2>2. d = StepBack(Putrawchar(b, Blank)) BY <1>9 DEF Putchar
  <2> HIDE DEF b, d
  <2>3. d = Put(b, Blank) BY <2>1, <2>2, PutrawcharIn
  <2>4. f \in Contents BY <2>1, ContentsPut DEF ConsoleSet
  <2>5. d = [framebuffer |-> f, pos_x |-> b.pos_x, pos_y |-> b.pos_y] BY <2>3 DEF Put
  <2> HIDE DEF f
  <2>6. b.pos_x \in Nat /\ b.pos_y \in Nat BY <2>1 DEF ConsoleSet
  <2> QED BY <2>4, <2>5, <2>6 DEF ConsoleSet, d
<1>10. CASE ch \in Printables
  <2>1. ch \notin Controls BY <1>10 DEF ConsoleSizes
  <2>2. d = Putrawchar(c, ch) BY <2>1 DEF Putchar, Controls
  <2> QED BY <1>10, <2>2, PutrawcharIn
<1> HIDE DEF d
<1>11. ch \in Printables \/ ch \in {"newline", "tab", "vtab", "backspace", "formfeed"}
  BY DEF Chars, Controls
<1> QED BY <1>5, <1>6, <1>7, <1>8, <1>9, <1>10, <1>11

\* e is what the loop over the first n characters makes of the console.
IsOutputsTo(n, e, c, str) == /\ e \in [0 .. n -> ConsoleSet]
                             /\ e[0] = c
                             /\ \A i \in 1 .. n : e[i] = Putchar(e[i - 1], str[i])

IsOutputs(e, c, str) == IsOutputsTo(Len(str), e, c, str)

LEMMA OutputsExist ==
    ASSUME ConsoleSizes, NEW str \in Seq(Chars), NEW c \in ConsoleSet
    PROVE  \E e : IsOutputs(e, c, str)
<1> DEFINE T == {n \in Nat : n <= Len(str) => \E e : IsOutputsTo(n, e, c, str)}
<1>1. 0 \in T
  <2>1. IsOutputsTo(0, [i \in 0 .. 0 |-> c], c, str) BY DEF IsOutputsTo
  <2> QED BY <2>1
<1>2. ASSUME NEW n \in Nat, n \in T, n + 1 <= Len(str)
      PROVE  \E e : IsOutputsTo(n + 1, e, c, str)
  <2>1. Len(str) \in Nat /\ str[n + 1] \in Chars BY <1>2, LenProperties, ElementOfSeq
  <2>2. PICK e : IsOutputsTo(n, e, c, str) BY <1>2, <2>1
  <2>6. Putchar(e[n], str[n + 1]) \in ConsoleSet BY <2>1, <2>2, PutcharIn DEF IsOutputsTo
  <2> DEFINE f == [i \in 0 .. n + 1 |-> IF i <= n THEN e[i] ELSE Putchar(e[n], str[n + 1])]
  <2>3. f \in [0 .. n + 1 -> ConsoleSet] /\ f[0] = c BY <2>2, <2>6 DEF IsOutputsTo
  <2>4. ASSUME NEW i \in 1 .. n + 1 PROVE f[i] = Putchar(f[i - 1], str[i])
    <3>1. CASE i = n + 1 BY <3>1
    <3>2. CASE i \in 1 .. n BY <3>2, <2>2 DEF IsOutputsTo
    <3> QED BY <3>1, <3>2
  <2>5. IsOutputsTo(n + 1, f, c, str)
    <3> HIDE DEF f
    <3> QED BY <2>3, <2>4 DEF IsOutputsTo
  <2> QED BY <2>5
<1>3. \A n \in Nat : n \in T => n + 1 \in T BY <1>2
<1>4. Nat \subseteq T
  <2> HIDE DEF T
  <2> QED BY <1>1, <1>3, AllNumbers
<1>5. Len(str) \in T BY <1>4, LenProperties
<1> QED BY <1>5, LenProperties DEF IsOutputs

\* The loop of Outputs comes to it.
LEMMA OutputsAre ==
    ASSUME ConsoleSizes, NEW str \in Seq(Chars), NEW c \in ConsoleSet
    PROVE  IsOutputs(Outputs(c, str), c, str)
<1> DEFINE Loop(f) == f = [n \in 0 .. Len(str) |-> IF n = 0 THEN c ELSE Putchar(f[n - 1], str[n])]
<1>0. Len(str) \in Nat BY LenProperties
<1>1. PICK e : IsOutputs(e, c, str) BY OutputsExist
<1>2. Loop(e) BY <1>0, <1>1 DEF IsOutputs, IsOutputsTo
<1>3. ASSUME NEW f, Loop(f) PROVE f = e
  <2> DEFINE T == {n \in Nat : n <= Len(str) => f[n] = e[n]}
  <2>1. 0 \in T BY <1>0, <1>1, <1>3 DEF IsOutputs, IsOutputsTo
  <2>2. ASSUME NEW n \in Nat, n \in T PROVE n + 1 \in T
    BY <1>0, <1>1, <1>3, <2>2 DEF IsOutputs, IsOutputsTo
  <2>3. Nat \subseteq T
    <3> HIDE DEF T
    <3> QED BY <2>1, <2>2, AllNumbers
  <2>4. DOMAIN f = 0 .. Len(str) /\ f = [n \in 0 .. Len(str) |-> f[n]] BY <1>3
  <2>5. DOMAIN e = 0 .. Len(str) /\ e = [n \in 0 .. Len(str) |-> e[n]]
    BY <1>1 DEF IsOutputs, IsOutputsTo
  <2>6. \A n \in 0 .. Len(str) : f[n] = e[n] BY <1>0, <2>3
  <2> HIDE <1>3 DEF Loop
  <2> QED BY <2>4, <2>5, <2>6
<1>4. Outputs(c, str) = CHOOSE f : Loop(f) BY DEF Outputs
<1>5. Loop(CHOOSE f : Loop(f))
  <2> HIDE DEF Loop
  <2> QED BY <1>2
<1> QED BY <1>1, <1>3, <1>4, <1>5

LEMMA PutStringIn ==
    ASSUME ConsoleSizes, NEW c \in ConsoleSet, NEW str \in Seq(Chars)
    PROVE  PutString(c, str) \in ConsoleSet
<1> DEFINE e == Outputs(c, str)
<1>1. IsOutputs(e, c, str) BY OutputsAre
<1>2. Len(str) \in 0 .. Len(str) BY LenProperties
<1> QED BY <1>1, <1>2 DEF IsOutputs, IsOutputsTo, PutString

\* A letter and a backspace leave the letter's place blank, and nothing else.
LEMMA TakenBack ==
    ASSUME ConsoleSizes, NEW c \in ConsoleSet, NEW ch \in Printables
    PROVE  PutString(c, <<ch, "backspace">>) = Put(c, Blank)
<1> DEFINE str == <<ch, "backspace">>
           e == Outputs(c, str)
           d == Putrawchar(c, ch)
           p == Place(c)
           f == [c.framebuffer EXCEPT ![p] = ch]
<1>1. str \in Seq(Chars) /\ Len(str) = 2 /\ str[1] = ch /\ str[2] = "backspace"
  BY DEF Chars, Controls
<1>3. PutString(c, str) = e[2] BY <1>1 DEF PutString
<1> HIDE DEF str
<1>4. IsOutputs(e, c, str) BY <1>1, OutputsAre
<1> HIDE DEF e
<1>5. e[1] = Putchar(c, ch)
  <2>1. e[1] = Putchar(e[1 - 1], str[1]) /\ e[0] = c BY <1>1, <1>4 DEF IsOutputs, IsOutputsTo
  <2> QED BY <1>1, <2>1
<1>6. e[2] = Putchar(e[1], "backspace")
  <2>1. e[2] = Putchar(e[2 - 1], str[2]) BY <1>1, <1>4 DEF IsOutputs, IsOutputsTo
  <2> QED BY <1>1, <2>1
<1>7. Putchar(c, ch) = d
  <2>1. ch \notin Controls BY DEF ConsoleSizes
  <2> QED BY <2>1 DEF Putchar, Controls
<1>8. StepBack(d) = Put(c, ch) BY PutrawcharIn
<1> HIDE DEF d
<1>9. Putchar(d, "backspace") = StepBack(Putrawchar(InConsole(Put(c, ch)), Blank))
  BY <1>8 DEF Putchar
<1>10. c.framebuffer \in Contents /\ c.pos_x \in Nat /\ c.pos_y \in Nat BY DEF ConsoleSet
<1>11. f \in Contents BY <1>10, ContentsPut
<1>12. Put(c, ch) = [framebuffer |-> f, pos_x |-> c.pos_x, pos_y |-> c.pos_y] BY DEF Put
<1>13. Put(c, ch) \in ConsoleSet
  <2> HIDE DEF f
  <2> QED BY <1>10, <1>11, <1>12 DEF ConsoleSet
<1>14. InConsole(Put(c, ch)) = Put(c, ch)
  <2>1. Put(c, ch).pos_y = c.pos_y BY <1>12
  <2>2. ~(c.pos_y < 0) BY <1>10
  <2> QED BY <2>1, <2>2 DEF InConsole
<1>15. StepBack(Putrawchar(Put(c, ch), Blank)) = Put(Put(c, ch), Blank) BY <1>13, PutrawcharIn
<1>16. Put(Put(c, ch), Blank) = Put(c, Blank)
  <2>1. [f EXCEPT ![p] = Blank] = [c.framebuffer EXCEPT ![p] = Blank] BY <1>10 DEF Contents
  <2> HIDE DEF f
  <2>2. Place(Put(c, ch)) = p BY <1>12 DEF Place
  <2>3. Put(Put(c, ch), Blank) =
            [framebuffer |-> [f EXCEPT ![p] = Blank], pos_x |-> c.pos_x, pos_y |-> c.pos_y]
    BY <1>12, <2>2 DEF Put
  <2> QED BY <2>1, <2>3 DEF Put
<1> QED BY <1>3, <1>5, <1>6, <1>7, <1>9, <1>14, <1>15, <1>16 DEF str
---------------------------------------------------------------------------
(* What is seen. *)

\* Each console has a framebuffer, known by the number of the console; the last one
\* may still be on its way to tty.
NodesAre ==
    /\ nodes \in Seq([id : Nat, framebuffer : Nat])
    /\ Len(nodes) = Len(consoles) \/ Len(nodes) = Len(consoles) + 1
    /\ Len(nodes) <= ConsoleNum
    /\ \A n \in 1 .. Len(nodes) : /\ nodes[n].id = Len(nodes) - n
                                  /\ nodes[n].framebuffer = Len(nodes) - n

\* What is asked of video is the first framebuffer or, if the stack behind the bool
\* is not zeros, none.
CallsAre == /\ swaps \in [Writers -> Nat \cup {NoCall}]
            /\ \A w \in Writers : swaps[w] = NoCall \/ swaps[w] = 0 \/ swaps[w] >= 256

\* The screen is the active console, or nothing's, unless there is a call to come.
ScreenIs == \/ screen = FrameShows(Active)
            \/ screen = FromNull
            \/ \E w \in Writers : swaps[w] # NoCall

ConsoleInv == consoles \in Seq(ConsoleSet) /\ NodesAre /\ CallsAre /\ ScreenIs

LEMMA ConsoleInitInv ==
    ASSUME ConsoleSizes, ConsoleInit
    PROVE  ConsoleInv
<1>1. /\ consoles = <<>> /\ nodes = <<>> /\ swaps = [w \in Writers |-> NoCall] /\ screen = Empty
  BY DEF ConsoleInit
<1>2. consoles \in Seq(ConsoleSet) /\ Len(consoles) = 0 BY <1>1
<1>3. NodesAre BY <1>1 DEF NodesAre, ConsoleSizes
<1>4. CallsAre BY <1>1 DEF CallsAre
<1>5. ScreenIs BY <1>1, <1>2 DEF ScreenIs, FrameShows, Active
<1> QED BY <1>2, <1>3, <1>4, <1>5 DEF ConsoleInv

LEMMA CreateFramebufferKeeps ==
    ASSUME ConsoleSizes, ConsoleInv, CreateFramebuffer
    PROVE  ConsoleInv'
<1> DEFINE N == [id : Nat, framebuffer : Nat]
           y == [id |-> Len(nodes), framebuffer |-> Len(consoles)]
<1>1. /\ consoles' = consoles /\ nodes' = <<y>> \o nodes /\ swaps' = swaps /\ screen' = screen
      /\ Len(nodes) = Len(consoles) /\ Len(nodes) < ConsoleNum
  BY DEF CreateFramebuffer, Created
<1>2. /\ consoles \in Seq(ConsoleSet) /\ Len(consoles) \in Nat /\ ConsoleNum \in Nat
      /\ NodesAre /\ CallsAre /\ ScreenIs
  BY LenProperties DEF ConsoleInv, ConsoleSizes
<1>3. nodes \in Seq(N) /\ Len(nodes) \in Nat /\ y \in N BY <1>1, <1>2 DEF NodesAre
<1>4. y.id = Len(nodes) /\ y.framebuffer = Len(nodes) BY <1>1
<1> HIDE DEF N, y
<1>5. <<y>> \in Seq(N) /\ Len(<<y>>) = 1 /\ <<y>>[1] = y BY <1>3
<1>6. /\ nodes' \in Seq(N) /\ Len(nodes') = 1 + Len(nodes)
      /\ \A n \in 1 .. 1 + Len(nodes) : nodes'[n] = IF n <= 1 THEN <<y>>[n] ELSE nodes[n - 1]
  BY <1>1, <1>3, <1>5, ConcatProperties
<1>7. ASSUME NEW n \in 1 .. Len(nodes')
      PROVE  nodes'[n].id = Len(nodes') - n /\ nodes'[n].framebuffer = Len(nodes') - n
  <2>1. CASE n = 1 BY <1>3, <1>4, <1>5, <1>6, <2>1
  <2>2. CASE n # 1
    <3>1. n - 1 \in 1 .. Len(nodes) /\ nodes'[n] = nodes[n - 1] BY <1>3, <1>6, <2>2
    <3>2. nodes[n - 1].id = Len(nodes) - (n - 1) /\ nodes[n - 1].framebuffer = Len(nodes) - (n - 1)
      BY <1>2, <3>1 DEF NodesAre
    <3> QED BY <1>3, <1>6, <3>1, <3>2
  <2> QED BY <2>1, <2>2
<1>8. Len(nodes') = Len(consoles') + 1 /\ Len(nodes') <= ConsoleNum BY <1>1, <1>2, <1>3, <1>6
<1>9. NodesAre' BY <1>6, <1>7, <1>8 DEF NodesAre, N
<1>10. CallsAre' BY <1>1, <1>2 DEF CallsAre
<1>11. ScreenIs' BY <1>1, <1>2 DEF ScreenIs, FrameShows, Console, FromNull, Positions, Empty
<1> QED BY <1>1, <1>2, <1>9, <1>10, <1>11 DEF ConsoleInv

LEMMA InitConsoleKeeps ==
    ASSUME ConsoleSizes, ConsoleInv, InitConsole
    PROVE  ConsoleInv'
<1>1. /\ consoles \in Seq(ConsoleSet) /\ Len(consoles) \in Nat /\ Len(nodes) \in Nat
      /\ NodesAre /\ CallsAre /\ ScreenIs
  BY LenProperties DEF ConsoleInv, NodesAre
<1>2. /\ consoles' = Append(consoles, Fresh) /\ nodes' = nodes /\ Len(nodes) > Len(consoles)
      /\ swaps' = swaps /\ screen' = screen
  BY DEF InitConsole
<1>3. Fresh \in ConsoleSet /\ Fresh.framebuffer = Empty BY DEF Fresh, ConsoleSet, Contents, Empty
<1>4. /\ consoles' \in Seq(ConsoleSet) /\ Len(consoles') = Len(consoles) + 1
      /\ \A n \in 1 .. Len(consoles) : consoles'[n] = consoles[n]
      /\ consoles'[Len(consoles) + 1] = Fresh
  BY <1>1, <1>2, <1>3, AppendProperties
<1>5. NodesAre' BY <1>1, <1>2, <1>4 DEF NodesAre
<1>6. CallsAre' BY <1>1, <1>2 DEF CallsAre
<1>7. ScreenIs'
  <2>1. FrameShows(Active)' = consoles'[1].framebuffer
    BY <1>1, <1>4 DEF FrameShows, Console, Active
  <2>2. CASE Len(consoles) = 0
    <3>1. FrameShows(Active) = Empty BY <2>2 DEF FrameShows, Active
    <3>2. consoles'[1].framebuffer = Empty BY <1>3, <1>4, <2>2
    <3> QED BY <1>1, <1>2, <2>1, <3>1, <3>2 DEF ScreenIs, FromNull, Positions
  <2>3. CASE Len(consoles) > 0
    <3>1. FrameShows(Active) = consoles[1].framebuffer
      BY <2>3 DEF FrameShows, Console, Active
    <3>2. consoles'[1] = consoles[1] BY <1>1, <1>4, <2>3
    <3> QED BY <1>1, <1>2, <2>1, <3>1, <3>2 DEF ScreenIs, FromNull, Positions
  <2> QED BY <1>1, <2>2, <2>3
<1> QED BY <1>4, <1>5, <1>6, <1>7 DEF ConsoleInv

LEMMA OutputKeeps ==
    ASSUME ConsoleSizes, ConsoleInv, NEW w \in Writers, NEW no \in 0 .. ConsoleNum - 1,
           NEW str \in Seq(Chars), Output(w, no, str)
    PROVE  ConsoleInv'
<1>1. /\ consoles \in Seq(ConsoleSet) /\ Len(consoles) \in Nat /\ ConsoleNum \in Nat
      /\ NodesAre /\ CallsAre /\ ScreenIs /\ swaps[w] = NoCall
  BY LenProperties DEF ConsoleInv, Output, ConsoleSizes
<1> DEFINE x == PutString(consoles[no + 1], str)
<1>2. PICK id \in FlushIds(no) : swaps' = [swaps EXCEPT ![w] = id] BY DEF Output
<1>3. /\ consoles' = IF no < Len(consoles) THEN [consoles EXCEPT ![no + 1] = x] ELSE consoles
      /\ nodes' = nodes /\ screen' = screen
  BY DEF Output, Console
<1>4. ASSUME no < Len(consoles) PROVE x \in ConsoleSet
  <2>1. consoles[no + 1] \in ConsoleSet BY <1>1, <1>4, ElementOfSeq
  <2> QED BY <2>1, PutStringIn
<1> HIDE DEF x
<1>5. consoles' \in Seq(ConsoleSet) /\ Len(consoles') = Len(consoles)
  <2>1. CASE no < Len(consoles)
    <3>1. \A n \in 1 .. Len(consoles) : consoles[n] \in ConsoleSet BY <1>1, ElementOfSeq
    <3>2. DOMAIN consoles = 1 .. Len(consoles) BY <1>1, LenProperties
    <3>3. consoles' \in [1 .. Len(consoles) -> ConsoleSet] BY <1>3, <1>4, <2>1, <3>1, <3>2
    <3>4. consoles' \in Seq(ConsoleSet) BY <1>1, <3>3, SeqDef
    <3> QED BY <1>1, <3>3, <3>4, LenProperties
  <2> QED BY <1>1, <1>3, <2>1
<1>6. NodesAre' BY <1>1, <1>3, <1>5 DEF NodesAre
<1>7. \/ id = NoCall /\ no # 0
      \/ id \in Nat /\ (id = 0 \/ id >= 256)
  <2>1. CASE no = 0
    <3>1. PICK rest \in StackBytes : id = 0 + rest BY <2>1, <1>2 DEF FlushIds, Active
    <3>2. rest \in Nat /\ (rest = 0 \/ rest >= 256) BY DEF ConsoleSizes
    <3> QED BY <3>1, <3>2
  <2>2. CASE no # 0
    <3>1. FlushIds(no) = {NoCall} BY <2>2 DEF FlushIds, Active
    <3> QED BY <2>2, <3>1
  <2> QED BY <2>1, <2>2
<1>8. CallsAre' BY <1>1, <1>2, <1>7 DEF CallsAre
<1>9. ScreenIs'
  <2>1. CASE id \in Nat
    <3>1. swaps'[w] = id BY <1>1, <1>2 DEF CallsAre
    <3>2. swaps'[w] # NoCall BY <2>1, <3>1 DEF ConsoleSizes
    <3> QED BY <3>2 DEF ScreenIs
  <2>2. CASE id = NoCall /\ no # 0
    <3>1. swaps' = swaps BY <1>1, <1>2, <2>2 DEF CallsAre
    <3>2. no \in Nat /\ 0 + 1 # no + 1 BY <1>1, <2>2
    <3>3. 0 < Len(consoles) => consoles'[1] = consoles[1]
      BY <1>1, <1>3, <3>2, LenProperties
    <3>4. FrameShows(Active)' = FrameShows(Active)
      BY <1>5, <3>3 DEF FrameShows, Console, Active, Empty, Positions
    <3> QED BY <1>1, <1>3, <3>1, <3>4 DEF ScreenIs, FromNull, Positions
  <2> QED BY <1>7, <2>1, <2>2
<1> QED BY <1>5, <1>6, <1>8, <1>9 DEF ConsoleInv

LEMMA SwapFramebufferKeeps ==
    ASSUME ConsoleSizes, ConsoleInv, NEW w \in Writers, SwapFramebuffer(w)
    PROVE  ConsoleInv'
<1>1. /\ swaps[w] # NoCall /\ consoles' = consoles /\ nodes' = nodes
      /\ swaps' = [swaps EXCEPT ![w] = NoCall]
  BY DEF SwapFramebuffer
<1>2. /\ consoles \in Seq(ConsoleSet) /\ ConsoleNum \in Nat /\ NodesAre /\ CallsAre
  BY DEF ConsoleInv, ConsoleSizes
<1>3. NodesAre' BY <1>1, <1>2 DEF NodesAre
<1>4. CallsAre' BY <1>1, <1>2 DEF CallsAre
<1>5. screen' = FromNull \/ screen' = FrameShows(Active)
  <2> DEFINE G == GetFramebuffer(swaps[w])
  <2>1. ASSUME NEW no \in G PROVE no = Active
    <3>1. PICK n \in DOMAIN nodes : nodes[n].id = swaps[w] /\ no = nodes[n].framebuffer
      BY DEF GetFramebuffer
    <3>2. n \in 1 .. Len(nodes) /\ Len(nodes) \in Nat /\ Len(nodes) <= ConsoleNum
      BY <1>2, LenProperties DEF NodesAre
    <3>3. nodes[n].id = Len(nodes) - n /\ nodes[n].framebuffer = Len(nodes) - n
      BY <1>2, <3>2 DEF NodesAre
    <3>4. Len(nodes) - n < 256 /\ Len(nodes) - n \in Nat BY <3>2 DEF ConsoleSizes
    <3>5. swaps[w] = 0 \/ swaps[w] >= 256 BY <1>1, <1>2 DEF CallsAre
    <3> QED BY <3>1, <3>3, <3>4, <3>5 DEF Active
  <2>2. \/ screen' = FromNull \/ \E no \in G : screen' = FrameShows(no)
    BY DEF SwapFramebuffer
  <2> HIDE DEF G
  <2> QED BY <2>1, <2>2
<1>6. ScreenIs'
  <2>1. FrameShows(Active)' = FrameShows(Active)
    BY <1>1 DEF FrameShows, Console, Active, Empty, Positions
  <2>2. FromNull' = FromNull BY DEF FromNull, Positions
  <2> QED BY <1>5, <2>1, <2>2 DEF ScreenIs
<1> QED BY <1>1, <1>2, <1>3, <1>4, <1>6 DEF ConsoleInv

\* The inductive invariant of the consoles.
THEOREM ConsoleInvariant == ConsoleSpec => []ConsoleInv
<1>1. ConsoleInit => ConsoleInv BY SizesAre, ConsoleInitInv
<1>2. ASSUME ConsoleInv, [ConsoleNext]_consoleVars PROVE ConsoleInv'
  <2> USE SizesAre
  <2>1. CASE InitConsole BY <1>2, <2>1, InitConsoleKeeps
  <2>8. CASE CreateFramebuffer BY <1>2, <2>8, CreateFramebufferKeeps
  <2>2. ASSUME NEW w \in Writers, WrapperPutchar(w) PROVE ConsoleInv'
    <3>1. PICK no \in 0 .. ConsoleNum - 1, ch \in Chars : Output(w, no, <<ch>>)
      BY <2>2 DEF WrapperPutchar
    <3>2. <<ch>> \in Seq(Chars) OBVIOUS
    <3> QED BY <1>2, <3>1, <3>2, OutputKeeps
  <2>3. ASSUME NEW w \in Writers, WrapperPuts(w) PROVE ConsoleInv'
    <3>1. PICK no \in 0 .. ConsoleNum - 1, str \in Strings : Output(w, no, str)
      BY <2>3 DEF WrapperPuts
    <3>2. str \in Seq(Chars) BY DEF ConsoleSizes
    <3> QED BY <1>2, <3>1, <3>2, OutputKeeps
  <2>4. ASSUME NEW w \in Writers, WrapperFlushConsole(w) PROVE ConsoleInv'
    <3>1. PICK no \in 0 .. ConsoleNum - 1 : Output(w, no, <<>>) BY <2>4 DEF WrapperFlushConsole
    <3>2. <<>> \in Seq(Chars) OBVIOUS
    <3> QED BY <1>2, <3>1, <3>2, OutputKeeps
  <2>5. ASSUME NEW w \in Writers, EchoOnConsole(w) PROVE ConsoleInv'
    <3>1. PICK ch \in Printables \cup {"newline", "tab", "backspace"} : Output(w, Active, <<ch>>)
      BY <2>5 DEF EchoOnConsole
    <3>2. <<ch>> \in Seq(Chars) BY DEF Chars, Controls
    <3>3. Active \in 0 .. ConsoleNum - 1 BY DEF Active, ConsoleSizes
    <3> QED BY <1>2, <3>1, <3>2, <3>3, OutputKeeps
  <2>6. ASSUME NEW w \in Writers, SwapFramebuffer(w) PROVE ConsoleInv'
    BY <1>2, <2>6, SwapFramebufferKeeps
  <2>7. CASE UNCHANGED consoleVars
    BY <1>2, <2>7 DEF consoleVars, ConsoleInv, NodesAre, CallsAre, ScreenIs, FrameShows,
                      Console, Active, FromNull, Positions, Empty, ConsoleSet, Contents
  <2> QED BY <1>2, <2>1, <2>2, <2>3, <2>4, <2>5, <2>6, <2>7, <2>8 DEF ConsoleNext
<1> QED BY <1>1, <1>2, PTL DEF ConsoleSpec

\* Until a character is written where there is no framebuffer: when video has answered
\* every call, the screen shows the active console as it is, whichever threads have
\* printed where, and a backspace takes back the letter in front of it wherever it was
\* printed.  (__flush_console, swap_framebuffer, get_framebuffer, __putchar)
THEOREM PrintedIsSeenCorrect == ConsoleSpec => []PrintedIsSeen
<1>1. ASSUME ConsoleInv PROVE PrintedIsSeen
  <2>1. ScreenShowsConsole
    <3>1. consoles # <<>> => 0 < Len(consoles) BY <1>1, EmptySeq, LenProperties DEF ConsoleInv
    <3>2. consoles # <<>> => FrameShows(Active) = Console(Active).framebuffer
      BY <3>1 DEF FrameShows, Active
    <3> QED BY <1>1, <3>2 DEF ConsoleInv, ScreenIs, ScreenShowsConsole
  <2>2. BackspaceTakesBack
    <3> SUFFICES ASSUME NEW n \in DOMAIN consoles, NEW ch \in Printables
                 PROVE  PutString(consoles[n], <<ch, "backspace">>) =
                            [consoles[n] EXCEPT !.framebuffer[Place(consoles[n])] = Blank]
      BY DEF BackspaceTakesBack
    <3> DEFINE c == consoles[n]
    <3>1. c \in ConsoleSet BY <1>1, LenProperties, ElementOfSeq DEF ConsoleInv
    <3>2. PutString(c, <<ch, "backspace">>) = Put(c, Blank) BY <3>1, SizesAre, TakenBack
    <3>3. c = [framebuffer |-> c.framebuffer, pos_x |-> c.pos_x, pos_y |-> c.pos_y]
      BY <3>1 DEF ConsoleSet
    <3>4. Put(c, Blank) = [c EXCEPT !.framebuffer[Place(c)] = Blank]
      BY <3>3 DEF Put
    <3> QED BY <3>2, <3>4
  <2> QED BY <2>1, <2>2 DEF PrintedIsSeen
<1> QED BY <1>1, ConsoleInvariant, PTL
=============================================================================
