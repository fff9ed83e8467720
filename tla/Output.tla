-------------------------------- MODULE Output --------------------------------
(* The log: vsprintf in its four copies (kernel/printk.c, printf.c of libkmod, *)
(* of the setup service's copy of it and of the loader), tostring.c, and the   *)
(* lines that logging.c writes to the serial port.                             *)
(*                                                                           *)
(* The loader runs alone; in the kernel and the modules every thread may be    *)
(* interrupted between the test of the port and the byte it then sends.        *)
(* An argument is a slot of the argument list, of 2 * Bits bits, of which an   *)
(* int is the lower half; that of %s is the address of a string.  Upper case,  *)
(* %% and the alignment, which nothing ever does, are left out, and so are     *)
(* %o, %f and %e, which no caller has.                                         *)
EXTENDS Integers, FiniteSets, Sequences, SequencesExt

CONSTANTS KernelWriters, ModuleWriters, SetupWriters, Loader,
          Formats,        \* what each of them has to say
          Slots,          \* and the values its argument lists are filled with
          Bits,           \* of an int
          DEC, HEX,       \* the two bases
          PointerDigits,  \* the 16 of %p
          FifoSize,       \* the 16 bytes of the port
          LineLimit       \* the lines that are written (bound)

\* Those that can write at the same time: the loader has ended by then.
AtOnce == KernelWriters \cup ModuleWriters \cup SetupWriters
AllWriters == AtOnce \cup {Loader}

\* A format is made of characters and of conversions.
Literal(c) == [ty |-> "literal", flags |-> {c}, star |-> FALSE, width |-> 0]
Conversion(ty, flags, width) == [ty |-> ty, flags |-> flags, star |-> FALSE, width |-> width]
StarWidth(ty, flags) == [ty |-> ty, flags |-> flags, star |-> TRUE, width |-> 0]

digits == <<"0", "1", "2", "3", "4", "5", "6", "7", "8", "9", "a", "b", "c", "d", "e", "f">>

\* Writers have names of their own, and no more of them write at once than the
\* port has room for bytes.
OutputAssumption == /\ Cardinality(AllWriters) = 1 + Cardinality(KernelWriters)
                              + Cardinality(ModuleWriters) + Cardinality(SetupWriters)
                    /\ Bits \in Nat \ {0} /\ 2 <= DEC /\ DEC <= HEX /\ HEX <= Len(digits)
                    /\ Cardinality(AtOnce) <= FifoSize \/ LineLimit <= FifoSize

\* How many arguments a format takes.
Takes(format) == FoldLeft(LAMBDA n, c : n + (IF c.ty = "literal" THEN 0 ELSE 1)
                                          + (IF c.star THEN 1 ELSE 0), 0, format)

VARIABLES booted,       \* the kernel has taken the port over
          text,         \* what a writer has still to send of its line
          free,         \* it has found the port free and not sent its byte yet
          logging_name, \* of the modules and the setup service
          port,         \* the bytes the port has not sent, each with its writer
          arrived,      \* the bytes of each writer at the other end
          logged        \* ghost: the lines each writer has begun

vars == <<booted, text, free, logging_name, port, arrived, logged>>
---------------------------------------------------------------------------
(* tostring.c and vsprintf. *)

AsInt(v)    == LET low == v % 2^Bits IN IF low >= 2^(Bits - 1) THEN low - 2^Bits ELSE low
Negate(v) == AsInt(-v)

\* The while loop, which stops at once for a value that is not positive.
uitoa(val, base) ==
    LET low[v \in AsInt(0) .. 2^(2 * Bits)] ==
            IF v = 0 THEN <<>> ELSE Append(low[v \div base], digits[(v % base) + 1])
    IN  IF val = 0 THEN <<"0">> ELSE IF val < 0 THEN <<>> ELSE low[val]

itoa(val, base) == IF val < 0 THEN <<"-">> \o uitoa(Negate(val), base) ELSE uitoa(val, base)

ulltoa(val, base) == uitoa(val, base)

StringAt(address) == IF address % 2 = 0 THEN <<>> ELSE <<"a", "b">>

Sharp(c)  == c.ty = "p" \/ "#" \in c.flags
Filled(c) == c.ty = "p" \/ "0" \in c.flags

Negative(c, arg) == c.ty = "d" /\ AsInt(arg) < 0

\* _buffer, and what %c and %s write before it; %x prints bits of its argument.
Buffer(c, arg, bits) ==
    CASE c.ty = "d"          -> itoa(IF AsInt(arg) < 0 THEN Negate(AsInt(arg)) ELSE AsInt(arg), DEC)
      [] c.ty = "u"          -> uitoa(arg % 2^Bits, DEC)
      [] c.ty \in {"x", "p"} -> ulltoa(arg % 2^bits, HEX)
      [] OTHER               -> <<>>

Direct(c, arg) == CASE c.ty = "c" -> <<digits[(arg % DEC) + 1]>>
                    [] c.ty = "s" -> StringAt(arg)
                    [] OTHER      -> <<>>

Sign(c, arg) == IF Negative(c, arg) THEN <<"-">> ELSE IF "+" \in c.flags THEN <<"+">> ELSE <<>>

Prefix(c) == IF Sharp(c) /\ c.ty \in {"x", "p"} THEN <<"0x">> ELSE <<>>

\* The prefix does not count for the width.
Fill(c, width, written) ==
    [i \in 1 .. width - written |-> IF Filled(c) THEN "0" ELSE " "]

Width(c, args) == IF c.star THEN LET w == AsInt(Head(args)) IN IF w < 0 THEN Negate(w) ELSE w
                  ELSE IF c.ty = "p" THEN PointerDigits ELSE c.width

\* One conversion: what it adds and the arguments it leaves.
Convert(st, c, bits) ==
    LET rest  == IF c.star THEN Tail(st.args) ELSE st.args
        arg   == Head(rest)
        front == Direct(c, arg) \o Sign(c, arg)
        body  == Buffer(c, arg, bits)
    IN  [args |-> Tail(rest),
         out  |-> st.out \o front \o Prefix(c)
                     \o Fill(c, Width(c, st.args), Len(body) + Len(front)) \o body]

\* The loop over the format.
Formatted(format, args, bits) ==
    FoldLeft(LAMBDA st, c : IF c.ty = "literal" THEN [st EXCEPT !.out = @ \o SetToSeq(c.flags)]
                            ELSE Convert(st, c, bits),
             [args |-> args, out |-> <<>>], format).out

\* The copies for the kernel, for modules and for setup, and that of the loader,
\* where %x takes an int.
vsprintk(format, args)        == Formatted(format, args, 2 * Bits)
vsprintf(format, args)        == Formatted(format, args, 2 * Bits)
setup_vsprintf(format, args)  == Formatted(format, args, 2 * Bits)
loader_vsprintf(format, args) == Formatted(format, args, Bits)
---------------------------------------------------------------------------
(* logging.c. *)

\* Mutant of Depth: the FIFO stays off.
DepthOff == 1

\* init_serial writes 0xC7 to the port's FIFO register: it is on and empty.
Depth == FifoSize

\* When the loader has called init_serial.
Init == /\ booted = FALSE
        /\ text = [w \in AllWriters |-> <<>>]
        /\ free = [w \in AllWriters |-> FALSE]
        /\ logging_name = [w \in ModuleWriters \cup SetupWriters |-> "KMod Init"]
        /\ port = <<>>
        /\ arrived = [w \in AllWriters |-> <<>>]
        /\ logged = [w \in AllWriters |-> <<>>]

InitSerial == /\ ~booted /\ text[Loader] = <<>> /\ logged[Loader] # <<>>
              /\ booted' = TRUE
              /\ port' = <<>>
              /\ UNCHANGED <<text, free, logging_name, arrived, logged>>

\* The lines so far, that of the loader not counted, which says one.
LinesLogged == FoldFunction(+, 0, [w \in AtOnce |-> Len(logged[w])])

\* __log: the name, the type, the message and the end of the line.
Line(name, message) == <<name, "INFO">> \o message \o <<"\n">>

\* Each calls the copy it is linked with.
Message(w, format, args) == CASE w \in KernelWriters -> vsprintk(format, args)
                              [] w \in ModuleWriters -> vsprintf(format, args)
                              [] w \in SetupWriters  -> setup_vsprintf(format, args)
                              [] OTHER               -> loader_vsprintf(format, args)

\* A line is begun: the message is in the writer's buffer, then it is sent.
Begin(w, name) ==
    /\ text[w] = <<>>
    /\ IF w = Loader THEN logged[w] = <<>> ELSE LinesLogged < LineLimit
    /\ \E format \in Formats[w] : \E args \in [1 .. Takes(format) -> Slots[w]] :
          /\ text' = [text EXCEPT ![w] = Line(name, Message(w, format, args))]
          /\ logged' = [logged EXCEPT ![w] = Append(@, [name |-> name, format |-> format, args |-> args])]
    /\ UNCHANGED <<booted, free, logging_name, port, arrived>>

KernelLogs(w) == booted /\ Begin(w, "Kernel")

ModuleLogs(w) == booted /\ Begin(w, logging_name[w])

SetupLogs(w) == booted /\ Begin(w, logging_name[w])

\* The loader prints into a buffer before it logs that.
LoaderLogs == ~booted /\ Begin(Loader, "Loader")

\* set_logging_name in kmod_main, after the lines of the start.
SetLoggingName(w) == /\ booted /\ text[w] = <<>> /\ logging_name[w] = "KMod Init"
                     /\ logging_name' = [logging_name EXCEPT ![w] = "own"]
                     /\ UNCHANGED <<booted, text, free, port, arrived, logged>>

\* write_serial_char: the port says that it has sent all it had.
FindFree(w) == /\ text[w] # <<>> /\ ~free[w]
               /\ port = <<>>
               /\ free' = [free EXCEPT ![w] = TRUE]
               /\ UNCHANGED <<booted, text, logging_name, port, arrived, logged>>

\* It gets the byte, or loses it when it is full.
SendByte(w) ==
    /\ free[w]
    /\ port' = IF Len(port) < Depth THEN Append(port, [by |-> w, byte |-> Head(text[w])]) ELSE port
    /\ text' = [text EXCEPT ![w] = Tail(@)]
    /\ free' = [free EXCEPT ![w] = FALSE]
    /\ UNCHANGED <<booted, logging_name, arrived, logged>>

\* The port sends a byte over the line.
Transmit == /\ port # <<>>
            /\ arrived' = [arrived EXCEPT ![Head(port).by] = Append(@, Head(port).byte)]
            /\ port' = Tail(port)
            /\ UNCHANGED <<booted, text, free, logging_name, logged>>

Next == \/ InitSerial \/ LoaderLogs \/ Transmit
        \/ \E w \in KernelWriters : KernelLogs(w)
        \/ \E w \in ModuleWriters : ModuleLogs(w) \/ SetLoggingName(w)
        \/ \E w \in SetupWriters : SetupLogs(w) \/ SetLoggingName(w)
        \/ \E w \in AllWriters : FindFree(w) \/ SendByte(w)

Spec == Init /\ [][Next]_vars
---------------------------------------------------------------------------
OutputTypeOK == /\ booted \in BOOLEAN
                /\ DOMAIN text = AllWriters /\ DOMAIN arrived = AllWriters /\ DOMAIN logged = AllWriters
                /\ free \in [AllWriters -> BOOLEAN]
                /\ Len(port) <= FifoSize

\* The reference: a numeral is the shortest one with the value, by the weight of
\* its places.
Places(v, base)  == CHOOSE n \in 1 .. 2 * Bits + 1 : base^n > v /\ (n = 1 \/ base^(n - 1) <= v)
Numeral(v, base) == LET n == Places(v, base)
                    IN  [i \in 1 .. n |-> digits[((v \div base^(n - i)) % base) + 1]]

\* At least so many digits, the sign being one of them.
Digits(n, count) == [i \in 1 .. count - Len(n) |-> "0"] \o n

Absolute(v) == IF v < 0 THEN -v ELSE v

\* What an argument looks like, for its width and the bits of the writer's %x.
Shown(c, width, arg, bits) ==
    CASE c.ty = "d" -> (IF AsInt(arg) < 0 THEN <<"-">> ELSE IF "+" \in c.flags THEN <<"+">> ELSE <<>>)
                       \o Digits(Numeral(Absolute(AsInt(arg)), DEC),
                                 width - IF AsInt(arg) < 0 \/ "+" \in c.flags THEN 1 ELSE 0)
      [] c.ty = "u" -> Digits(Numeral(arg % 2^Bits, DEC), width)
      [] c.ty = "x" -> (IF "#" \in c.flags THEN <<"0x">> ELSE <<>>)
                       \o Digits(Numeral(arg % 2^bits, HEX), width)
      [] c.ty = "p" -> <<"0x">> \o Digits(Numeral(arg, HEX), PointerDigits)
      [] c.ty = "s" -> StringAt(arg)
      [] c.ty = "c" -> <<digits[(arg % DEC) + 1]>>

\* Where the arguments of the i-th part of a format begin.
Mine(format, i) == 1 + Takes(SubSeq(format, 1, i - 1))

Says(line, bits) ==
    LET Part(i) == LET c == line.format[i]
                       at == Mine(line.format, i)
                   IN  IF c.ty = "literal" THEN SetToSeq(c.flags)
                       ELSE IF c.star THEN Shown(c, Absolute(AsInt(line.args[at])), line.args[at + 1], bits)
                       ELSE Shown(c, c.width, line.args[at], bits)
    IN  <<line.name, "INFO">> \o FlattenSeq([i \in DOMAIN line.format |-> Part(i)]) \o <<"\n">>

Said(w) == FlattenSeq([n \in DOMAIN logged[w] |->
                           Says(logged[w][n], IF w = Loader THEN Bits ELSE 2 * Bits)])

InPort(w) == LET mine == SelectSeq(port, LAMBDA b : b.by = w)
             IN  [i \in DOMAIN mine |-> mine[i].byte]

\* Whatever the writers do to each other between the test of the port and the
\* byte, no byte of a line is lost or out of its place in the writer's lines,
\* and each conversion has printed the argument that is its own; of the loader
\* the last bytes may be lost, when the kernel takes the port over.
\* (write_serial_char, __log, vsprintk, init_serial)
LoggedIsSent ==
    /\ \A w \in AtOnce : arrived[w] \o InPort(w) \o text[w] = Said(w)
    /\ IF booted THEN IsPrefix(arrived[Loader], Said(Loader))
       ELSE arrived[Loader] \o InPort(Loader) \o text[Loader] = Said(Loader)
=============================================================================
