------------------------------- MODULE Output --------------------------------
(***************************************************************************)
(* The kernel's output: serial.c, console.c and the callers that drive     *)
(* them: _start, which writes to the one or the other, and do_write of     *)
(* SYS_write, which writes every character to both.  The kernel spins      *)
(* while the transmitter is busy.                                          *)
(***************************************************************************)
EXTENDS Serial, Console, Printf

CONSTANTS
  Texts,    \* strings that are written
  Formats   \* calls of printf: format and arguments

VARIABLES
  booted,  \* how far _start has come: "no", "serial", "console"
  sinks,   \* where the characters of this call go
  todo,    \* the characters of this call that are still to be written
  done,    \* history: those that have been written
  spaces,  \* spaces of a tab that console_putc is still to print
  cr       \* serial_putc has sent the carriage return before a newline

callVars == <<booted, sinks, todo, done, spaces, cr>>
outVars == <<serialVars, consoleVars, callVars>>

OutInit ==
  /\ SerialInit
  /\ ConsoleInit
  /\ booted = "no"
  /\ sinks = {}
  /\ todo = <<>>
  /\ done = <<>>
  /\ spaces = 0
  /\ cr = FALSE

-----------------------------------------------------------------------------

\* _start: serial_init, and console_init if there is a framebuffer.
BootSerial ==
  /\ booted = "no"
  /\ serial_init
  /\ booted' = "serial"
  /\ UNCHANGED <<consoleVars, sinks, todo, done, spaces, cr>>

console_init ==
  /\ booted = "serial" /\ todo = <<>>
  /\ con' = IF fb = NoFramebuffer THEN con ELSE console_clear(con)
  /\ booted' = "console"
  /\ UNCHANGED <<serialVars, fb, sinks, todo, done, spaces, cr>>

\* A call that writes a string.
Call(str, to) ==
  /\ todo = <<>> /\ spaces = 0
  /\ todo' = str
  /\ sinks' = to
  /\ done' = <<>>
  /\ wire' = <<>>
  /\ UNCHANGED <<uart, lost, consoleVars, booted, spaces, cr>>

serial_write(str) == booted # "no" /\ Call(str, {"serial"})
serial_printf(f) == booted # "no" /\ Call(Formatted(f[1], f[2]), {"serial"})
console_write(str) ==
  booted = "console" /\ fb # NoFramebuffer /\ Call(str, {"console"})
console_printf(f) ==
  booted = "console" /\ fb # NoFramebuffer /\ Call(Formatted(f[1], f[2]), {"console"})
do_write(str) == booted = "console" /\ Call(str, {"serial", "console"})

\* serial_putc: a newline is preceded by a carriage return.
CarriageReturn ==
  /\ todo # <<>> /\ spaces = 0 /\ "serial" \in sinks
  /\ Head(todo) = "NL" /\ ~cr
  /\ serial_tx_empty
  /\ OutData("CR")
  /\ cr' = TRUE
  /\ UNCHANGED <<consoleVars, booted, sinks, todo, done, spaces>>

\* The character itself, on the serial line, on the console, or on both.
Putc ==
  /\ todo # <<>> /\ spaces = 0
  /\ IF "serial" \in sinks
     THEN /\ Head(todo) = "NL" => cr
          /\ serial_tx_empty
          /\ OutData(Head(todo))
     ELSE UNCHANGED serialVars
  /\ CASE "console" \notin sinks -> UNCHANGED <<con, spaces>>
       [] "console" \in sinks /\ Head(todo) = "TAB" -> spaces' = 4 /\ UNCHANGED con
       [] OTHER -> con' = console_putc(con, Head(todo)) /\ UNCHANGED spaces
  /\ todo' = Tail(todo)
  /\ done' = Append(done, Head(todo))
  /\ cr' = FALSE
  /\ UNCHANGED <<fb, booted, sinks>>

\* Mutant: the turns are not counted.
TabSpace_Uncounted ==
  /\ spaces > 0
  /\ con' = console_putc(con, " ")
  /\ UNCHANGED <<serialVars, fb, booted, sinks, todo, done, spaces, cr>>

\* One turn of the loop that prints a tab.
TabSpace ==
  /\ spaces > 0
  /\ con' = console_putc(con, " ")
  /\ spaces' = spaces - 1
  /\ UNCHANGED <<serialVars, fb, booted, sinks, todo, done, cr>>

TransmitStep == Transmit /\ UNCHANGED <<consoleVars, callVars>>

OutNext ==
  \/ BootSerial
  \/ console_init
  \/ \E str \in Texts : serial_write(str) \/ console_write(str) \/ do_write(str)
  \/ \E f \in Formats : serial_printf(f) \/ console_printf(f)
  \/ CarriageReturn
  \/ Putc
  \/ TabSpace
  \/ TransmitStep

\* The kernel runs on, and the UART sends what it is given.
OutSpec ==
  /\ OutInit /\ [][OutNext]_outVars
  /\ WF_outVars(CarriageReturn \/ Putc \/ TabSpace)
  /\ WF_outVars(TransmitStep)

-----------------------------------------------------------------------------

\* The numbers that printf prints read back as themselves: %d for every int64_t but
\* the most negative, %x for every uint64_t.  (Stated of the initial states; no
\* step has a part in it.)
NumbersReadable ==
  booted = "no" => /\ \A n \in Int64 \ {-(2^(BITS - 1))} : DecReadable(n)
                   /\ \A n \in Uint64 : HexReadable(n)

\* What serial_putc makes of a string.
OnWire(str) == FlattenSeq([i \in 1..Len(str) |->
                 IF str[i] = "NL" THEN <<"CR", "NL">> ELSE <<str[i]>>])

\* Every character written to the serial line is sent, in order, none before the
\* one ahead of it has left the transmitter, and none into the divisor latch, which
\* stays as serial_init set it.
SerialExact ==
  booted # "no" =>
    /\ ~lost
    /\ uart.divisor = <<1, 0>> /\ uart.ier = 0
    /\ "serial" \in sinks => wire = OnWire(done) \o (IF cr THEN <<"CR">> ELSE <<>>)

Written == Len(done') > Len(done)

\* The pixels show what a terminal shows that gets the same characters, on every size of
\* framebuffer and on none; only characters and console_init change them.
ShowsTerminal ==
  [][IF fb = NoFramebuffer THEN UNCHANGED Term!termVars
     ELSE CASE booted' # booted /\ booted' = "console" -> Term!TermClear
            [] spaces' < spaces -> Term!TermPutc(" ")
            [] Written /\ "console" \in sinks /\ Head(todo) # "TAB" -> Term!TermPutc(Head(todo))
            [] OTHER -> UNCHANGED Term!termVars]_outVars

\* Every call that writes comes to its end.
WriteReturns == (todo # <<>>) ~> (todo = <<>> /\ spaces = 0)
=============================================================================
