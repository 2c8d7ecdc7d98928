------------------------------- MODULE Serial --------------------------------
(***************************************************************************)
(* serial.c and, as an external device, the UART it programs: the divisor  *)
(* latch, which takes the place of the first two registers while DLAB is   *)
(* set, the transmitter, and the modem control register.                   *)
(***************************************************************************)
EXTENDS Naturals, SequencesExt

VARIABLES
  uart,  \* [dlab, divisor, ier, mcr, thr]; thr is the byte being sent
  wire,  \* history: the bytes handed to the transmitter in this call
  lost   \* history: a byte was overwritten before it was sent

serialVars == <<uart, wire, lost>>

Empty == "empty"

SerialInit ==
  /\ uart = [dlab |-> FALSE, divisor |-> <<12, 0>>, ier |-> 0, mcr |-> 0, thr |-> Empty]
  /\ wire = <<>>
  /\ lost = FALSE

\* outb(COM1 + reg, val) to the registers that serial_init programs.
Outb(u, reg, val) ==
  CASE reg = 0 /\ u.dlab -> [u EXCEPT !.divisor[1] = val]
    [] reg = 1 /\ u.dlab -> [u EXCEPT !.divisor[2] = val]
    [] reg = 1 /\ ~u.dlab -> [u EXCEPT !.ier = val]
    [] reg = 3 -> [u EXCEPT !.dlab = (val >= 128)]
    [] reg = 4 -> [u EXCEPT !.mcr = val]
    [] OTHER -> u

\* outb(COM1, byte): a byte for the transmitter, or for the divisor while DLAB is
\* set (which byte does not matter there).
OutData(byte) ==
  IF uart.dlab
  THEN /\ uart' = [uart EXCEPT !.divisor[1] = 0]
       /\ UNCHANGED <<wire, lost>>
  ELSE /\ uart' = [uart EXCEPT !.thr = byte]
       /\ wire' = Append(wire, byte)
       /\ lost' = (lost \/ uart.thr # Empty)

\* The transmitter has sent its byte.
Transmit ==
  /\ uart.thr # Empty
  /\ uart' = [uart EXCEPT !.thr = Empty]
  /\ UNCHANGED <<wire, lost>>

\* Mutant: DLAB stays set.
Programming_KeepsDlab ==
  << <<1, 0>>, <<3, 128>>, <<0, 1>>, <<1, 0>>, <<2, 199>>, <<4, 11>> >>

\* What serial_init writes, register and value, before it tests the chip.
Programming ==
  << <<1, 0>>, <<3, 128>>, <<0, 1>>, <<1, 0>>, <<3, 3>>, <<2, 199>>, <<4, 11>> >>

\* A chip that fails the test of its scratch register does not get the last write.
serial_init ==
  LET write(u, w) == Outb(u, w[1], w[2])
      u == FoldLeft(write, uart, Programming)
  IN  /\ uart' = u \/ uart' = Outb(u, 4, 15)
      /\ UNCHANGED <<wire, lost>>

serial_tx_empty == uart.thr = Empty
=============================================================================
