------------------------------- MODULE Printf --------------------------------
(***************************************************************************)
(* The conversions of serial_printf and console_printf, which are the same *)
(* code twice.  A string is the sequence of its characters.                *)
(***************************************************************************)
EXTENDS Integers, Sequences, SequencesExt

CONSTANT BITS  \* width of a number (64)

ASSUME BitsAssumption == BITS \in Nat \ {0}

Int64 == -(2^(BITS - 1))..(2^(BITS - 1) - 1)
Uint64 == 0..(2^BITS - 1)

Digits == <<"0", "1", "2", "3", "4", "5", "6", "7", "8", "9", "A", "B", "C", "D", "E", "F">>

\* -num of an int64_t: the most negative number has no opposite.
Negated(num) == IF num = -(2^(BITS - 1)) THEN num ELSE -num

\* The loops that fill buf[] from its end; buf has room for the digits of any
\* number and the sign.
DecLoop[num \in Int] ==
  IF num > 0 THEN Append(DecLoop[num \div 10], Digits[(num % 10) + 1]) ELSE <<>>
HexLoop[num \in Nat] ==
  IF num > 0 THEN Append(HexLoop[num \div 16], Digits[(num % 16) + 1]) ELSE <<>>

\* Mutant: the sign is lost.
print_dec_NoSign(num) ==
  IF num = 0 THEN <<"0">> ELSE DecLoop[IF num < 0 THEN Negated(num) ELSE num]

print_dec(num) ==
  IF num = 0 THEN <<"0">>
  ELSE IF num < 0 THEN <<"-">> \o DecLoop[Negated(num)]
  ELSE DecLoop[num]

print_hex(num) == IF num = 0 THEN <<"0">> ELSE HexLoop[num]

\* One argument of printf: a string, a number or a character.
Converted(spec, arg) ==
  CASE spec = "s" -> arg
    [] spec = "x" -> <<"0", "x">> \o print_hex(arg)
    [] spec = "d" -> print_dec(arg)
    [] spec = "c" -> <<arg>>
    [] spec = "%" -> <<"%">>
    [] OTHER -> <<"%", spec>>

\* The loop over fmt.  Every format string of the kernel has a character after
\* each "%"; at the end of a string the code would read on behind it.
Formatted(fmt, args) ==
  LET step(s, c) ==
        IF s.escape
        THEN [out |-> s.out \o Converted(c, IF s.args = <<>> THEN 0 ELSE Head(s.args)),
              escape |-> FALSE,
              args |-> IF c \in {"s", "x", "d", "c"} THEN Tail(s.args) ELSE s.args]
        ELSE IF c = "%" THEN [s EXCEPT !.escape = TRUE]
        ELSE [s EXCEPT !.out = Append(@, c)]
  IN  FoldLeft(step, [out |-> <<>>, escape |-> FALSE, args |-> args], fmt).out

-----------------------------------------------------------------------------

\* The number a string of digits stands for.
Value(digits, base) ==
  LET digit(d) == (CHOOSE i \in 1..16 : Digits[i] = d) - 1
      next(n, d) == n * base + digit(d)
  IN  FoldLeft(next, 0, digits)

\* Printed numbers read back as the number, with no superfluous digit.
Readable(digits, base, n) ==
  /\ Value(digits, base) = n
  /\ Len(digits) > 1 => Head(digits) # "0"
DecReadable(n) ==
  LET text == print_dec(n)
  IN  IF n < 0 THEN Head(text) = "-" /\ Readable(Tail(text), 10, -n)
               ELSE Readable(text, 10, n)
HexReadable(n) == Readable(print_hex(n), 16, n)
=============================================================================
