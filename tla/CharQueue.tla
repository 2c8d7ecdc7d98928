------------------------------ MODULE CharQueue ------------------------------
(***************************************************************************)
(* What kbd_buf.c promises: a first-in first-out queue of characters that  *)
(* drops what does not fit.                                                *)
(***************************************************************************)
EXTENDS Naturals, Sequences

CONSTANTS Chars, Capacity

VARIABLES
  chars,  \* the characters typed and not yet read
  got     \* the last character read

NoChar == "none"

CQInit == chars = <<>> /\ got = NoChar

PutChar(c) ==
  /\ Len(chars) < Capacity
  /\ chars' = Append(chars, c)
  /\ UNCHANGED got

GetChar ==
  /\ chars # <<>>
  /\ got' = Head(chars)
  /\ chars' = Tail(chars)

CQNext == GetChar \/ \E c \in Chars : PutChar(c)

CQSpec == CQInit /\ [][CQNext]_<<chars, got>>
=============================================================================
