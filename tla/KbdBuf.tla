------------------------------- MODULE KbdBuf -------------------------------
(***************************************************************************)
(* kbd_buf.c: the ring buffer between the keyboard interrupt and SYS_read. *)
(***************************************************************************)
EXTENDS Naturals, Sequences

CONSTANTS
  Chars,     \* characters the keyboard can type
  BUF_SIZE

ASSUME KbdAssumption == BUF_SIZE \in Nat \ {0}

VARIABLES
  buf,   \* buf[BUF_SIZE]
  head,  \* next slot to write
  tail,  \* next slot to read
  got    \* history: the character kbd_buf_get last returned

kbdVars == <<buf, head, tail, got>>

Slot == 0..(BUF_SIZE - 1)
NoChar == "none"

KbdInit ==
  /\ buf = [i \in Slot |-> NoChar]
  /\ head = 0
  /\ tail = 0
  /\ got = NoChar

\* Mutant: the full buffer is not noticed.
kbd_buf_put_Overruns(c) ==
  /\ buf' = [buf EXCEPT ![head] = c]
  /\ head' = (head + 1) % BUF_SIZE
  /\ UNCHANGED <<tail, got>>

\* A character that does not fit is dropped.
kbd_buf_put(c) ==
  LET next == (head + 1) % BUF_SIZE
  IN  /\ IF next # tail
         THEN buf' = [buf EXCEPT ![head] = c] /\ head' = next
         ELSE UNCHANGED <<buf, head>>
      /\ UNCHANGED <<tail, got>>

\* One turn of the loop of kbd_buf_get that finds a character.
kbd_buf_get ==
  /\ tail # head
  /\ got' = buf[tail]
  /\ tail' = (tail + 1) % BUF_SIZE
  /\ UNCHANGED <<buf, head>>

KbdNext == kbd_buf_get \/ \E c \in Chars : kbd_buf_put(c)

KbdSpec == KbdInit /\ [][KbdNext]_kbdVars

-----------------------------------------------------------------------------

\* head and tail stay inside buf.
KbdTypeOK ==
  /\ buf \in [Slot -> Chars \cup {NoChar}]
  /\ head \in Slot
  /\ tail \in Slot
  /\ got \in Chars \cup {NoChar}

\* The characters between tail and head, around the end of the buffer.
Count == (head + BUF_SIZE - tail) % BUF_SIZE
Buffered == [i \in 1..Count |-> buf[(tail + i - 1) % BUF_SIZE]]

Fifo == INSTANCE CharQueue WITH chars <- Buffered, Capacity <- BUF_SIZE - 1

\* The ring buffer is a queue of BUF_SIZE - 1 characters: what is typed is
\* read once, in order, and a full buffer loses only the new character.
ImplementsFifo == Fifo!CQSpec
=============================================================================
