------------------------------ MODULE Terminal -------------------------------
(***************************************************************************)
(* What console.c promises: a screen of lines of characters with a cursor, *)
(* which wraps at the end of a line and scrolls at the end of the last.    *)
(***************************************************************************)
EXTENDS Naturals, Sequences

CONSTANT Printable  \* the characters that have a glyph, "?" and " " among them

VARIABLES
  cols, rows,  \* the size of the screen; 0 without a framebuffer
  lines,       \* rows sequences of cols characters
  x, y         \* the cursor

termVars == <<cols, rows, lines, x, y>>

Blank == [i \in 1..cols |-> " "]
Screen == [lines |-> lines, x |-> x, y |-> y]

TermInit ==
  /\ lines = [i \in 1..rows |-> Blank]
  /\ x = 0
  /\ y = 0

\* The start of the next line; at the last one all lines move up.
Down(s) ==
  IF s.y + 1 < rows
  THEN [s EXCEPT !.x = 0, !.y = @ + 1]
  ELSE [s EXCEPT !.x = 0, !.lines = Append(Tail(@), Blank)]

Put(s, c) ==
  LET t == [s EXCEPT !.lines[s.y + 1][s.x + 1] = c]
  IN  IF t.x + 1 < cols THEN [t EXCEPT !.x = @ + 1] ELSE Down(t)

\* One character to the left, or the last of the line above.
Left(s) ==
  IF s.x > 0 THEN [s EXCEPT !.x = @ - 1]
  ELSE IF s.y > 0 THEN [s EXCEPT !.x = cols - 1, !.y = @ - 1]
  ELSE s

Erase(s) == [s EXCEPT !.lines[s.y + 1][s.x + 1] = " "]

Show(s, c) ==
  CASE c = "NL" -> Down(s)
    [] c = "CR" -> [s EXCEPT !.x = 0]
    [] c = "BS" -> Erase(Left(s))
    [] c \in Printable -> Put(s, c)
    [] OTHER -> Put(s, "?")

TermPutc(c) ==
  /\ cols > 0 /\ rows > 0
  /\ LET s == Show(Screen, c)
     IN  lines' = s.lines /\ x' = s.x /\ y' = s.y
  /\ UNCHANGED <<cols, rows>>

\* Clearing the screen leaves it as at the start.
TermClear == TermInit' /\ UNCHANGED <<cols, rows>>
=============================================================================
