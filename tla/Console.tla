------------------------------- MODULE Console -------------------------------
(***************************************************************************)
(* console.c: text on the framebuffer of the boot loader.  The pixel p of  *)
(* the glyph of c is <<c, p>>, black where c is a space; the other glyphs  *)
(* are taken to differ everywhere.                                         *)
(***************************************************************************)
EXTENDS Integers, SequencesExt, TLC

CONSTANTS
  FONT_WIDTH, FONT_HEIGHT,
  Printable,     \* the characters 32 to 126
  Framebuffers   \* sizes [width, height, pitch] the boot loader may offer, the
                 \* pitch in pixels; NoFramebuffer when it offers none

NoFramebuffer == [width |-> 0, height |-> 0, pitch |-> 0]

ASSUME ConsoleAssumption ==
  /\ FONT_WIDTH \in Nat \ {0}
  /\ FONT_HEIGHT \in Nat \ {0}
  /\ {" ", "?"} \subseteq Printable
  /\ Printable \cap {"NL", "CR", "TAB", "BS"} = {}
  /\ \A f \in Framebuffers \ {NoFramebuffer} :
       f.width >= FONT_WIDTH /\ f.height >= FONT_HEIGHT /\ f.pitch >= f.width

VARIABLES
  fb,   \* fb_width, fb_height and fb_pixels_per_line
  con   \* [mem, x, y]: the pixels at fb_addr, cursor_x and cursor_y

consoleVars == <<fb, con>>

Black == <<" ", <<0, 0>>>>
Junk == <<"junk", <<0, 0>>>>  \* what the boot loader left
Glyph(c, p) == IF c = " " THEN Black ELSE <<c, p>>
Size == fb.pitch * fb.height

\* Before console_init; without a framebuffer it is not called, and everything is 0.
ConsoleInit ==
  /\ fb \in Framebuffers
  /\ con = [mem |-> [i \in 0..(Size - 1) |-> Junk], x |-> 0, y |-> 0]

-----------------------------------------------------------------------------

\* Where the pixel at (px, py) is.
At(px, py) == py * fb.pitch + px

\* Pixels outside the screen are skipped.
draw_char(s, c) ==
  LET d  == IF c \in Printable THEN c ELSE "?"
      px == s.x * FONT_WIDTH
      py == s.y * FONT_HEIGHT
      drawn == {p \in (0..(FONT_WIDTH - 1)) \X (0..(FONT_HEIGHT - 1)) :
                  px + p[1] < fb.width /\ py + p[2] < fb.height}
      pixel(i) == CHOOSE p \in drawn : At(px + p[1], py + p[2]) = i
      cell == {At(px + p[1], py + p[2]) : p \in drawn}
  IN  [s EXCEPT !.mem = [i \in cell |-> Glyph(d, pixel(i))] @@ @]

\* Mutant: the last row is not cleared.
scroll_KeepsLast(s) ==
  LET total == At(0, fb.height - FONT_HEIGHT)
  IN  [s EXCEPT !.mem = [i \in 0..(total - 1) |-> @[i + At(0, FONT_HEIGHT)]] @@ @]

\* Move all scan lines up by FONT_HEIGHT and clear as many at the bottom.
scroll(s) ==
  LET total == At(0, fb.height - FONT_HEIGHT)
  IN  [s EXCEPT !.mem = [i \in 0..(total - 1) |-> @[i + At(0, FONT_HEIGHT)]]
                          @@ [i \in total..(Size - 1) |-> Black]]

\* The check after cursor_y++, in advance_cursor and console_putc.
Fit(s) ==
  IF s.y * FONT_HEIGHT + FONT_HEIGHT > fb.height THEN scroll([s EXCEPT !.y = @ - 1]) ELSE s

advance_cursor(s) ==
  LET t == [s EXCEPT !.x = @ + 1]
  IN  Fit(IF t.x * FONT_WIDTH + FONT_WIDTH > fb.width THEN [t EXCEPT !.x = 0, !.y = @ + 1] ELSE t)

Printed(s, c) == advance_cursor(draw_char(s, c))

Backspaced(s) ==
  draw_char(IF s.x > 0 THEN [s EXCEPT !.x = @ - 1]
            ELSE IF s.y > 0 THEN [s EXCEPT !.x = fb.width \div FONT_WIDTH - 1, !.y = @ - 1]
            ELSE s, " ")

\* All characters but the tab, which is four spaces.
console_putc(s, c) ==
  CASE c = "NL" -> Fit([s EXCEPT !.x = 0, !.y = @ + 1])
    [] c = "CR" -> [s EXCEPT !.x = 0]
    [] c = "BS" -> Backspaced(s)
    [] OTHER -> Printed(s, c)

\* Two pixels at a time.
console_clear(s) ==
  [mem |-> [i \in 0..(2 * (Size \div 2) - 1) |-> Black] @@ s.mem,
   x |-> 0, y |-> 0]

-----------------------------------------------------------------------------

Columns == fb.width \div FONT_WIDTH
Rows == fb.height \div FONT_HEIGHT

\* What the screen shows at a line and a column: the character whose glyph is there.
Cell(line, column) ==
  LET Shows(c) == \A p \in (0..(FONT_WIDTH - 1)) \X (0..(FONT_HEIGHT - 1)) :
        con.mem[At(column * FONT_WIDTH + p[1], line * FONT_HEIGHT + p[2])] = Glyph(c, p)
  IN  IF \E c \in Printable : Shows(c) THEN CHOOSE c \in Printable : Shows(c) ELSE "garbled"

Lines == [i \in 1..Rows |-> [j \in 1..Columns |-> Cell(i - 1, j - 1)]]

Term == INSTANCE Terminal WITH
  cols <- Columns, rows <- Rows, lines <- Lines, x <- con.x, y <- con.y
=============================================================================
