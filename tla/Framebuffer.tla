---------------------------- MODULE Framebuffer -----------------------------
(***************************************************************************)
(* The text screen of src/src/framebuffer.c: a grid of cells and the       *)
(* cursor of the VGA hardware.  User programs reach it through three       *)
(* system calls only: 5 (putchar), 6 (puts) and 10 (framebuffer_clear).    *)
(* puts() is one putchar() after the other, so it needs no action of its   *)
(* own, and a NUL that is put changes nothing.  The colour bytes that go   *)
(* with the cells are left out: no test in the code looks at them.         *)
(*                                                                         *)
(* The hardware keeps row * VGA_WIDTH + col; every cursor the code sets    *)
(* has col < VGA_WIDTH, so the two numbers come back as they were set.     *)
(***************************************************************************)
EXTENDS Integers, Sequences, FiniteSets

CONSTANTS
  Width,      \* VGA_WIDTH  (80)
  Height,     \* VGA_HEIGHT (25)
  Glyphs      \* the characters other than NUL, '\n' and '\b'

NUL     == "NUL"
Newline == "newline"

(* Rows and columns are passed as uint8_t.                                 *)
ASSUME ScreenAssumption ==
  /\ Width \in 1 .. 255
  /\ Height \in 1 .. 255
  /\ NUL \notin Glyphs /\ Newline \notin Glyphs

VARIABLES
  cell,       \* the character of each cell of FRAMEBUFFER_MEMORY_OFFSET
  row, col    \* the cursor

screen == <<cell, row, col>>

Rows  == 0 .. Height - 1
Cols  == 0 .. Width - 1
Chars == Glyphs \cup {NUL, Newline}
Blanks == [p \in Rows \X Cols |-> NUL]

(* What row_now, a uint16_t, becomes when it is counted down past 0.       *)
OffScreen == 65535

(* kernel_setup() clears the screen before anything is shown.              *)
Init ==
  /\ cell = Blanks
  /\ row = 0
  /\ col = 0

(* framebuffer_clear()                                                     *)
Clear ==
  /\ cell' = Blanks
  /\ row' = 0
  /\ col' = 0

(* framebuffer_write() of the character alone.                             *)
Write(f, r, c, ch) == [f EXCEPT ![<<r, c>>] = ch]

(* Mutated form: the last row is copied up and left as it is.              *)
ShiftUpUncleared(f) ==
  [p \in Rows \X Cols |->
     IF p[1] < Height - 1 THEN f[<<p[1] + 1, p[2]>>] ELSE f[p]]

(* shift_up()                                                              *)
ShiftUp(f) ==
  [p \in Rows \X Cols |->
     IF p[1] < Height - 1 THEN f[<<p[1] + 1, p[2]>>] ELSE NUL]

(* Mutated form: the screen scrolls one row too late.                      *)
PlaceLate(f, r, c) ==
  /\ \/ /\ r + c \div Width = Height + 1
        /\ cell' = ShiftUp(f)
        /\ row' = Height - 1
     \/ /\ r + c \div Width # Height + 1
        /\ cell' = f
        /\ row' = r + c \div Width
  /\ col' = c % Width

(* The end of putchar(): a column past the last one moves to the next row, *)
(* a row past the last one scrolls the screen.                             *)
Place(f, r, c) ==
  /\ \/ /\ r + c \div Width = Height
        /\ cell' = ShiftUp(f)
        /\ row' = Height - 1
     \/ /\ r + c \div Width # Height
        /\ cell' = f
        /\ row' = r + c \div Width
  /\ col' = c % Width

(* The cells before the cursor's row that hold a character.  At the start  *)
(* of a row '\b' scans backwards, from the end of the row above, for one of *)
(* them; without any it leaves the screen, and what it finds there is not  *)
(* modelled.                                                               *)
Before == {p \in (0 .. row - 1) \X Cols : cell[p] # NUL}

Sooner(p, q) == p[1] > q[1] \/ (p[1] = q[1] /\ p[2] >= q[2])

Scan == IF Before = {} THEN <<OffScreen, Width - 1>>
        ELSE CHOOSE p \in Before : \A q \in Before : Sooner(p, q)

PutGlyph(ch) == Place(Write(cell, row, col, ch), row, col + 1)

(* Mutated form: '\n' only moves the cursor and leaves no mark.            *)
PutNewlineUnmarked == Place(cell, row + 1, 0)

PutNewline == Place(Write(cell, row, col, Newline), row + 1, 0)

(* Mutated form: the cursor moves back without erasing.                    *)
BackspaceKeeping ==
  /\ col > 0
  /\ Place(cell, row, col - 1)

(* '\b' inside a row, ...                                                  *)
Backspace ==
  /\ col > 0
  /\ Place(Write(cell, row, col - 1, NUL), row, col - 1)

(* ... and at the start of one: it erases the cell where the scan ends.    *)
BackspaceRow ==
  /\ col = 0
  /\ row > 0
  /\ Place(Write(cell, Scan[1], Scan[2], NUL), Scan[1], Scan[2])

(* At the very first cell there is nothing to take back.                   *)
BackspaceNothing ==
  /\ col = 0
  /\ row = 0
  /\ Place(cell, row, col)

Next ==
  /\ row # OffScreen
  /\ \/ Clear
     \/ \E ch \in Glyphs : PutGlyph(ch)
     \/ PutNewline
     \/ Backspace
     \/ BackspaceRow
     \/ BackspaceNothing

Spec == Init /\ [][Next]_screen

-----------------------------------------------------------------------------
(* The screen and the cursor have their types; the cursor stays in the     *)
(* grid unless a scan has left it.                                         *)
TypeOK ==
  /\ cell \in [Rows \X Cols -> Chars]
  /\ row \in Rows \cup {OffScreen}
  /\ col \in Cols

(* The scan of '\b' across rows always meets a character: every row that   *)
(* the cursor has gone past holds one, however rows were filled, ended by  *)
(* '\n', erased and scrolled, so row_now never wraps round.                *)
ScanStaysOnScreen == row # OffScreen

(* A row without gaps: the empty cells are all behind the characters.      *)
Packed(r) == \A c \in Cols, d \in Cols :
               c < d /\ cell[<<r, d>>] # NUL => cell[<<r, c>>] # NUL

(* The screen is one text without gaps: each row above the cursor begins   *)
(* with a character and has no gap, the cursor's row is filled exactly up  *)
(* to the cursor, and nothing is left behind the cursor by putchar(),      *)
(* erasing and scrolling.                                                  *)
TextUpToCursor ==
  row # OffScreen =>
    /\ \A r \in Rows : r < row => Packed(r) /\ cell[<<r, 0>>] # NUL
    /\ \A c \in Cols : cell[<<row, c>>] # NUL <=> c < col
    /\ \A r \in Rows, c \in Cols : r > row => cell[<<r, c>>] = NUL

-----------------------------------------------------------------------------
(* The terminal that the screen implements.  The refinement mapping: the   *)
(* rows down to the cursor, each one as the characters it holds.           *)
Shown(r) ==
  [c \in 1 .. Cardinality({k \in Cols : cell[<<r, k>>] # NUL}) |->
     cell[<<r, c - 1>>]]
MappedLines == [i \in 1 .. row + 1 |-> Shown(i - 1)]

Text == INSTANCE Terminal WITH
  MaxLines <- Height, LineLength <- Width, Visible <- Glyphs,
  EndMark <- Newline, lines <- MappedLines

(* The screen implements a terminal: putchar() adds a character at the end *)
(* of the text, '\b' takes back exactly the last one, also across a line   *)
(* break or a wrapped row, and scrolling loses the oldest line only.       *)
ImplementsTerminal == Text!Spec

=============================================================================
