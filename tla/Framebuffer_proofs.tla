------------------------- MODULE Framebuffer_proofs -------------------------
(***************************************************************************)
(* Proofs about the text screen, for every width, height and set of        *)
(* characters: the inductive invariant is the conjunction of the three     *)
(* invariants of module Framebuffer.                                       *)
(***************************************************************************)
EXTENDS Framebuffer, FiniteSetTheorems, SequenceTheorems, WellFoundedInduction, TLAPS

(* The inductive invariant.                                                *)
Inv == TypeOK /\ ScanStaysOnScreen /\ TextUpToCursor

(* The text of a screen f ends at row r, column c.                         *)
EndsAt(f, r, c) ==
  /\ f \in [Rows \X Cols -> Chars]
  /\ r \in Rows
  /\ c \in Cols
  /\ \A i \in Rows, j \in Cols, k \in Cols :
       i < r /\ j < k /\ f[<<i, k>>] # NUL => f[<<i, j>>] # NUL
  /\ \A i \in Rows : i < r => f[<<i, 0>>] # NUL
  /\ \A j \in Cols : f[<<r, j>>] # NUL <=> j < c
  /\ \A i \in Rows, j \in Cols : i > r => f[<<i, j>>] = NUL

(* The text of a screen f fills row r and ends there.                      *)
Completes(f, r) ==
  /\ f \in [Rows \X Cols -> Chars]
  /\ r \in Rows
  /\ \A i \in Rows, j \in Cols, k \in Cols :
       i <= r /\ j < k /\ f[<<i, k>>] # NUL => f[<<i, j>>] # NUL
  /\ \A i \in Rows : i <= r => f[<<i, 0>>] # NUL
  /\ \A i \in Rows, j \in Cols : i > r => f[<<i, j>>] = NUL

(* The row and the column that a column number stands for, inside a row    *)
(* and just past its end.                                                  *)
LEMMA ColumnFacts ==
  /\ \A c \in Cols : c \div Width = 0 /\ c % Width = c
  /\ Width \div Width = 1 /\ Width % Width = 0
  /\ 0 \in Cols /\ Width - 1 \in Cols
BY ScreenAssumption, SMT DEF Cols

(* The invariant says that the text ends at the cursor.                    *)
LEMMA InvMeansEnd == Inv <=> EndsAt(cell, row, col)
<1>1. OffScreen \notin Rows
  BY ScreenAssumption DEF OffScreen, Rows
<1>2. QED
  BY <1>1 DEF Inv, TypeOK, ScanStaysOnScreen, TextUpToCursor, Packed, EndsAt

(* The same of the next state.                                             *)
LEMMA InvMeansEndNext == Inv' <=> EndsAt(cell', row', col')
<1>1. OffScreen \notin Rows
  BY ScreenAssumption DEF OffScreen, Rows
<1>2. QED
  BY <1>1 DEF Inv, TypeOK, ScanStaysOnScreen, TextUpToCursor, Packed, EndsAt

(* The end of putchar() keeps a text that ends inside the screen.          *)
LEMMA PlaceInside ==
  ASSUME NEW STATE f, NEW STATE r, NEW STATE c, EndsAt(f, r, c), Place(f, r, c)
  PROVE  EndsAt(cell', row', col')
<1>1. r \in Rows /\ c \in Cols
  BY DEF EndsAt
<1>2. r + c \div Width = r /\ c % Width = c
  BY <1>1, ColumnFacts DEF Rows
<1>3. r # Height
  BY <1>1, ScreenAssumption DEF Rows
<1>4. cell' = f /\ row' = r /\ col' = c
  BY <1>2, <1>3 DEF Place
<1>5. QED
  BY <1>4

(* The end of putchar() when row r has been completed: the cursor goes to  *)
(* the next row, and the screen scrolls if there is none.                  *)
LEMMA PlaceNextRow ==
  ASSUME NEW STATE f, NEW STATE r, NEW STATE c, NEW STATE q,
         Completes(f, r),
         q + c \div Width = r + 1, c % Width = 0, Place(f, q, c)
  PROVE  EndsAt(cell', row', col')
<1> USE DEF Completes
<1>1. 0 \in Cols /\ col' = 0
  BY ColumnFacts DEF Place
<1>2. CASE r + 1 = Height
  <2>1. cell' = ShiftUp(f) /\ row' = Height - 1
    BY <1>2 DEF Place
  <2>2. row' = r /\ row' \in Rows
    BY <1>2, <2>1, ScreenAssumption DEF Rows
  <2>3. cell' \in [Rows \X Cols -> Chars]
    BY <2>1, ScreenAssumption DEF ShiftUp, Chars, Rows
  <2>4. ASSUME NEW i \in Rows, NEW j \in Cols
        PROVE  cell'[<<i, j>>] = IF i < r THEN f[<<i + 1, j>>] ELSE NUL
    <3>1. r = Height - 1
      BY <1>2, ScreenAssumption DEF Rows
    <3>2. <<i, j>> \in Rows \X Cols
      OBVIOUS
    <3>3. QED
      BY <2>1, <3>1, <3>2 DEF ShiftUp
  <2>5. \A i \in Rows : i < r => i + 1 \in Rows /\ i + 1 <= r
    BY ScreenAssumption DEF Rows
  <2>6. ASSUME NEW i \in Rows, NEW j \in Cols, i < r
        PROVE  i + 1 \in Rows /\ cell'[<<i, j>>] = f[<<i + 1, j>>]
    BY <2>4, <2>5, <2>6
  <2>7. ASSUME NEW i \in Rows, i < r
        PROVE  /\ cell'[<<i, 0>>] # NUL
               /\ \A j \in Cols, k \in Cols :
                    j < k /\ cell'[<<i, k>>] # NUL => cell'[<<i, j>>] # NUL
    <3>1. i + 1 \in Rows /\ i + 1 <= r
      BY <2>5, <2>7
    <3>2. \A j \in Cols : cell'[<<i, j>>] = f[<<i + 1, j>>]
      BY <2>6, <2>7
    <3>3. QED
      BY <1>1, <3>1, <3>2
  <2>8. ASSUME NEW i \in Rows, NEW j \in Cols, i >= r
        PROVE  cell'[<<i, j>>] = NUL
    <3>1. ~ (i < r)
      BY <2>8 DEF Rows
    <3>2. QED
      BY <2>4, <3>1
  <2>9. \A j \in Cols : ~ (j < 0)
    BY DEF Cols
  <2>10. \A i \in Rows : i > r => i >= r
    BY DEF Rows
  <2>11. r >= r
    BY DEF Rows
  <2>12. \A j \in Cols : cell'[<<r, j>>] # NUL <=> j < 0
    BY <2>8, <2>9, <2>11
  <2>13. QED
    BY <1>1, <2>2, <2>3, <2>7, <2>8, <2>10, <2>12 DEF EndsAt
<1>3. CASE r + 1 # Height
  <2>1. cell' = f /\ row' = r + 1
    BY <1>3 DEF Place
  <2>2. r + 1 \in Rows
    BY <1>3, ScreenAssumption DEF Rows
  <2>3. \A i \in Rows : (i < r + 1 <=> i <= r) /\ (i >= r + 1 <=> i > r)
    BY DEF Rows
  <2>4. \A j \in Cols : ~ (j < 0)
    BY DEF Cols
  <2>5. QED
    BY <1>1, <2>1, <2>2, <2>3, <2>4 DEF EndsAt, Rows
<1>4. QED
  BY <1>2, <1>3

(* A nonempty set of columns has a last one.                               *)
LEMMA LastColumn ==
  ASSUME NEW S \in SUBSET Cols, S # {}
  PROVE  \E c \in S : \A d \in S : d <= c
<1> DEFINE Below == {ss \in Nat \X Nat : ss[1] < ss[2]}
           Away  == {Width - 1 - c : c \in S}
<1>1. IsWellFoundedOn(Below, Nat)
  BY NatLessThanWellFounded DEF OpToRel
<1>2. Away \in SUBSET Nat /\ Away # {}
  <2>1. \A c \in Cols : Width - 1 - c \in Nat
    BY ScreenAssumption DEF Cols
  <2>2. QED
    BY <2>1
<1> HIDE DEF Below, Away
<1>3. PICK x \in Away : \A y \in Away : ~ (<<y, x>> \in Below)
  BY <1>1, <1>2, WFMin
<1>4. PICK c \in S : x = Width - 1 - c
  BY <1>3 DEF Away
<1>5. ASSUME NEW d \in S PROVE d <= c
  <2>1. Width - 1 - d \in Away
    BY DEF Away
  <2>2. x \in Nat /\ Width - 1 - d \in Nat
    BY <1>2, <2>1
  <2>3. Width - 1 - d < x => <<Width - 1 - d, x>> \in Below
    BY <2>2 DEF Below
  <2>4. ~ (Width - 1 - d < x)
    BY <1>3, <2>1, <2>3
  <2>5. QED
    BY <1>4, <2>4, ScreenAssumption DEF Cols
<1>6. QED
  BY <1>5

(* The scan of '\b' from the start of a row ends in the row above, at the   *)
(* last character of that row.                                             *)
LEMMA ScanFacts ==
  ASSUME EndsAt(cell, row, col), row > 0
  PROVE  /\ Scan[1] = row - 1
         /\ Scan[2] \in Cols
         /\ cell[<<row - 1, Scan[2]>>] # NUL
         /\ \A d \in Cols : cell[<<row - 1, d>>] # NUL => d <= Scan[2]
<1> DEFINE S == {c \in Cols : cell[<<row - 1, c>>] # NUL}
<1>1. row \in Rows /\ row - 1 \in Rows /\ row - 1 < row /\ row - 1 \in 0 .. row - 1
  BY ScreenAssumption DEF EndsAt, Rows
<1>2. 0 \in S
  BY <1>1, ColumnFacts DEF EndsAt
<1>3. PICK c \in S : \A d \in S : d <= c
  <2>1. S \in SUBSET Cols /\ S # {}
    BY <1>2
  <2>2. QED
    BY <2>1, LastColumn
<1>4. c \in Cols /\ cell[<<row - 1, c>>] # NUL
  BY <1>3
<1>5. <<row - 1, c>> \in Before
  BY <1>1, <1>4 DEF Before
<1>6. ASSUME NEW q \in Before PROVE Sooner(<<row - 1, c>>, q)
  <2>1. q = <<q[1], q[2]>> /\ q[1] \in 0 .. row - 1 /\ q[2] \in Cols /\ cell[q] # NUL
    BY DEF Before
  <2>2. CASE q[1] = row - 1
    <3>1. q[2] \in S
      BY <2>1, <2>2
    <3>2. c >= q[2]
      BY <1>3, <1>4, <2>1, <3>1 DEF Cols
    <3>3. QED
      BY <2>2, <3>2 DEF Sooner
  <2>3. CASE q[1] # row - 1
    <3>1. row - 1 > q[1]
      BY <1>1, <2>1, <2>3 DEF Rows
    <3>2. QED
      BY <3>1 DEF Sooner
  <2>4. QED
    BY <2>2, <2>3
<1>7. Scan \in Before /\ \A q \in Before : Sooner(Scan, q)
  <2>1. \E p \in Before : \A q \in Before : Sooner(p, q)
    BY <1>5, <1>6
  <2>2. Before # {}
    BY <1>5
  <2>3. Scan = CHOOSE p \in Before : \A q \in Before : Sooner(p, q)
    BY <2>2 DEF Scan
  <2>4. QED
    BY <2>1, <2>3
<1>8. /\ Scan = <<Scan[1], Scan[2]>>
      /\ Scan[1] \in 0 .. row - 1
      /\ Scan[2] \in Cols
      /\ cell[Scan] # NUL
  BY <1>7 DEF Before
<1>9. Sooner(Scan, <<row - 1, c>>)
  BY <1>5, <1>7
<1>10. Scan[1] = row - 1 /\ Scan[2] >= c
  BY <1>1, <1>8, <1>9 DEF Sooner, Rows
<1>11. ASSUME NEW d \in Cols, cell[<<row - 1, d>>] # NUL PROVE d <= Scan[2]
  <2>1. d <= c
    BY <1>3, <1>11
  <2>2. QED
    BY <2>1, <1>4, <1>8, <1>10 DEF Cols
<1>12. QED
  BY <1>8, <1>10, <1>11

(* A glyph either stays in its row or completes it.                        *)
LEMMA GlyphWritten ==
  ASSUME EndsAt(cell, row, col), NEW ch \in Glyphs
  PROVE  /\ col + 1 # Width => EndsAt(Write(cell, row, col, ch), row, col + 1)
         /\ col + 1 = Width => Completes(Write(cell, row, col, ch), row)
<1> DEFINE f == Write(cell, row, col, ch)
<1>1. /\ cell \in [Rows \X Cols -> Chars] /\ row \in Rows /\ col \in Cols
      /\ ch \in Chars /\ ch # NUL
  BY ScreenAssumption DEF EndsAt, Chars
<1>2. /\ f \in [Rows \X Cols -> Chars]
      /\ \A i \in Rows, j \in Cols :
           f[<<i, j>>] = IF i = row /\ j = col THEN ch ELSE cell[<<i, j>>]
  BY <1>1 DEF Write
<1> HIDE DEF f
<1>3. /\ \A i \in Rows, j \in Cols, k \in Cols :
           i < row /\ j < k /\ f[<<i, k>>] # NUL => f[<<i, j>>] # NUL
      /\ \A i \in Rows : i < row => f[<<i, 0>>] # NUL
      /\ \A i \in Rows, j \in Cols : i > row => f[<<i, j>>] = NUL
  <2>1. \A i \in Rows : (i < row \/ i > row) => i # row
    BY <1>1 DEF Rows
  <2>2. 0 \in Cols
    BY ColumnFacts
  <2>3. \A i \in Rows, j \in Cols : (i < row \/ i > row) => f[<<i, j>>] = cell[<<i, j>>]
    BY <1>2, <2>1
  <2>4. QED
    BY <2>2, <2>3 DEF EndsAt
<1>4. \A j \in Cols : f[<<row, j>>] # NUL <=> j < col + 1
  <2>1. \A j \in Cols : j < col + 1 <=> (j < col \/ j = col)
    BY <1>1 DEF Cols
  <2>2. QED
    BY <1>1, <1>2, <2>1 DEF EndsAt
<1>5. CASE col + 1 # Width
  <2>1. col + 1 \in Cols
    BY <1>1, <1>5, ScreenAssumption DEF Cols
  <2>2. EndsAt(f, row, col + 1)
    BY <1>1, <1>2, <1>3, <1>4, <2>1 DEF EndsAt
  <2>3. QED
    BY <1>5, <2>2 DEF f
<1>6. CASE col + 1 = Width
  <2>1. \A j \in Cols : j < col + 1
    BY <1>6, ScreenAssumption DEF Cols
  <2>2. \A j \in Cols : f[<<row, j>>] # NUL
    BY <1>4, <2>1
  <2>3. \A i \in Rows : i <= row => i < row \/ i = row
    BY <1>1 DEF Rows
  <2>4. \A i \in Rows, j \in Cols, k \in Cols :
          i <= row /\ j < k /\ f[<<i, k>>] # NUL => f[<<i, j>>] # NUL
    BY <1>3, <2>2, <2>3
  <2>5. \A i \in Rows : i <= row => f[<<i, 0>>] # NUL
    BY <1>3, <2>2, <2>3, ColumnFacts
  <2>6. Completes(f, row)
    BY <1>1, <1>2, <1>3, <2>4, <2>5 DEF Completes
  <2>7. QED
    BY <1>6, <2>6 DEF f
<1>7. QED
  BY <1>5, <1>6

(* A character that is put leaves a text that ends at the cursor.          *)
LEMMA PutGlyphStep ==
  ASSUME EndsAt(cell, row, col), NEW ch \in Glyphs, PutGlyph(ch)
  PROVE  EndsAt(cell', row', col')
<1> DEFINE f == Write(cell, row, col, ch)
<1>1. Place(f, row, col + 1)
  BY DEF PutGlyph
<1>2. /\ col + 1 # Width => EndsAt(f, row, col + 1)
      /\ col + 1 = Width => Completes(f, row)
  BY GlyphWritten
<1> HIDE DEF f
<1>3. CASE col + 1 # Width
  BY <1>1, <1>2, <1>3, PlaceInside
<1>4. CASE col + 1 = Width
  <2>1. row + Width \div Width = row + 1 /\ Width % Width = 0
    BY ColumnFacts
  <2>2. Place(f, row, Width)
    BY <1>1, <1>4
  <2>3. QED
    BY <1>2, <1>4, <2>1, <2>2, PlaceNextRow
<1>5. QED
  BY <1>3, <1>4

(* '\n' marks its row, so that the row is not empty, and completes it.      *)
LEMMA NewlineWritten ==
  ASSUME EndsAt(cell, row, col)
  PROVE  Completes(Write(cell, row, col, Newline), row)
<1> DEFINE f == Write(cell, row, col, Newline)
<1>1. /\ cell \in [Rows \X Cols -> Chars] /\ row \in Rows /\ col \in Cols
      /\ Newline \in Chars /\ Newline # NUL
  BY DEF EndsAt, Chars, Newline, NUL
<1>2. /\ f \in [Rows \X Cols -> Chars]
      /\ \A i \in Rows, j \in Cols :
           f[<<i, j>>] = IF i = row /\ j = col THEN Newline ELSE cell[<<i, j>>]
  BY <1>1 DEF Write
<1> HIDE DEF f
<1>3. \A j \in Cols : f[<<row, j>>] # NUL <=> j < col \/ j = col
  BY <1>1, <1>2 DEF EndsAt
<1>4. \A i \in Rows : i <= row => i < row \/ i = row
  BY <1>1 DEF Rows
<1>5. \A i \in Rows, j \in Cols : i < row => f[<<i, j>>] = cell[<<i, j>>]
  <2>1. \A i \in Rows : i < row => i # row
    BY <1>1 DEF Rows
  <2>2. QED
    BY <1>2, <2>1
<1>6. \A i \in Rows, j \in Cols, k \in Cols :
        i <= row /\ j < k /\ f[<<i, k>>] # NUL => f[<<i, j>>] # NUL
  <2>1. \A j \in Cols, k \in Cols : j < k /\ (k < col \/ k = col) => j < col
    BY <1>1 DEF Cols
  <2>2. \A j \in Cols, k \in Cols :
          j < k /\ f[<<row, k>>] # NUL => f[<<row, j>>] # NUL
    BY <1>3, <2>1
  <2>3. \A i \in Rows, j \in Cols, k \in Cols :
          i < row /\ j < k /\ f[<<i, k>>] # NUL => f[<<i, j>>] # NUL
    BY <1>5 DEF EndsAt
  <2>4. QED
    BY <1>4, <2>2, <2>3
<1>7. \A i \in Rows : i <= row => f[<<i, 0>>] # NUL
  <2>1. 0 \in Cols /\ (0 < col \/ 0 = col)
    BY <1>1, ColumnFacts DEF Cols
  <2>2. f[<<row, 0>>] # NUL
    BY <1>3, <2>1
  <2>3. \A i \in Rows : i < row => f[<<i, 0>>] # NUL
    BY <1>5, <2>1 DEF EndsAt
  <2>4. QED
    BY <1>4, <2>2, <2>3
<1>8. \A i \in Rows, j \in Cols : i > row => f[<<i, j>>] = NUL
  <2>1. \A i \in Rows : i > row => i # row
    BY <1>1 DEF Rows
  <2>2. QED
    BY <1>2, <2>1 DEF EndsAt
<1>9. QED
  BY <1>1, <1>2, <1>6, <1>7, <1>8 DEF Completes, f

(* So does '\n'.                                                           *)
LEMMA PutNewlineStep ==
  ASSUME EndsAt(cell, row, col), PutNewline
  PROVE  EndsAt(cell', row', col')
<1>1. row + 1 + 0 \div Width = row + 1 /\ 0 % Width = 0
  BY ColumnFacts DEF EndsAt, Rows
<1>2. QED
  BY <1>1, NewlineWritten, PlaceNextRow DEF PutNewline

(* '\b' inside a row.                                                       *)
LEMMA BackspaceStep ==
  ASSUME EndsAt(cell, row, col), Backspace
  PROVE  EndsAt(cell', row', col')
<1> DEFINE f == Write(cell, row, col - 1, NUL)
<1>1. /\ cell \in [Rows \X Cols -> Chars] /\ row \in Rows /\ col \in Cols
      /\ NUL \in Chars
  BY DEF EndsAt, Chars
<1>2. col - 1 \in Cols
  BY <1>1, ScreenAssumption DEF Backspace, Cols
<1>3. /\ f \in [Rows \X Cols -> Chars]
      /\ \A i \in Rows, j \in Cols :
           f[<<i, j>>] = IF i = row /\ j = col - 1 THEN NUL ELSE cell[<<i, j>>]
  BY <1>1, <1>2 DEF Write
<1>4. Place(f, row, col - 1)
  BY DEF Backspace
<1> HIDE DEF f
<1>5. \A j \in Cols : f[<<row, j>>] # NUL <=> j < col - 1
  <2>1. \A j \in Cols : j < col - 1 <=> (j < col /\ j # col - 1)
    BY <1>1 DEF Cols
  <2>2. QED
    BY <1>1, <1>3, <2>1 DEF EndsAt
<1>6. \A i \in Rows, j \in Cols : i # row => f[<<i, j>>] = cell[<<i, j>>]
  BY <1>3
<1>7. \A i \in Rows : (i < row \/ i > row) => i # row
  BY <1>1 DEF Rows
<1>8. 0 \in Cols
  BY ColumnFacts
<1>9. EndsAt(f, row, col - 1)
  BY <1>1, <1>2, <1>3, <1>5, <1>6, <1>7, <1>8 DEF EndsAt
<1>10. QED
  BY <1>4, <1>9, PlaceInside

(* '\b' at the start of a row: the text then ends where the scan ended.     *)
LEMMA BackspaceRowStep ==
  ASSUME EndsAt(cell, row, col), BackspaceRow
  PROVE  EndsAt(cell', row', col')
<1> DEFINE e == Scan[2]
           f == Write(cell, row - 1, e, NUL)
<1>1. /\ cell \in [Rows \X Cols -> Chars] /\ row \in Rows
      /\ NUL \in Chars /\ row > 0 /\ col = 0
  BY DEF EndsAt, Chars, BackspaceRow
<1>2. row - 1 \in Rows
  BY <1>1, ScreenAssumption DEF Rows
<1>3. /\ Scan[1] = row - 1
      /\ e \in Cols
      /\ cell[<<row - 1, e>>] # NUL
      /\ \A d \in Cols : cell[<<row - 1, d>>] # NUL => d <= e
  BY <1>1, ScanFacts
<1>4. /\ f \in [Rows \X Cols -> Chars]
      /\ \A i \in Rows, j \in Cols :
           f[<<i, j>>] = IF i = row - 1 /\ j = e THEN NUL ELSE cell[<<i, j>>]
  BY <1>1, <1>2, <1>3 DEF Write
<1>5. Place(f, row - 1, e)
  BY <1>3 DEF BackspaceRow
<1> HIDE DEF f, e
<1>6. \A j \in Cols : f[<<row - 1, j>>] # NUL <=> j < e
  <2>1. \A j \in Cols : j < e <=> (j <= e /\ j # e)
    BY <1>3 DEF Cols
  <2>2. \A j \in Cols : j < e => cell[<<row - 1, j>>] # NUL
    <3>1. row - 1 < row
      BY <1>1 DEF Rows
    <3>2. QED
      BY <1>2, <1>3, <3>1 DEF EndsAt
  <2>3. QED
    BY <1>2, <1>3, <1>4, <2>1, <2>2
<1>7. 0 \in Cols
  BY ColumnFacts
<1>8. \A i \in Rows, j \in Cols : i # row - 1 => f[<<i, j>>] = cell[<<i, j>>]
  BY <1>4
<1>9. \A j \in Cols : ~ (j < col)
  BY <1>1 DEF Cols
<1>10. ASSUME NEW i \in Rows, NEW j \in Cols, i > row - 1
       PROVE  f[<<i, j>>] = NUL
  <2>0. i # row - 1 /\ (i = row \/ i > row)
    BY <1>1, <1>10 DEF Rows
  <2>1. f[<<i, j>>] = cell[<<i, j>>]
    BY <1>8, <2>0
  <2>2. cell[<<row, j>>] = NUL
    BY <1>9 DEF EndsAt
  <2>3. i > row => cell[<<i, j>>] = NUL
    BY DEF EndsAt
  <2>4. QED
    BY <2>0, <2>1, <2>2, <2>3
<1>11. ASSUME NEW i \in Rows, i < row - 1
       PROVE  /\ f[<<i, 0>>] # NUL
              /\ \A j \in Cols, k \in Cols :
                   j < k /\ f[<<i, k>>] # NUL => f[<<i, j>>] # NUL
  <2>1. i # row - 1 /\ i < row
    BY <1>1, <1>11 DEF Rows
  <2>2. \A j \in Cols : f[<<i, j>>] = cell[<<i, j>>]
    BY <1>8, <2>1
  <2>3. QED
    BY <1>7, <2>1, <2>2 DEF EndsAt
<1>12. EndsAt(f, row - 1, e)
  BY <1>2, <1>3, <1>4, <1>6, <1>10, <1>11 DEF EndsAt
<1>13. QED
  BY <1>5, <1>12, PlaceInside

(* An empty screen is a text that ends at its first cell.                  *)
LEMMA EmptyScreen == EndsAt(Blanks, 0, 0)
<1>1. 0 \in Rows /\ 0 \in Cols /\ \A j \in Cols : ~ (j < 0)
  BY ScreenAssumption DEF Rows, Cols
<1>2. Blanks \in [Rows \X Cols -> Chars]
  BY DEF Blanks, Chars
<1>3. \A i \in Rows, j \in Cols : Blanks[<<i, j>>] = NUL
  BY DEF Blanks
<1>4. \A i \in Rows : ~ (i < 0)
  BY DEF Rows
<1>5. QED
  BY <1>1, <1>2, <1>3, <1>4 DEF EndsAt

(* The three invariants hold in every state, for every screen: the cursor  *)
(* is on the screen, the text has no gap and ends at the cursor, and the   *)
(* scan of '\b' never runs off the screen.                                  *)
THEOREM ScreenCorrect == Spec => []Inv
<1>1. Init => Inv
  BY EmptyScreen, InvMeansEnd DEF Init
<1>2. Inv /\ [Next]_screen => Inv'
  <2> SUFFICES ASSUME Inv, [Next]_screen PROVE Inv'
    OBVIOUS
  <2>1. EndsAt(cell, row, col)
    BY InvMeansEnd
  <2>2. CASE Clear
    BY <2>2, EmptyScreen, InvMeansEndNext DEF Clear
  <2>3. ASSUME NEW ch \in Glyphs, PutGlyph(ch) PROVE Inv'
    BY <2>1, <2>3, PutGlyphStep, InvMeansEndNext
  <2>4. CASE PutNewline
    BY <2>1, <2>4, PutNewlineStep, InvMeansEndNext
  <2>5. CASE Backspace
    BY <2>1, <2>5, BackspaceStep, InvMeansEndNext
  <2>6. CASE BackspaceRow
    BY <2>1, <2>6, BackspaceRowStep, InvMeansEndNext
  <2>7. CASE BackspaceNothing
    BY <2>1, <2>7, PlaceInside, InvMeansEndNext DEF BackspaceNothing
  <2>8. CASE UNCHANGED screen
    BY <2>1, <2>8, InvMeansEndNext DEF screen
  <2>9. QED
    BY <2>2, <2>3, <2>4, <2>5, <2>6, <2>7, <2>8 DEF Next
<1>3. QED
  BY <1>1, <1>2, PTL DEF Spec

(* The cursor never leaves the screen, and every cell holds a character    *)
(* that putchar() was given, whatever is typed, scrolled and erased.       *)
THEOREM ScreenTypes == Spec => []TypeOK
<1>1. Inv => TypeOK
  BY DEF Inv
<1>2. QED
  BY <1>1, ScreenCorrect, PTL

(* In particular the scan of '\b' always meets a character.                 *)
THEOREM ScanCorrect == Spec => []ScanStaysOnScreen
<1>1. Inv => ScanStaysOnScreen
  BY DEF Inv
<1>2. QED
  BY <1>1, ScreenCorrect, PTL

(* And the screen is one text without gaps that ends at the cursor.        *)
THEOREM TextCorrect == Spec => []TextUpToCursor
<1>1. Inv => TextUpToCursor
  BY DEF Inv
<1>2. QED
  BY <1>1, ScreenCorrect, PTL

-----------------------------------------------------------------------------
(* The refinement of Terminal.  Row r of a screen f as the characters it   *)
(* holds, and its rows down to r.                                          *)
RowOf(f, r) ==
  [c \in 1 .. Cardinality({k \in Cols : f[<<r, k>>] # NUL}) |-> f[<<r, c - 1>>]]
LinesOf(f, r) == [i \in 1 .. r + 1 |-> RowOf(f, i - 1)]

(* These are the rows that Terminal is shown,                              *)
LEMMA MappedIs == MappedLines = LinesOf(cell, row)
  BY DEF MappedLines, Shown, LinesOf, RowOf

(* and those after a step.                                                 *)
LEMMA MappedIsNext == MappedLines' = LinesOf(cell', row')
  BY DEF MappedLines, Shown, LinesOf, RowOf

(* A row that is filled up to column n is shown as n characters.           *)
LEMMA RowFilled ==
  ASSUME NEW f, NEW r, NEW n \in 0 .. Width,
         \A k \in Cols : f[<<r, k>>] # NUL <=> k < n
  PROVE  RowOf(f, r) = [c \in 1 .. n |-> f[<<r, c - 1>>]]
<1>1. {k \in Cols : f[<<r, k>>] # NUL} = 0 .. n - 1
  <2>1. \A k : k \in 0 .. n - 1 <=> k \in Cols /\ k < n
    BY ScreenAssumption DEF Cols
  <2>2. QED
    BY <2>1
<1>2. Cardinality(0 .. n - 1) = n
  <2>1. 0 \in Int /\ n - 1 \in Int
    BY ScreenAssumption
  <2>2. Cardinality(0 .. n - 1) = IF 0 > n - 1 THEN 0 ELSE (n - 1) - 0 + 1
    BY <2>1, FS_Interval
  <2>3. QED
    BY <2>2, ScreenAssumption
<1>3. QED
  BY <1>1, <1>2 DEF RowOf

(* A row holds at most Width characters.                                   *)
LEMMA RowLength ==
  ASSUME NEW f, NEW r
  PROVE  /\ Cardinality({k \in Cols : f[<<r, k>>] # NUL}) \in Nat
         /\ Cardinality({k \in Cols : f[<<r, k>>] # NUL}) <= Width
<1>1. IsFiniteSet(Cols) /\ Cardinality(Cols) = Width
  <2>1. Width \in Nat /\ 0 \in Int /\ Width - 1 \in Int /\ ~ (0 > Width - 1)
    BY ScreenAssumption
  <2>2. /\ IsFiniteSet(0 .. Width - 1)
        /\ Cardinality(0 .. Width - 1)
             = IF 0 > Width - 1 THEN 0 ELSE (Width - 1) - 0 + 1
    BY <2>1, FS_Interval
  <2>3. QED
    BY <2>1, <2>2 DEF Cols
<1>2. {k \in Cols : f[<<r, k>>] # NUL} \in SUBSET Cols
  OBVIOUS
<1>3. QED
  BY <1>1, <1>2, FS_Subset, FS_CardinalityType

(* Rows with the same cells are shown alike.                               *)
LEMMA RowSame ==
  ASSUME NEW f, NEW g, NEW r, NEW q, \A k \in Cols : f[<<r, k>>] = g[<<q, k>>]
  PROVE  RowOf(f, r) = RowOf(g, q)
<1> DEFINE n == Cardinality({k \in Cols : f[<<r, k>>] # NUL})
<1>1. {k \in Cols : f[<<r, k>>] # NUL} = {k \in Cols : g[<<q, k>>] # NUL}
  OBVIOUS
<1>2. n \in Nat /\ n <= Width
  BY RowLength
<1> HIDE DEF n
<1>3. ASSUME NEW c \in 1 .. n PROVE f[<<r, c - 1>>] = g[<<q, c - 1>>]
  <2>1. c - 1 \in Cols
    BY <1>2, ScreenAssumption DEF Cols
  <2>2. QED
    BY <2>1
<1>4. QED
  BY <1>1, <1>3 DEF RowOf, n

(* Every row of a screen is a line of characters.                          *)
LEMMA RowType ==
  ASSUME NEW f \in [Rows \X Cols -> Chars], NEW r \in Rows
  PROVE  RowOf(f, r) \in Seq(Chars)
<1> DEFINE n == Cardinality({k \in Cols : f[<<r, k>>] # NUL})
<1>2. n \in Nat /\ n <= Width
  BY RowLength
<1> HIDE DEF n
<1>3. \A c \in 1 .. n : f[<<r, c - 1>>] \in Chars
  <2>1. \A c \in 1 .. n : c - 1 \in Cols
    BY <1>2, ScreenAssumption DEF Cols
  <2>2. QED
    BY <2>1
<1>4. RowOf(f, r) = [c \in 1 .. n |-> f[<<r, c - 1>>]]
  BY DEF RowOf, n
<1>5. RowOf(f, r) \in [1 .. n -> Chars]
  BY <1>3, <1>4
<1>6. QED
  BY <1>2, <1>5, SeqDef

(* The rows down to r are lines, r + 1 of them.                            *)
LEMMA LinesType ==
  ASSUME NEW f \in [Rows \X Cols -> Chars], NEW r \in Rows
  PROVE  /\ LinesOf(f, r) \in Seq(Seq(Chars))
         /\ Len(LinesOf(f, r)) = r + 1
         /\ \A i \in 1 .. r + 1 : LinesOf(f, r)[i] = RowOf(f, i - 1)
<1>1. r \in Nat /\ \A i \in 1 .. r + 1 : i - 1 \in Rows
  BY ScreenAssumption DEF Rows
<1>2. \A i \in 1 .. r + 1 : RowOf(f, i - 1) \in Seq(Chars)
  BY <1>1, RowType
<1>3. QED
  BY <1>1, <1>2 DEF LinesOf

(* The text of the terminal that a screen stands for.                      *)
LEMMA LinesParts ==
  ASSUME EndsAt(cell, row, col)
  PROVE  /\ Text!Current = RowOf(cell, row)
         /\ Text!Done \in Seq(Seq(Chars)) /\ Len(Text!Done) = row
         /\ \A i \in 1 .. row : Text!Done[i] = RowOf(cell, i - 1)
<1> DEFINE s == LinesOf(cell, row)
<1>1. row \in Nat /\ row \in Rows /\ cell \in [Rows \X Cols -> Chars]
  BY ScreenAssumption DEF EndsAt, Rows
<1>2. /\ s \in Seq(Seq(Chars)) /\ Len(s) = row + 1
      /\ \A i \in 1 .. row + 1 : s[i] = RowOf(cell, i - 1)
  BY <1>1, LinesType
<1>3. Text!Current = s[Len(s)] /\ Text!Done = SubSeq(s, 1, Len(s) - 1)
  BY MappedIs DEF Text!Current, Text!Done
<1> HIDE DEF s
<1>4. s[row + 1] = RowOf(cell, row)
  <2>1. row + 1 \in 1 .. row + 1 /\ (row + 1) - 1 = row
    BY <1>1
  <2>2. QED
    BY <1>2, <2>1
<1>5. SubSeq(s, 1, row) \in Seq(Seq(Chars)) /\ Len(SubSeq(s, 1, row)) = row
  BY <1>1, <1>2
<1>6. \A i \in 1 .. row : SubSeq(s, 1, row)[i] = s[i] /\ i \in 1 .. row + 1
  BY <1>1, <1>2
<1>7. Len(s) - 1 = row
  BY <1>1, <1>2
<1>8. QED
  BY <1>2, <1>3, <1>4, <1>5, <1>6, <1>7

(* The lines above the cursor and the cursor's line make up the text.      *)
LEMMA LinesAppend ==
  ASSUME NEW f \in [Rows \X Cols -> Chars], NEW r \in Rows,
         NEW d \in Seq(Seq(Chars)), Len(d) = r,
         \A i \in 1 .. r : d[i] = RowOf(f, i - 1)
  PROVE  LinesOf(f, r) = Append(d, RowOf(f, r))
<1> DEFINE s == LinesOf(f, r)
           l == RowOf(f, r)
<1>1. r \in Nat
  BY ScreenAssumption DEF Rows
<1>2. /\ s \in Seq(Seq(Chars)) /\ Len(s) = r + 1
      /\ \A i \in 1 .. r + 1 : s[i] = RowOf(f, i - 1)
  BY LinesType
<1>3. l \in Seq(Chars)
  BY RowType
<1>4. s[r + 1] = l
  <2>1. r + 1 \in 1 .. r + 1 /\ (r + 1) - 1 = r
    BY <1>1
  <2>2. QED
    BY <1>2, <2>1
<1>5. \A i \in 1 .. r : s[i] = d[i]
  <2>1. \A i \in 1 .. r : i \in 1 .. r + 1
    BY <1>1
  <2>2. QED
    BY <1>2, <2>1
<1> HIDE DEF s, l
<1>6. /\ Append(d, l) \in Seq(Seq(Chars)) /\ Len(Append(d, l)) = r + 1
      /\ Append(d, l)[r + 1] = l
      /\ \A i \in 1 .. r : Append(d, l)[i] = d[i]
  BY <1>1, <1>3
<1>7. \A i \in 1 .. r + 1 : s[i] = Append(d, l)[i]
  <2>1. \A i \in 1 .. r + 1 : i \in 1 .. r \/ i = r + 1
    BY <1>1
  <2>2. QED
    BY <1>4, <1>5, <1>6, <2>1
<1>8. s = Append(d, l)
  BY <1>2, <1>6, <1>7, SeqEqual
<1>9. QED
  BY <1>8 DEF s, l

(* An empty row is an empty line.                                          *)
LEMMA RowEmpty ==
  ASSUME NEW f, NEW r, \A k \in Cols : f[<<r, k>>] = NUL
  PROVE  RowOf(f, r) = <<>>
<1>1. 0 \in 0 .. Width /\ \A k \in Cols : ~ (k < 0)
  BY ScreenAssumption DEF Cols
<1>2. RowOf(f, r) = [c \in 1 .. 0 |-> f[<<r, c - 1>>]]
  BY <1>1, RowFilled
<1>3. QED
  BY <1>2

(* The end of putchar() when a row has been completed: the terminal begins *)
(* a new line, and loses its first one if it was full.                     *)
LEMMA CompleteStep ==
  ASSUME EndsAt(cell, row, col), NEW STATE f, NEW STATE q, NEW STATE c,
         Completes(f, row),
         \A i \in Rows, j \in Cols : i < row => f[<<i, j>>] = cell[<<i, j>>],
         q + c \div Width = row + 1, c % Width = 0, Place(f, q, c)
  PROVE  Text!Complete(RowOf(f, row))
<1> DEFINE l    == RowOf(f, row)
           done == Append(Text!Done, l)
           all  == Append(done, <<>>)
<1>1. row \in Nat /\ row \in Rows /\ f \in [Rows \X Cols -> Chars] /\ Height \in Nat
  BY ScreenAssumption DEF Completes, Rows
<1>2. l \in Seq(Chars)
  BY <1>1, RowType
<1>3. /\ Text!Done \in Seq(Seq(Chars)) /\ Len(Text!Done) = row
      /\ \A i \in 1 .. row : Text!Done[i] = RowOf(f, i - 1)
  <2>1. ASSUME NEW i \in 1 .. row PROVE RowOf(cell, i - 1) = RowOf(f, i - 1)
    <3>1. i - 1 \in Rows /\ i - 1 < row
      BY <1>1, ScreenAssumption DEF Rows
    <3>2. QED
      BY <3>1, RowSame
  <2>2. QED
    BY <2>1, LinesParts
<1> HIDE DEF l
<1>4. /\ done \in Seq(Seq(Chars)) /\ Len(done) = row + 1
      /\ done[row + 1] = l
      /\ \A i \in 1 .. row : done[i] = Text!Done[i]
  BY <1>1, <1>2, <1>3
<1>5. \A i \in 1 .. row + 1 : done[i] = RowOf(f, i - 1)
  <2>1. \A i \in 1 .. row + 1 : i \in 1 .. row \/ (i = row + 1 /\ i - 1 = row)
    BY <1>1
  <2>2. QED
    BY <1>3, <1>4, <2>1 DEF l
<1> HIDE DEF done
<1>6. EndsAt(cell', row', col')
  BY PlaceNextRow
<1>7. /\ all \in Seq(Seq(Chars)) /\ Len(all) = row + 2
      /\ all[row + 2] = <<>>
      /\ \A i \in 1 .. row + 1 : all[i] = done[i]
  BY <1>1, <1>4
<1> HIDE DEF all
<1>8. CASE row + 1 = Height
  <2>1. cell' = ShiftUp(f) /\ row' = row
    BY <1>1, <1>8 DEF Place
  <2>2. /\ MappedLines' \in Seq(Seq(Chars)) /\ Len(MappedLines') = row + 1
        /\ \A i \in 1 .. row + 1 : MappedLines'[i] = RowOf(cell', i - 1)
    BY ZenonT(30), <1>6, <2>1, LinesType, MappedIsNext DEF EndsAt
  <2>3. ASSUME NEW i \in 1 .. row PROVE RowOf(cell', i - 1) = RowOf(f, i)
    <3>1. i - 1 \in Rows /\ i - 1 < Height - 1 /\ (i - 1) + 1 = i
      BY <1>1, <1>8 DEF Rows
    <3>2. \A k \in Cols : ShiftUp(f)[<<i - 1, k>>] = f[<<i, k>>]
      BY <3>1 DEF ShiftUp
    <3>3. QED
      BY <2>1, <3>2, RowSame
  <2>4. RowOf(cell', row) = <<>>
    <3>1. ~ (row < Height - 1)
      BY <1>1, <1>8
    <3>2. \A k \in Cols : ShiftUp(f)[<<row, k>>] = NUL
      BY <1>1, <3>1 DEF ShiftUp
    <3>3. QED
      BY <2>1, <3>2, RowEmpty
  <2>5. /\ Tail(all) \in Seq(Seq(Chars)) /\ Len(Tail(all)) = row + 1
        /\ \A i \in 1 .. row + 1 : Tail(all)[i] = all[i + 1]
    BY <1>1, <1>7
  <2>6. ASSUME NEW i \in 1 .. row + 1 PROVE MappedLines'[i] = Tail(all)[i]
    <3>1. CASE i \in 1 .. row
      <4>1. i + 1 \in 1 .. row + 1 /\ (i + 1) - 1 = i
        BY <1>1, <3>1
      <4>2. all[i + 1] = RowOf(f, i)
        BY <1>5, <1>7, <4>1
      <4>3. QED
        BY <2>2, <2>3, <2>5, <3>1, <4>2
    <3>2. CASE i = row + 1
      <4>1. i - 1 = row /\ i + 1 = row + 2
        BY <1>1, <3>2
      <4>2. QED
        BY <1>7, <2>2, <2>4, <2>5, <4>1
    <3>3. i \in 1 .. row \/ i = row + 1
      BY <1>1
    <3>4. QED
      BY <3>1, <3>2, <3>3
  <2>7. MappedLines' = Tail(all)
    BY <2>2, <2>5, <2>6, SeqEqual
  <2>8. Len(all) > Height
    BY <1>1, <1>7, <1>8
  <2>9. QED
    BY <2>7, <2>8 DEF Text!Complete, all, done, l
<1>9. CASE row + 1 # Height
  <2>1. cell' = f /\ row' = row + 1
    BY <1>9 DEF Place
  <2>2. RowOf(f, row + 1) = <<>>
    <3>1. row + 1 \in Rows /\ row + 1 > row
      BY <1>1, <1>9 DEF Rows
    <3>2. QED
      BY <3>1, RowEmpty DEF Completes
  <2>3. row + 1 \in Rows
    BY <1>1, <1>9 DEF Rows
  <2>4. LinesOf(f, row + 1) = Append(done, RowOf(f, row + 1))
    BY <1>1, <1>4, <1>5, <2>3, LinesAppend
  <2>5. MappedLines' = all
    BY <2>1, <2>2, <2>4, MappedIsNext DEF all
  <2>6. ~ (Len(all) > Height)
    BY <1>1, <1>7, <2>3 DEF Rows
  <2>7. QED
    BY <2>5, <2>6 DEF Text!Complete, all, done, l
<1>10. QED
  BY <1>8, <1>9

(* The end of putchar() when the cursor stays in its row.                  *)
LEMMA StayStep ==
  ASSUME EndsAt(cell, row, col), EndsAt(cell', row', col'), row' = row,
         \A i \in Rows, j \in Cols : i < row => cell'[<<i, j>>] = cell[<<i, j>>]
  PROVE  MappedLines' = Append(Text!Done, RowOf(cell', row))
<1>1. row \in Nat /\ row \in Rows /\ cell' \in [Rows \X Cols -> Chars]
  BY ScreenAssumption DEF EndsAt, Rows
<1>2. ASSUME NEW i \in 1 .. row PROVE RowOf(cell, i - 1) = RowOf(cell', i - 1)
  <2>1. i - 1 \in Rows /\ i - 1 < row
    BY <1>1, ScreenAssumption DEF Rows
  <2>2. QED
    BY <2>1, RowSame
<1>3. /\ Text!Done \in Seq(Seq(Chars)) /\ Len(Text!Done) = row
      /\ \A i \in 1 .. row : Text!Done[i] = RowOf(cell', i - 1)
  BY <1>2, LinesParts
<1>4. LinesOf(cell', row) = Append(Text!Done, RowOf(cell', row))
  BY <1>1, <1>3, LinesAppend
<1>5. QED
  BY <1>4, MappedIsNext

(* The cursor's line, as the terminal sees it.                             *)
LEMMA CurrentIs ==
  ASSUME NEW f \in [Rows \X Cols -> Chars], NEW r \in Rows, NEW n \in 0 .. Width,
         \A k \in Cols : f[<<r, k>>] # NUL <=> k < n
  PROVE  /\ RowOf(f, r) \in Seq(Chars) /\ Len(RowOf(f, r)) = n
         /\ \A c \in 1 .. n : RowOf(f, r)[c] = f[<<r, c - 1>>]
<1>1. RowOf(f, r) = [c \in 1 .. n |-> f[<<r, c - 1>>]]
  BY RowFilled
<1>2. RowOf(f, r) \in Seq(Chars)
  BY RowType
<1>3. n \in Nat
  BY ScreenAssumption
<1>4. QED
  BY <1>1, <1>2, <1>3

(* A row that has been given one more character.                           *)
LEMMA RowGrows ==
  ASSUME EndsAt(cell, row, col), NEW ch \in Chars, ch # NUL
  PROVE  RowOf(Write(cell, row, col, ch), row) = Append(RowOf(cell, row), ch)
<1> DEFINE f == Write(cell, row, col, ch)
           s == RowOf(cell, row)
           t == RowOf(f, row)
<1>1. /\ cell \in [Rows \X Cols -> Chars] /\ row \in Rows /\ col \in Cols
  BY DEF EndsAt
<1>2. /\ f \in [Rows \X Cols -> Chars]
      /\ \A j \in Cols : f[<<row, j>>] = IF j = col THEN ch ELSE cell[<<row, j>>]
  BY <1>1 DEF Write
<1> HIDE DEF f
<1>3. col \in 0 .. Width /\ col + 1 \in 0 .. Width /\ col \in Nat
  BY <1>1, ScreenAssumption DEF Cols
<1>4. /\ s \in Seq(Chars) /\ Len(s) = col
      /\ \A c \in 1 .. col : s[c] = cell[<<row, c - 1>>]
  BY <1>1, <1>3, CurrentIs DEF EndsAt
<1>5. \A k \in Cols : f[<<row, k>>] # NUL <=> k < col + 1
  <2>1. \A j \in Cols : j < col + 1 <=> (j < col \/ j = col)
    BY <1>1 DEF Cols
  <2>2. QED
    BY <1>1, <1>2, <2>1 DEF EndsAt
<1>6. /\ t \in Seq(Chars) /\ Len(t) = col + 1
      /\ \A c \in 1 .. col + 1 : t[c] = f[<<row, c - 1>>]
  BY <1>1, <1>2, <1>3, <1>5, CurrentIs
<1>7. \A c \in 1 .. col : t[c] = s[c]
  <2>1. \A c \in 1 .. col : c \in 1 .. col + 1 /\ c - 1 \in Cols /\ c - 1 # col
    BY <1>1, ScreenAssumption DEF Cols
  <2>2. QED
    BY <1>2, <1>4, <1>6, <2>1
<1>8. t[col + 1] = ch
  <2>1. col + 1 \in 1 .. col + 1 /\ (col + 1) - 1 = col
    BY <1>3
  <2>2. QED
    BY <1>1, <1>2, <1>6, <2>1
<1> HIDE DEF s, t
<1>9. /\ Append(s, ch) \in Seq(Chars) /\ Len(Append(s, ch)) = col + 1
      /\ Append(s, ch)[col + 1] = ch
      /\ \A c \in 1 .. col : Append(s, ch)[c] = s[c]
  BY <1>3, <1>4
<1>10. \A c \in 1 .. col + 1 : t[c] = Append(s, ch)[c]
  <2>1. \A c \in 1 .. col + 1 : c \in 1 .. col \/ c = col + 1
    BY <1>3
  <2>2. QED
    BY <1>7, <1>8, <1>9, <2>1
<1>11. t = Append(s, ch)
  BY <1>6, <1>9, <1>10, SeqEqual
<1>12. QED
  BY <1>11 DEF s, t, f

(* Putting a glyph or a newline, ...                                       *)
LEMMA PutRefines ==
  ASSUME EndsAt(cell, row, col), NEW ch \in Glyphs, PutGlyph(ch)
  PROVE  Text!Put(ch)
<1> DEFINE f == Write(cell, row, col, ch)
           l == Append(Text!Current, ch)
<1>1. /\ cell \in [Rows \X Cols -> Chars] /\ row \in Rows /\ col \in Cols
      /\ ch \in Chars /\ ch # NUL
  BY ScreenAssumption DEF EndsAt, Chars
<1>2. Place(f, row, col + 1)
  BY DEF PutGlyph
<1>3. /\ col + 1 # Width => EndsAt(f, row, col + 1)
      /\ col + 1 = Width => Completes(f, row)
  BY GlyphWritten
<1>4. \A i \in Rows, j \in Cols : i < row => f[<<i, j>>] = cell[<<i, j>>]
  <2>1. \A i \in Rows : i < row => i # row
    BY <1>1 DEF Rows
  <2>2. QED
    BY <1>1, <2>1 DEF Write
<1>5. RowOf(f, row) = l
  BY <1>1, RowGrows, LinesParts
<1>6. Len(l) = col + 1
  <2>1. col \in 0 .. Width /\ col \in Nat
    BY <1>1, ScreenAssumption DEF Cols
  <2>2. RowOf(cell, row) \in Seq(Chars) /\ Len(RowOf(cell, row)) = col
    BY <1>1, <2>1, CurrentIs DEF EndsAt
  <2>3. QED
    BY <1>1, <2>1, <2>2, LinesParts
<1>7. CASE col + 1 # Width
  <2>1. f = cell' /\ row' = row
    <3>1. col + 1 \in Cols
      BY <1>3, <1>7 DEF EndsAt
    <3>2. row + (col + 1) \div Width = row /\ row # Height
      BY <1>1, <3>1, ColumnFacts, ScreenAssumption DEF Rows
    <3>3. QED
      BY <1>2, <3>2 DEF Place
  <2>2. EndsAt(cell', row', col')
    BY PutGlyphStep
  <2>3. MappedLines' = Append(Text!Done, l)
    BY <1>4, <1>5, <2>1, <2>2, StayStep
  <2>4. QED
    BY <1>6, <1>7, <2>3 DEF Text!Put
<1>8. CASE col + 1 = Width
  <2>1. row + Width \div Width = row + 1 /\ Width % Width = 0
    BY ColumnFacts
  <2>2. Place(f, row, Width)
    BY <1>2, <1>8
  <2> HIDE DEF f
  <2>3. Text!Complete(RowOf(f, row))
    BY <1>3, <1>4, <1>8, <2>1, <2>2, CompleteStep
  <2>4. QED
    BY <1>5, <1>6, <1>8, <2>3 DEF Text!Put
<1>9. QED
  BY <1>7, <1>8

(* '\n' is a line break of Terminal.                                       *)
LEMMA EndRefines ==
  ASSUME EndsAt(cell, row, col), PutNewline
  PROVE  Text!End
<1> DEFINE f == Write(cell, row, col, Newline)
<1>1. /\ cell \in [Rows \X Cols -> Chars] /\ row \in Rows /\ col \in Cols
      /\ Newline \in Chars /\ Newline # NUL
  BY DEF EndsAt, Chars, Newline, NUL
<1>2. Place(f, row + 1, 0)
  BY DEF PutNewline
<1>3. Completes(f, row)
  BY NewlineWritten
<1>4. \A i \in Rows, j \in Cols : i < row => f[<<i, j>>] = cell[<<i, j>>]
  <2>1. \A i \in Rows : i < row => i # row
    BY <1>1 DEF Rows
  <2>2. QED
    BY <1>1, <2>1 DEF Write
<1>5. RowOf(f, row) = Append(Text!Current, Newline)
  BY <1>1, RowGrows, LinesParts
<1>6. row + 1 + 0 \div Width = row + 1 /\ 0 % Width = 0
  BY <1>1, ColumnFacts DEF Rows
<1> HIDE DEF f
<1>7. Text!Complete(RowOf(f, row))
  BY <1>2, <1>3, <1>4, <1>6, CompleteStep
<1>8. QED
  BY <1>5, <1>7 DEF Text!End

(* A line without its last character.                                      *)
LEMMA RowShrinks ==
  ASSUME NEW f \in [Rows \X Cols -> Chars], NEW g \in [Rows \X Cols -> Chars],
         NEW r \in Rows, NEW n \in Cols,
         \A k \in Cols : f[<<r, k>>] # NUL <=> k < n + 1,
         \A k \in Cols : g[<<r, k>>] # NUL <=> k < n,
         \A k \in Cols : k # n => g[<<r, k>>] = f[<<r, k>>]
  PROVE  /\ RowOf(f, r) # <<>>
         /\ RowOf(g, r) = SubSeq(RowOf(f, r), 1, Len(RowOf(f, r)) - 1)
<1> DEFINE s == RowOf(f, r)
           t == RowOf(g, r)
<1>1. n \in 0 .. Width /\ n + 1 \in 0 .. Width /\ n \in Nat
  BY ScreenAssumption DEF Cols
<1>2. /\ s \in Seq(Chars) /\ Len(s) = n + 1
      /\ \A c \in 1 .. n + 1 : s[c] = f[<<r, c - 1>>]
  BY <1>1, CurrentIs
<1>3. /\ t \in Seq(Chars) /\ Len(t) = n
      /\ \A c \in 1 .. n : t[c] = g[<<r, c - 1>>]
  BY <1>1, CurrentIs
<1>4. \A c \in 1 .. n : t[c] = s[c]
  <2>1. \A c \in 1 .. n : c \in 1 .. n + 1 /\ c - 1 \in Cols /\ c - 1 # n
    BY ScreenAssumption DEF Cols
  <2>2. QED
    BY <1>2, <1>3, <2>1
<1> HIDE DEF s, t
<1>5. /\ SubSeq(s, 1, n) \in Seq(Chars) /\ Len(SubSeq(s, 1, n)) = n
      /\ \A c \in 1 .. n : SubSeq(s, 1, n)[c] = s[c]
  BY <1>1, <1>2
<1>6. t = SubSeq(s, 1, n)
  BY <1>3, <1>4, <1>5, SeqEqual
<1>7. Len(s) - 1 = n /\ s # <<>>
  BY <1>1, <1>2
<1>8. QED
  BY <1>6, <1>7 DEF s, t

(* ... and taking back the last character, inside a row or across the      *)
(* break to the row above.                                                 *)
LEMMA EraseRefines ==
  ASSUME EndsAt(cell, row, col), Backspace
  PROVE  Text!Erase
<1> DEFINE f == Write(cell, row, col - 1, NUL)
           l == Text!Current
<1>1. /\ cell \in [Rows \X Cols -> Chars] /\ row \in Rows /\ col \in Cols
      /\ NUL \in Chars
  BY DEF EndsAt, Chars
<1>2. col - 1 \in Cols /\ (col - 1) + 1 = col
  BY <1>1, ScreenAssumption DEF Backspace, Cols
<1>3. /\ f \in [Rows \X Cols -> Chars]
      /\ \A i \in Rows, j \in Cols :
           f[<<i, j>>] = IF i = row /\ j = col - 1 THEN NUL ELSE cell[<<i, j>>]
  BY <1>1, <1>2 DEF Write
<1>4. Place(f, row, col - 1)
  BY DEF Backspace
<1> HIDE DEF f
<1>5. EndsAt(cell', row', col')
  BY BackspaceStep
<1>6. cell' = f /\ row' = row /\ col' = col - 1
  <2>1. row + (col - 1) \div Width = row /\ (col - 1) % Width = col - 1 /\ row # Height
    BY <1>1, <1>2, ColumnFacts, ScreenAssumption DEF Rows
  <2>2. QED
    BY <1>4, <2>1 DEF Place
<1>7. \A i \in Rows, j \in Cols : i < row => cell'[<<i, j>>] = cell[<<i, j>>]
  <2>1. \A i \in Rows : i < row => i # row
    BY <1>1 DEF Rows
  <2>2. QED
    BY <1>3, <1>6, <2>1
<1>8. /\ \A k \in Cols : cell[<<row, k>>] # NUL <=> k < (col - 1) + 1
      /\ \A k \in Cols : f[<<row, k>>] # NUL <=> k < col - 1
      /\ \A k \in Cols : k # col - 1 => f[<<row, k>>] = cell[<<row, k>>]
  BY <1>1, <1>2, <1>3, <1>5, <1>6 DEF EndsAt
<1>9. l # <<>> /\ RowOf(cell', row) = SubSeq(l, 1, Len(l) - 1)
  <2>1. /\ RowOf(cell, row) # <<>>
        /\ RowOf(f, row) = SubSeq(RowOf(cell, row), 1, Len(RowOf(cell, row)) - 1)
    BY <1>1, <1>2, <1>3, <1>8, RowShrinks
  <2>2. QED
    BY <1>6, <2>1, LinesParts
<1>10. MappedLines' = Append(Text!Done, RowOf(cell', row))
  BY <1>5, <1>6, <1>7, StayStep
<1>11. QED
  BY <1>9, <1>10 DEF Text!Erase

(* '\b' at the beginning of a row erases the last character of the one     *)
(* above.                                                                  *)
LEMMA EraseRowRefines ==
  ASSUME EndsAt(cell, row, col), BackspaceRow
  PROVE  Text!Erase
<1> DEFINE e == Scan[2]
           q == row - 1
           f == Write(cell, q, e, NUL)
           d == Text!Done
           b == SubSeq(d, 1, Len(d) - 1)
           l == d[Len(d)]
<1>1. /\ cell \in [Rows \X Cols -> Chars] /\ row \in Rows
      /\ NUL \in Chars /\ row > 0 /\ col = 0
  BY DEF EndsAt, Chars, BackspaceRow
<1>2. q \in Rows /\ q \in Nat /\ q + 1 = row /\ q < row
  BY <1>1, ScreenAssumption DEF Rows
<1>3. /\ Scan[1] = q
      /\ e \in Cols
      /\ cell[<<q, e>>] # NUL
      /\ \A k \in Cols : cell[<<q, k>>] # NUL => k <= e
  BY <1>1, ScanFacts
<1>4. /\ f \in [Rows \X Cols -> Chars]
      /\ \A i \in Rows, j \in Cols :
           f[<<i, j>>] = IF i = q /\ j = e THEN NUL ELSE cell[<<i, j>>]
  BY <1>1, <1>2, <1>3 DEF Write
<1>5. Place(f, q, e)
  BY <1>3 DEF BackspaceRow
<1> HIDE DEF f, e, q
<1>6. EndsAt(cell', row', col')
  BY BackspaceRowStep
<1>7. cell' = f /\ row' = q /\ col' = e
  <2>1. q + e \div Width = q /\ e % Width = e /\ q # Height
    BY <1>2, <1>3, ColumnFacts, ScreenAssumption DEF Rows
  <2>2. QED
    BY <1>5, <2>1 DEF Place
<1>8. \A k \in Cols : cell[<<q, k>>] # NUL <=> k < e + 1
  <2>1. \A k \in Cols : (k < e + 1 <=> k <= e) /\ (k <= e <=> k < e \/ k = e)
    BY <1>3 DEF Cols
  <2>2. \A k \in Cols : k < e => cell[<<q, k>>] # NUL
    BY <1>2, <1>3 DEF EndsAt
  <2>3. QED
    BY <1>3, <2>1, <2>2
<1>9. \A k \in Cols : f[<<q, k>>] # NUL <=> k < e
  BY <1>6, <1>7 DEF EndsAt
<1>10. \A k \in Cols : k # e => f[<<q, k>>] = cell[<<q, k>>]
  BY <1>2, <1>4
<1>11. /\ RowOf(cell, q) # <<>>
       /\ RowOf(f, q) = SubSeq(RowOf(cell, q), 1, Len(RowOf(cell, q)) - 1)
  BY ZenonT(30), <1>1, <1>2, <1>3, <1>4, <1>8, <1>9, <1>10, RowShrinks
<1>12. /\ d \in Seq(Seq(Chars)) /\ Len(d) = row
       /\ \A i \in 1 .. row : d[i] = RowOf(cell, i - 1)
  BY LinesParts
<1>13. Text!Current = <<>>
  <2>1. \A k \in Cols : cell[<<row, k>>] = NUL
    <3>1. \A k \in Cols : ~ (k < col)
      BY <1>1 DEF Cols
    <3>2. QED
      BY <3>1 DEF EndsAt
  <2>2. QED
    BY <2>1, RowEmpty, LinesParts
<1> HIDE DEF d
<1>14. l = RowOf(cell, q) /\ d # <<>>
  <2>1. row \in 1 .. row /\ row - 1 = q
    BY <1>1, <1>2 DEF Rows
  <2>2. QED
    BY <1>12, <2>1
<1>15. /\ b \in Seq(Seq(Chars)) /\ Len(b) = q
       /\ \A i \in 1 .. q : b[i] = d[i]
  <2>1. Len(d) - 1 = q /\ q <= Len(d)
    BY <1>2, <1>12
  <2>2. QED
    BY <1>2, <1>12, <2>1
<1>16. \A i \in 1 .. q : b[i] = RowOf(f, i - 1)
  <2>1. ASSUME NEW i \in 1 .. q PROVE b[i] = RowOf(f, i - 1)
    <3>1. i \in 1 .. row /\ i - 1 \in Rows /\ i - 1 # q
      BY <1>2, ScreenAssumption DEF Rows
    <3>2. \A k \in Cols : f[<<i - 1, k>>] = cell[<<i - 1, k>>]
      BY <1>4, <3>1
    <3>3. RowOf(f, i - 1) = RowOf(cell, i - 1)
      BY <3>2, RowSame
    <3>4. QED
      BY <1>12, <1>15, <3>1, <3>3
  <2>2. QED
    BY <2>1
<1> HIDE DEF b, l
<1>17. MappedLines' = Append(b, RowOf(f, q))
  BY <1>2, <1>4, <1>7, <1>15, <1>16, LinesAppend, MappedIsNext
<1>18. MappedLines' = Append(b, SubSeq(l, 1, Len(l) - 1))
  BY <1>11, <1>14, <1>17
<1>19. QED
  BY <1>13, <1>14, <1>18 DEF Text!Erase, b, l, d

(* An empty screen stands for one empty line.                              *)
LEMMA EmptyLines == LinesOf(Blanks, 0) = <<<<>>>>
<1>1. 0 \in Rows
  BY ScreenAssumption DEF Rows
<1>2. \A k \in Cols : Blanks[<<0, k>>] = NUL
  BY <1>1 DEF Blanks
<1>3. RowOf(Blanks, 0) = <<>>
  BY <1>2, RowEmpty
<1>4. LinesOf(Blanks, 0) = [i \in 1 .. 1 |-> <<>>]
  <2>1. \A i \in 1 .. 1 : i - 1 = 0
    OBVIOUS
  <2>2. LinesOf(Blanks, 0) = [i \in 1 .. 1 |-> RowOf(Blanks, i - 1)]
    BY DEF LinesOf
  <2>3. QED
    BY <1>3, <2>1, <2>2
<1>5. QED
  BY <1>4

(* The screen implements the terminal, for every width, height and set of  *)
(* characters: cells, cursor, wrapping, scrolling and the backward scan of *)
(* '\b' come to appending to a text and taking back its last character.    *)
THEOREM TerminalImplemented == Spec => ImplementsTerminal
<1>1. Init => Text!Init
  BY MappedIs, EmptyLines DEF Init, Text!Init
<1>2. Inv /\ [Next]_screen => [Text!Next]_MappedLines
  <2> SUFFICES ASSUME Inv, [Next]_screen PROVE [Text!Next]_MappedLines
    OBVIOUS
  <2>1. EndsAt(cell, row, col)
    BY InvMeansEnd
  <2>2. CASE Clear
    BY <2>2, EmptyLines, MappedIsNext DEF Clear, Text!Next, Text!Wipe
  <2>3. ASSUME NEW ch \in Glyphs, PutGlyph(ch) PROVE Text!Next
    BY <2>1, <2>3, PutRefines DEF Text!Next
  <2>4. CASE PutNewline
    BY <2>1, <2>4, EndRefines DEF Text!Next
  <2>5. CASE Backspace
    BY <2>1, <2>5, EraseRefines DEF Text!Next
  <2>6. CASE BackspaceRow
    BY <2>1, <2>6, EraseRowRefines DEF Text!Next
  <2>7. CASE BackspaceNothing
    <3>1. row \in Rows /\ col \in Cols
      BY <2>1 DEF EndsAt
    <3>2. row + col \div Width = row /\ row # Height
      BY <3>1, ColumnFacts, ScreenAssumption DEF Rows
    <3>3. cell' = cell /\ row' = row
      BY <2>7, <3>2 DEF BackspaceNothing, Place
    <3>4. QED
      BY <3>3, MappedIs, MappedIsNext
  <2>8. CASE UNCHANGED screen
    BY <2>8, MappedIs, MappedIsNext DEF screen
  <2>9. QED
    BY <2>2, <2>3, <2>4, <2>5, <2>6, <2>7, <2>8 DEF Next
<1>3. QED
  BY <1>1, <1>2, ScreenCorrect, PTL DEF Spec, ImplementsTerminal, Text!Spec

=============================================================================
