--------------------------- MODULE Console_proofs ---------------------------
(***************************************************************************)
(* Proofs about the input loop of the shell, for every screen, every limit *)
(* on the line, and every order of keyboard interrupts and steps of the    *)
(* shell.  That the text on the screen has no gap is taken from the proofs *)
(* about the screen, module Framebuffer_proofs.                            *)
(***************************************************************************)
EXTENDS Console, SequenceTheorems, FiniteSetTheorems, WellFoundedInduction, TLAPS

(* The proofs about the screen, for the characters that the shell prints.  *)
Fbp == INSTANCE Framebuffer_proofs WITH
  Glyphs <- Letters \cup {PromptCh, OutCh}

-----------------------------------------------------------------------------
(* The proofs about the screen speak about the screen of the console.      *)
LEMMA SameScreen ==
  /\ Fbp!Rows = Scr!Rows
  /\ Fbp!Cols = Scr!Cols
  /\ Fbp!Chars = Scr!Chars
  /\ Fbp!NUL = Scr!NUL
  /\ Fbp!Blanks = Scr!Blanks
  /\ Fbp!OffScreen = Scr!OffScreen
BY DEF Fbp!Rows, Scr!Rows, Fbp!Cols, Scr!Cols, Fbp!Chars, Scr!Chars, Fbp!NUL, Scr!NUL, Fbp!Newline, Scr!Newline, Fbp!Blanks, Scr!Blanks, Fbp!OffScreen, Scr!OffScreen

(* So do their steps.                                                      *)
LEMMA SameSteps ==
  /\ \A ch : Fbp!PutGlyph(ch) <=> Scr!PutGlyph(ch)
  /\ Fbp!PutNewline <=> Scr!PutNewline
  /\ Fbp!Backspace <=> Scr!Backspace
  /\ Fbp!BackspaceRow <=> Scr!BackspaceRow
  /\ Fbp!BackspaceNothing <=> Scr!BackspaceNothing
<1>1. \A f, r, c, ch : Fbp!Write(f, r, c, ch) = Scr!Write(f, r, c, ch)
  BY DEF Fbp!Write, Scr!Write
<1>2. \A f : Fbp!ShiftUp(f) = Scr!ShiftUp(f)
  BY SameScreen DEF Fbp!ShiftUp, Scr!ShiftUp
<1>3. ASSUME NEW STATE f, NEW STATE r, NEW STATE c
      PROVE  Fbp!Place(f, r, c) <=> Scr!Place(f, r, c)
  BY <1>2 DEF Fbp!Place, Scr!Place
<1>4. Fbp!Scan = Scr!Scan
  BY SameScreen DEF Fbp!Scan, Scr!Scan, Fbp!Before, Scr!Before, Fbp!Sooner, Scr!Sooner
<1>5. QED
  BY <1>1, <1>3, <1>4, SameScreen DEF Fbp!PutGlyph, Scr!PutGlyph, Fbp!PutNewline, Scr!PutNewline, Fbp!Backspace, Scr!Backspace, Fbp!BackspaceRow, Scr!BackspaceRow, Fbp!BackspaceNothing, Scr!BackspaceNothing, Fbp!Newline, Scr!Newline

-----------------------------------------------------------------------------
(* Induction over the natural numbers, and functions that are defined by   *)
(* recursion over them, in the form in which proofs about loops use them:  *)
(* with a set or a function in the place of a predicate or an operator.    *)

(* A nonempty set of natural numbers has a least member.                   *)
LEMMA LeastNumber ==
  ASSUME NEW S \in SUBSET Nat, S # {}
  PROVE  \E x \in S : \A y \in S : x <= y
<1> DEFINE Less == {p \in Nat \X Nat : p[1] < p[2]}
<1>1. IsWellFoundedOn(Less, Nat)
  BY NatLessThanWellFounded DEF OpToRel
<1> HIDE DEF Less
<1>2. PICK x \in S : \A y \in S : ~ (<<y, x>> \in Less)
  BY <1>1, WFMin
<1>3. ASSUME NEW y \in S PROVE x <= y
  <2>1. x \in Nat /\ y \in Nat
    OBVIOUS
  <2>2. y < x => <<y, x>> \in Less
    BY <2>1 DEF Less
  <2>3. QED
    BY <1>2, <2>1, <2>2
<1>4. QED
  BY <1>3

(* A set that has 0 and with each number below N the next one has all      *)
(* numbers up to N.                                                        *)
LEMMA UpTo ==
  ASSUME NEW N \in Nat, NEW S, 0 \in S,
         \A n \in 0 .. N - 1 : n \in S => n + 1 \in S
  PROVE  \A n \in 0 .. N : n \in S
<1> DEFINE Bad == {n \in 0 .. N : n \notin S}
<1>1. SUFFICES ASSUME Bad # {} PROVE FALSE
  OBVIOUS
<1>2. Bad \in SUBSET Nat
  OBVIOUS
<1>3. PICK x \in Bad : \A y \in Bad : x <= y
  BY <1>1, <1>2, LeastNumber
<1>4. x \in 0 .. N /\ x \notin S /\ x # 0
  BY <1>3
<1>5. x - 1 \in 0 .. N - 1 /\ x - 1 \in 0 .. N /\ ~ (x <= x - 1)
  BY <1>4
<1>6. x - 1 \in S
  BY <1>3, <1>5
<1>7. (x - 1) + 1 \in S
  BY <1>5, <1>6
<1>8. (x - 1) + 1 = x
  BY <1>4
<1>9. QED
  BY <1>4, <1>7, <1>8

(* A function on 0 .. N with values in X that starts with a and goes on by *)
(* the given step.                                                         *)
Recursion(f, N, X, a, step) ==
  /\ f \in [0 .. N -> X]
  /\ f[0] = a
  /\ \A n \in 1 .. N : f[n] = step[<<f[n - 1], n>>]

(* There is such a function.                                               *)
LEMMA RecursionExists ==
  ASSUME NEW N \in Nat, NEW X, NEW a \in X,
         NEW step \in [X \X (1 .. N) -> X]
  PROVE  \E f : Recursion(f, N, X, a, step)
<1> DEFINE Fits(f, k) == f[0] = a /\ \A n \in 1 .. k : f[n] = step[<<f[n - 1], n>>]
           S == {k \in 0 .. N : \E f \in [0 .. k -> X] : Fits(f, k)}
<1>1. 0 \in S
  <2> DEFINE f == [n \in 0 .. 0 |-> a]
  <2>1. f \in [0 .. 0 -> X] /\ f[0] = a
    OBVIOUS
  <2>2. \A n \in 1 .. 0 : FALSE
    OBVIOUS
  <2>3. Fits(f, 0)
    BY <2>1, <2>2
  <2> HIDE DEF f, Fits
  <2>4. \E h \in [0 .. 0 -> X] : Fits(h, 0)
    BY <2>1, <2>3
  <2>5. 0 \in 0 .. N
    OBVIOUS
  <2>6. QED
    BY <2>4, <2>5
<1>2. ASSUME NEW k \in 0 .. N - 1, k \in S PROVE k + 1 \in S
  <2>1. PICK f \in [0 .. k -> X] : Fits(f, k)
    BY <1>2
  <2> DEFINE g == [n \in 0 .. k + 1 |->
                     IF n = k + 1 THEN step[<<f[k], k + 1>>] ELSE f[n]]
  <2>2. step[<<f[k], k + 1>>] \in X
    OBVIOUS
  <2>3. g \in [0 .. k + 1 -> X]
    BY <2>2
  <2>4. g[0] = a
    BY <2>1
  <2>5. ASSUME NEW n \in 1 .. k + 1 PROVE g[n] = step[<<g[n - 1], n>>]
    <3>1. CASE n = k + 1
      <4>1. g[n] = step[<<f[k], k + 1>>] /\ g[k] = f[k] /\ n - 1 = k
        BY <3>1
      <4>2. QED
        BY <3>1, <4>1, Zenon
    <3>2. CASE n # k + 1
      <4>1. n \in 1 .. k /\ n - 1 \in 0 .. k /\ n \in 0 .. k
        BY <3>2
      <4>2. g[n] = f[n] /\ g[n - 1] = f[n - 1]
        BY <3>2, <4>1
      <4>3. QED
        BY <2>1, <4>1, <4>2
    <3>3. QED
      BY <3>1, <3>2
  <2> HIDE DEF g
  <2>6. Fits(g, k + 1)
    BY <2>4, <2>5
  <2>7. k + 1 \in 0 .. N
    OBVIOUS
  <2>8. QED
    BY <2>3, <2>6, <2>7
<1> HIDE DEF S
<1>3. \A k \in 0 .. N : k \in S
  BY <1>1, <1>2, UpTo
<1>4. N \in S
  BY <1>3
<1>5. QED
  BY <1>4 DEF S, Recursion

-----------------------------------------------------------------------------
(* The line editor that the shell is compared with.                        *)

(* What one key makes of the line.                                         *)
EditStep(line, k) ==
  IF k = BS THEN SubSeq(line, 1, Len(line) - 1)
  ELSE IF k = Newline \/ Len(line) = MaxLength - 1 THEN line
  ELSE Append(line, k)

Keys == Kbd!Scanned

(* A line stays a line.                                                    *)
LEMMA EditStepType ==
  ASSUME NEW l \in Seq(Keys), NEW k \in Keys
  PROVE  EditStep(l, k) \in Seq(Keys)
<1>1. SubSeq(l, 1, Len(l) - 1) \in Seq(Keys)
  OBVIOUS
<1>2. Append(l, k) \in Seq(Keys)
  OBVIOUS
<1>3. QED
  BY <1>1, <1>2 DEF EditStep

(* The function that Edited is defined by.                                 *)
EditRun(e, keys) ==
  e = [n \in 0 .. Len(keys) |->
        CASE n = 0 -> <<>>
          [] n > 0 /\ keys[n] = BS ->
               SubSeq(e[n - 1], 1, Len(e[n - 1]) - 1)
          [] OTHER ->
               IF keys[n] = Newline \/ Len(e[n - 1]) = MaxLength - 1
                 THEN e[n - 1] ELSE Append(e[n - 1], keys[n])]

(* Edited goes over the keys one by one.                                   *)
LEMMA EditedRun ==
  ASSUME NEW keys \in Seq(Keys)
  PROVE  \E f \in [0 .. Len(keys) -> Seq(Keys)] :
           /\ f[0] = <<>>
           /\ \A n \in 1 .. Len(keys) : f[n] = EditStep(f[n - 1], keys[n])
           /\ Edited(keys) = f[Len(keys)]
<1> DEFINE N == Len(keys)
           L == Seq(Keys)
           step == [p \in L \X (1 .. N) |-> EditStep(p[1], keys[p[2]])]
           e == CHOOSE f : EditRun(f, keys)
<1>1. N \in Nat /\ \A n \in 1 .. N : keys[n] \in Keys
  OBVIOUS
<1>2. step \in [L \X (1 .. N) -> L]
  <2>1. \A p \in L \X (1 .. N) : EditStep(p[1], keys[p[2]]) \in L
    BY <1>1, EditStepType
  <2>2. QED
    BY <2>1
<1>3. <<>> \in L
  OBVIOUS
<1>4. PICK f \in [0 .. N -> L] :
        f[0] = <<>> /\ \A n \in 1 .. N : f[n] = step[<<f[n - 1], n>>]
  <2> DEFINE a == <<>>
  <2>1. a \in L /\ N \in Nat
    BY <1>1, <1>3
  <2> HIDE DEF step, N, L, a
  <2>2. \E f : Recursion(f, N, L, a, step)
    BY <1>2, <2>1, RecursionExists
  <2>3. QED
    BY <2>2 DEF Recursion, a
<1>5. \A n \in 1 .. N : f[n] = EditStep(f[n - 1], keys[n])
  <2>1. \A n \in 1 .. N : f[n - 1] \in L
    BY <1>1
  <2>2. \A n \in 1 .. N : <<f[n - 1], n>> \in L \X (1 .. N)
    BY <2>1
  <2> HIDE DEF L, N
  <2>3. QED
    BY <1>4, <2>2, Zenon
<1>6. EditRun(f, keys)
  <2>1. \A n \in 0 .. N : f[n] =
        CASE n = 0 -> <<>>
          [] n > 0 /\ keys[n] = BS ->
               SubSeq(f[n - 1], 1, Len(f[n - 1]) - 1)
          [] OTHER ->
               IF keys[n] = Newline \/ Len(f[n - 1]) = MaxLength - 1
                 THEN f[n - 1] ELSE Append(f[n - 1], keys[n])
    <3> SUFFICES ASSUME NEW n \in 0 .. N PROVE f[n] =
        CASE n = 0 -> <<>>
          [] n > 0 /\ keys[n] = BS ->
               SubSeq(f[n - 1], 1, Len(f[n - 1]) - 1)
          [] OTHER ->
               IF keys[n] = Newline \/ Len(f[n - 1]) = MaxLength - 1
                 THEN f[n - 1] ELSE Append(f[n - 1], keys[n])
      OBVIOUS
    <3>1. CASE n = 0
      BY <1>4, <3>1
    <3>2. CASE n # 0
      <4>1. n > 0 /\ n \in 1 .. N
        BY <1>1, <3>2
      <4>2. f[n] = EditStep(f[n - 1], keys[n])
        BY <1>5, <4>1
      <4>3. QED
        BY <4>1, <4>2, <3>2 DEF EditStep
    <3>3. QED
      BY <3>1, <3>2
  <2>2. QED
    BY <2>1 DEF EditRun
<1>7. EditRun(e, keys)
  BY <1>6
<1>8. Edited(keys) = e[N]
  BY DEF Edited, EditRun
<1>9. e[0] = <<>> /\ \A n \in 1 .. N : e[n] = EditStep(e[n - 1], keys[n])
  <2> HIDE DEF e
  <2>1. e[0] = <<>>
    BY <1>1, <1>7 DEF EditRun
  <2>2. ASSUME NEW n \in 1 .. N PROVE e[n] = EditStep(e[n - 1], keys[n])
    <3>1. n \in 0 .. N /\ n # 0 /\ n > 0
      BY <1>1
    <3>2. e[n] =
        CASE n = 0 -> <<>>
          [] n > 0 /\ keys[n] = BS ->
               SubSeq(e[n - 1], 1, Len(e[n - 1]) - 1)
          [] OTHER ->
               IF keys[n] = Newline \/ Len(e[n - 1]) = MaxLength - 1
                 THEN e[n - 1] ELSE Append(e[n - 1], keys[n])
      BY <1>7, <3>1, Zenon DEF EditRun
    <3>3. QED
      BY <3>1, <3>2 DEF EditStep
  <2>3. QED
    BY <2>1, <2>2
<1>10. \A n \in 0 .. N : e[n] = f[n]
  <2> DEFINE S == {n \in 0 .. N : e[n] = f[n]}
  <2> HIDE DEF e
  <2>1. 0 \in S
    BY <1>1, <1>4, <1>9
  <2>2. ASSUME NEW n \in 0 .. N - 1, n \in S PROVE n + 1 \in S
    <3>1. n + 1 \in 1 .. N /\ (n + 1) - 1 = n
      BY <1>1
    <3>2. e[n + 1] = EditStep(e[n], keys[n + 1])
      BY <1>9, <3>1
    <3>3. f[n + 1] = EditStep(f[n], keys[n + 1])
      BY <1>5, <3>1
    <3>4. QED
      BY <2>2, <3>1, <3>2, <3>3
  <2> HIDE DEF S
  <2>3. \A n \in 0 .. N : n \in S
    BY <1>1, <2>1, <2>2, UpTo
  <2>4. QED
    BY <2>3 DEF S
<1>11. QED
  BY <1>1, <1>4, <1>5, <1>8, <1>10

(* Without keys there is no line.                                          *)
LEMMA EditedEmpty == Edited(<<>>) = <<>>
<1>1. <<>> \in Seq(Keys) /\ Len(<<>>) = 0
  OBVIOUS
<1>2. QED
  BY <1>1, EditedRun

(* One key more.                                                           *)
LEMMA EditedAppend ==
  ASSUME NEW keys \in Seq(Keys), NEW k \in Keys
  PROVE  /\ Edited(Append(keys, k)) = EditStep(Edited(keys), k)
         /\ Edited(keys) \in Seq(Keys)
<1> DEFINE more == Append(keys, k)
           N == Len(keys)
<1>1. /\ more \in Seq(Keys)
      /\ N \in Nat
      /\ Len(more) = N + 1
      /\ \A n \in 1 .. N : more[n] = keys[n]
      /\ more[N + 1] = k
  OBVIOUS
<1>2. PICK f \in [0 .. N -> Seq(Keys)] :
        /\ f[0] = <<>>
        /\ \A n \in 1 .. N : f[n] = EditStep(f[n - 1], keys[n])
        /\ Edited(keys) = f[N]
  BY EditedRun
<1> HIDE DEF more
<1>3. PICK g \in [0 .. Len(more) -> Seq(Keys)] :
        /\ g[0] = <<>>
        /\ \A n \in 1 .. Len(more) : g[n] = EditStep(g[n - 1], more[n])
        /\ Edited(more) = g[Len(more)]
  BY <1>1, EditedRun
<1> HIDE DEF N
<1>4. \A n \in 0 .. N : f[n] = g[n]
  <2> DEFINE S == {n \in 0 .. N : f[n] = g[n]}
  <2>1. 0 \in S
    BY <1>1, <1>2, <1>3
  <2>2. ASSUME NEW n \in 0 .. N - 1, n \in S PROVE n + 1 \in S
    <3>1. n + 1 \in 1 .. N /\ n + 1 \in 1 .. Len(more) /\ (n + 1) - 1 = n
      BY <1>1
    <3>2. f[n + 1] = EditStep(f[n], keys[n + 1])
      BY <1>2, <3>1
    <3>3. g[n + 1] = EditStep(g[n], keys[n + 1])
      BY <1>1, <1>3, <3>1
    <3>4. QED
      BY <2>2, <3>1, <3>2, <3>3
  <2> HIDE DEF S
  <2>3. \A n \in 0 .. N : n \in S
    BY <1>1, <2>1, <2>2, UpTo
  <2>4. QED
    BY <2>3 DEF S
<1>5. g[N + 1] = EditStep(g[N], k)
  <2>1. N + 1 \in 1 .. Len(more) /\ (N + 1) - 1 = N
    BY <1>1
  <2>2. QED
    BY <1>1, <1>3, <2>1
<1>6. N \in 0 .. N
  BY <1>1
<1>7. QED
  BY <1>1, <1>2, <1>3, <1>4, <1>5, <1>6 DEF more
-----------------------------------------------------------------------------
(* The line in the buffer.                                                 *)

LineOf(buf, n) == [i \in 1 .. n |-> buf[i - 1]]

(* A line that the buffer has room for.                                    *)
LEMMA LineSeq ==
  ASSUME NEW buf \in [Places -> Keys], NEW n \in 0 .. MaxLength - 1
  PROVE  /\ LineOf(buf, n) \in Seq(Keys)
         /\ Len(LineOf(buf, n)) = n
         /\ \A i \in 1 .. n : LineOf(buf, n)[i] = buf[i - 1]
<1>1. n \in Nat /\ MaxLength \in Nat
  BY ConsoleAssumption
<1>2. \A i \in 1 .. n : i - 1 \in Places
  BY <1>1 DEF Places
<1>3. LineOf(buf, n) \in [1 .. n -> Keys]
  BY <1>2 DEF LineOf
<1>4. QED
  BY <1>1, <1>3 DEF LineOf

(* A character behind the line makes it longer.                            *)
LEMMA LineAppend ==
  ASSUME NEW buf \in [Places -> Keys], NEW n \in 0 .. MaxLength - 1,
         n < MaxLength - 1, NEW k \in Keys
  PROVE  LineOf([buf EXCEPT ![n] = k], n + 1) = Append(LineOf(buf, n), k)
<1> DEFINE new == [buf EXCEPT ![n] = k]
<1>1. n \in Nat /\ MaxLength \in Nat
  BY ConsoleAssumption
<1>2. n + 1 \in 0 .. MaxLength - 1 /\ n \in Places
  BY <1>1 DEF Places
<1>3. new \in [Places -> Keys]
  OBVIOUS
<1>4. /\ LineOf(new, n + 1) \in Seq(Keys)
      /\ Len(LineOf(new, n + 1)) = n + 1
      /\ \A i \in 1 .. n + 1 : LineOf(new, n + 1)[i] = new[i - 1]
  BY <1>2, <1>3, LineSeq
<1>5. /\ LineOf(buf, n) \in Seq(Keys)
      /\ Len(LineOf(buf, n)) = n
      /\ \A i \in 1 .. n : LineOf(buf, n)[i] = buf[i - 1]
  BY LineSeq
<1>6. \A i \in 1 .. n : new[i - 1] = buf[i - 1]
  <2>1. \A i \in 1 .. n : i - 1 \in Places /\ i - 1 # n
    BY <1>1 DEF Places
  <2>2. QED
    BY <2>1
<1>7. new[n] = k
  BY <1>2
<1> HIDE DEF new
<1> DEFINE a == LineOf(new, n + 1)
           b == LineOf(buf, n)
<1>8. a \in Seq(Keys) /\ Len(a) = n + 1 /\ a[n + 1] = k
  BY <1>1, <1>4, <1>7
<1>9. b \in Seq(Keys) /\ Len(b) = n /\ \A i \in 1 .. n : a[i] = b[i]
  <2>1. \A i \in 1 .. n : i \in 1 .. n + 1
    BY <1>1
  <2>2. QED
    BY <1>4, <1>5, <1>6, <2>1
<1> HIDE DEF a, b
<1>10. a = Append(b, k)
  BY <1>1, <1>8, <1>9
<1>11. QED
  BY <1>10 DEF a, b, new

(* Clearing the place behind the line and counting one less takes the last *)
(* character away.                                                         *)
LEMMA LineShorter ==
  ASSUME NEW buf \in [Places -> Keys], NEW n \in 0 .. MaxLength - 1, n > 0
  PROVE  LineOf([buf EXCEPT ![n] = NUL], n - 1)
           = SubSeq(LineOf(buf, n), 1, Len(LineOf(buf, n)) - 1)
<1> DEFINE new == [buf EXCEPT ![n] = NUL]
<1>1. n \in Nat /\ MaxLength \in Nat
  BY ConsoleAssumption
<1>2. n - 1 \in 0 .. MaxLength - 1
  BY <1>1
<1>3. new \in [Places -> Keys]
  BY DEF Keys, Kbd!Scanned, NUL
<1>4. /\ LineOf(new, n - 1) \in Seq(Keys)
      /\ Len(LineOf(new, n - 1)) = n - 1
      /\ \A i \in 1 .. n - 1 : LineOf(new, n - 1)[i] = new[i - 1]
  BY <1>2, <1>3, LineSeq
<1>5. /\ LineOf(buf, n) \in Seq(Keys)
      /\ Len(LineOf(buf, n)) = n
      /\ \A i \in 1 .. n : LineOf(buf, n)[i] = buf[i - 1]
  BY LineSeq
<1>6. \A i \in 1 .. n - 1 : new[i - 1] = buf[i - 1]
  <2>1. \A i \in 1 .. n - 1 : i - 1 \in Places /\ i - 1 # n
    BY <1>1 DEF Places
  <2>2. QED
    BY <2>1
<1> HIDE DEF new
<1> DEFINE a == LineOf(new, n - 1)
           b == LineOf(buf, n)
<1>7. a \in Seq(Keys) /\ Len(a) = n - 1
  BY <1>4
<1>8. b \in Seq(Keys) /\ Len(b) = n /\ \A i \in 1 .. n - 1 : a[i] = b[i]
  BY <1>1, <1>4, <1>5, <1>6
<1> HIDE DEF a, b
<1>9. a = SubSeq(b, 1, n - 1)
  BY <1>1, <1>7, <1>8
<1>10. QED
  BY <1>5, <1>9 DEF a, b, new
-----------------------------------------------------------------------------
(* The inductive invariant: the text on the screen ends at the cursor, the *)
(* key in hand is the last one that was read, and the line is what the     *)
(* keys before it make.                                                    *)
ScreenEnds == Fbp!EndsAt(cell, row, col)

(* A key is in hand.                                                       *)
KeyInHand == pc = "got" => charBuffer # NUL

(* The line is what the keys that were dealt with make of it.              *)
LineInv ==
  /\ pc = "got" =>
       \E t \in Seq(Keys) : taken = Append(t, charBuffer) /\ Line = Edited(t)
  /\ LineIsEdited

(* The whole of it.                                                        *)
Inv ==
  /\ TypeOK /\ ScreenEnds /\ KeyInHand /\ Terminated /\ LineInv /\ NoGhostKeys

(* The characters.                                                         *)
LEMMA CharFacts ==
  /\ NUL \in Keys /\ BS \in Keys /\ Newline \in Keys /\ Letters \subseteq Keys
  /\ \A k \in Keys : k \notin {NUL, BS, Newline} => k \in Letters
  /\ Newline # NUL /\ Newline # BS /\ BS # NUL
  /\ NUL \notin Letters /\ BS \notin Letters /\ Newline \notin Letters
  /\ Keys = Kbd!Scanned
  /\ 0 \in 0 .. MaxLength - 1
  /\ MaxLength - 1 \in Places
BY ConsoleAssumption DEF Keys, Kbd!Scanned, NUL, BS, Newline, Kbd!NUL,
                         Kbd!Newline, Places

(* A screen with a text that ends at the cursor is a screen.               *)
LEMMA ScreenType == ScreenEnds => Scr!TypeOK
BY SameScreen DEF ScreenEnds, Fbp!EndsAt, Scr!TypeOK

(* The assumption of the proofs about the screen.                          *)
LEMMA GlyphFacts ==
  /\ Width \in 1 .. 255
  /\ Height \in 1 .. 255
  /\ Fbp!NUL \notin Letters \cup {PromptCh, OutCh}
  /\ Fbp!Newline \notin Letters \cup {PromptCh, OutCh}
BY ConsoleAssumption DEF Fbp!NUL, Fbp!Newline, PromptCh, OutCh

(* What the shell does to the screen keeps its text together.              *)
LEMMA ScreenKept ==
  ASSUME ScreenEnds,
         \/ \E ch \in Letters \cup {PromptCh, OutCh} : Scr!PutGlyph(ch)
         \/ Scr!PutNewline
         \/ ScreenBackspace
         \/ UNCHANGED scrVars
  PROVE  ScreenEnds'
<1>1. Fbp!EndsAt(cell, row, col)
  BY DEF ScreenEnds
<1>2. SUFFICES Fbp!EndsAt(cell', row', col')
  BY DEF ScreenEnds, Fbp!EndsAt
<1>3. ASSUME NEW ch \in Letters \cup {PromptCh, OutCh}, Scr!PutGlyph(ch)
      PROVE  Fbp!EndsAt(cell', row', col')
  <2>1. Fbp!PutGlyph(ch)
    BY <1>3, SameSteps
  <2>2. QED
    BY <1>1, <2>1, Fbp!PutGlyphStep, GlyphFacts
<1>4. CASE Scr!PutNewline
  BY <1>1, <1>4, SameSteps, Fbp!PutNewlineStep, GlyphFacts
<1>5. CASE Scr!Backspace
  BY <1>1, <1>5, SameSteps, Fbp!BackspaceStep, GlyphFacts
<1>6. CASE Scr!BackspaceRow
  BY <1>1, <1>6, SameSteps, Fbp!BackspaceRowStep, GlyphFacts
<1>7. CASE Scr!BackspaceNothing
  <2>1. Fbp!Place(cell, row, col)
    BY <1>7, SameSteps DEF Fbp!BackspaceNothing
  <2>2. QED
    BY <1>1, <2>1, Fbp!PlaceInside, GlyphFacts
<1>8. CASE UNCHANGED scrVars
  BY <1>1, <1>8 DEF scrVars
<1>9. QED
  BY <1>3, <1>4, <1>5, <1>6, <1>7, <1>8 DEF ScreenBackspace

(* The console starts in a state of the invariant.                         *)
LEMMA InitInv == Init => Inv
<1> SUFFICES ASSUME Init PROVE Inv
  OBVIOUS
<1> USE DEF Init
<1>1. ScreenEnds
  <2>1. Fbp!EndsAt(Fbp!Blanks, 0, 0)
    BY Fbp!EmptyScreen, GlyphFacts
  <2>2. QED
    BY <2>1, SameScreen DEF Scr!Init, ScreenEnds
<1>2. TypeOK
  <2>1. Kbd!TypeOK
    <3>1. 0 \in 0 .. ColRange - 1
      BY ConsoleAssumption
    <3>2. QED
      BY <3>1 DEF Kbd!Init, Kbd!TypeOK, Kbd!Scanned
  <2>2. inputBuffer \in [Places -> Kbd!Scanned]
    BY CharFacts DEF Cleared
  <2>3. taken \in Seq(Kbd!Scanned)
    OBVIOUS
  <2>4. QED
    BY <1>1, <2>1, <2>2, <2>3, CharFacts, ScreenType, ConsoleAssumption DEF TypeOK
<1>3. Terminated
  <2>1. \A i \in Places : ~ (i < inputLength)
    BY DEF Places
  <2>2. QED
    BY <2>1, CharFacts DEF Terminated, Cleared
<1>4. LineInv
  <2>1. Line = <<>>
    BY DEF Line
  <2>2. QED
    BY <2>1, EditedEmpty DEF LineInv, LineIsEdited
<1>5. NoGhostKeys
  BY DEF NoGhostKeys, Kbd!Init, NUL
<1>6. QED
  BY <1>1, <1>2, <1>3, <1>4, <1>5 DEF Inv, KeyInHand
(* A key is pressed or released.                                           *)
LEMMA InterruptInv ==
  ASSUME Inv, NEW ch \in Kbd!Scanned, KeyboardInterrupt(ch)
  PROVE  Inv'
<1>1. /\ UNCHANGED <<cell, row, col, pc, charBuffer, inputBuffer, inputLength,
                     taken, reads, input_on>>
      /\ \/ input_on /\ buffer' = ch
            /\ kcol' = IF ch = Newline THEN 0 ELSE (kcol + 1) % ColRange
         \/ ~ input_on /\ UNCHANGED <<buffer, kcol>>
      /\ \/ ch = NUL /\ UNCHANGED presses
         \/ /\ ch # NUL
            /\ presses < MaxPresses
            /\ presses' = IF input_on THEN presses + 1 ELSE presses
  BY DEF KeyboardInterrupt, Kbd!Isr, scrVars, lineVars, Newline
<1>2. TypeOK /\ presses \in 0 .. MaxPresses /\ kcol \in 0 .. ColRange - 1
      /\ reads \in Nat
  BY DEF Inv, TypeOK, Kbd!TypeOK
<1>3. ScreenEnds' /\ KeyInHand' /\ Terminated' /\ LineInv'
  BY <1>1 DEF Inv, ScreenEnds, Fbp!EndsAt, KeyInHand, Terminated, LineInv,
              LineIsEdited, Line
<1>4. TypeOK'
  <2>1. kcol' \in 0 .. ColRange - 1
    BY <1>1, <1>2, ConsoleAssumption
  <2>2. Kbd!TypeOK'
    BY <1>1, <1>2, <2>1 DEF TypeOK, Kbd!TypeOK
  <2>3. presses' \in 0 .. MaxPresses
    BY <1>1, <1>2, ConsoleAssumption
  <2>4. QED
    BY <1>1, <1>2, <2>2, <2>3 DEF TypeOK, Scr!TypeOK
<1>5. NoGhostKeys'
  BY <1>1, <1>2 DEF Inv, NoGhostKeys
<1>6. QED
  BY <1>3, <1>4, <1>5 DEF Inv

(* A step that changes neither the line, the key in hand nor the keys that *)
(* were counted, and does not end with a key in hand.                      *)
LEMMA QuietStep ==
  ASSUME Inv, pc # "got", pc' # "got",
         pc' \in {"prompt", "enable", "read", "disable", "run", "ps", "done"},
         UNCHANGED <<buffer, kcol, charBuffer, lineVars, countVars>>,
         input_on' \in BOOLEAN,
         \/ \E ch \in Letters \cup {PromptCh, OutCh} : Scr!PutGlyph(ch)
         \/ Scr!PutNewline
         \/ ScreenBackspace
         \/ UNCHANGED scrVars
  PROVE  Inv'
<1> USE DEF lineVars, countVars
<1>1. ScreenEnds'
  BY ScreenKept DEF Inv
<1>2. Scr!TypeOK'
  BY <1>1, SameScreen DEF ScreenEnds, Fbp!EndsAt, Scr!TypeOK
<1>3. TypeOK'
  <2>1. Kbd!TypeOK'
    BY DEF Inv, TypeOK, Kbd!TypeOK
  <2>2. QED
    BY <1>2, <2>1 DEF Inv, TypeOK
<1>4. KeyInHand' /\ Terminated' /\ LineInv' /\ NoGhostKeys'
  BY DEF Inv, KeyInHand, Terminated, LineInv, LineIsEdited, Line, NoGhostKeys
<1>5. QED
  BY <1>1, <1>3, <1>4 DEF Inv

(* The prompt starts a new line.                                           *)
LEMMA PromptInv == ASSUME Inv, Prompt PROVE Inv'
<1>1. /\ Scr!PutGlyph(PromptCh)
      /\ inputBuffer' = Cleared
      /\ inputLength' = 0
      /\ taken' = <<>>
      /\ pc' = "enable"
      /\ UNCHANGED <<input_on, buffer, kcol, charBuffer, presses, reads>>
  BY DEF Prompt, kbdVars, countVars
<1>2. ScreenEnds'
  BY <1>1, ScreenKept DEF Inv
<1>3. TypeOK'
  <2>1. Kbd!TypeOK'
    BY <1>1 DEF Inv, TypeOK, Kbd!TypeOK
  <2>2. Scr!TypeOK'
    BY <1>2, SameScreen DEF ScreenEnds, Fbp!EndsAt, Scr!TypeOK
  <2>3. inputBuffer' \in [Places -> Kbd!Scanned]
    BY <1>1, CharFacts DEF Cleared
  <2>4. taken' \in Seq(Kbd!Scanned)
    BY <1>1
  <2>5. QED
    BY <1>1, <2>1, <2>2, <2>3, <2>4, CharFacts DEF Inv, TypeOK
<1>4. Terminated'
  <2>1. \A i \in Places : ~ (i < inputLength')
    BY <1>1 DEF Places
  <2>2. QED
    BY <1>1, <2>1, CharFacts DEF Terminated, Cleared
<1>5. LineInv'
  <2>1. Line' = <<>>
    BY <1>1 DEF Line
  <2>2. QED
    BY <1>1, <2>1, EditedEmpty DEF LineInv, LineIsEdited
<1>6. KeyInHand' /\ NoGhostKeys'
  BY <1>1 DEF Inv, KeyInHand, NoGhostKeys
<1>7. QED
  BY <1>2, <1>3, <1>4, <1>5, <1>6 DEF Inv

(* A key, if there is one, is taken from the buffer.                       *)
LEMMA ReadCharInv == ASSUME Inv, ReadChar PROVE Inv'
<1>1. /\ pc = "read"
      /\ charBuffer' = buffer
      /\ buffer' = NUL
      /\ UNCHANGED <<cell, row, col, inputBuffer, inputLength, presses,
                     input_on, kcol>>
      /\ \/ buffer = NUL /\ UNCHANGED <<pc, taken, reads>>
         \/ /\ buffer # NUL
            /\ pc' = "got"
            /\ taken' = Append(taken, buffer)
            /\ reads' = reads + 1
  BY DEF ReadChar, Kbd!GetBuffer, scrVars, NUL
<1>2. TypeOK /\ buffer \in Keys /\ taken \in Seq(Keys) /\ reads \in Nat
      /\ presses \in Nat
  BY DEF Inv, TypeOK, Kbd!TypeOK, Keys
<1>3. ScreenEnds' /\ Terminated'
  BY <1>1 DEF Inv, ScreenEnds, Fbp!EndsAt, Terminated
<1>4. TypeOK'
  <2>1. Kbd!TypeOK'
    BY <1>1, <1>2, CharFacts DEF TypeOK, Kbd!TypeOK
  <2>2. taken' \in Seq(Keys) /\ reads' \in Nat
    <3>1. CASE taken' = taken /\ reads' = reads
      BY <1>2, <3>1
    <3>2. CASE taken' = Append(taken, buffer) /\ reads' = reads + 1
      BY <1>2, <3>2
    <3>3. QED
      BY <1>1, <3>1, <3>2, Zenon
  <2>3. QED
    BY <1>1, <1>2, <2>1, <2>2, CharFacts DEF TypeOK, Scr!TypeOK
<1>5. KeyInHand' /\ NoGhostKeys'
  BY <1>1, <1>2 DEF Inv, KeyInHand, NoGhostKeys
<1>6. LineInv'
  <2>1. Line' = Line /\ Line = Edited(taken)
    BY <1>1 DEF Line, Inv, LineInv, LineIsEdited
  <2>2. CASE buffer = NUL
    BY <1>1, <2>1, <2>2 DEF LineInv, LineIsEdited
  <2>3. CASE buffer # NUL
    BY <1>1, <1>2, <2>1, <2>3 DEF LineInv, LineIsEdited
  <2>4. QED
    BY <2>2, <2>3
<1>7. QED
  BY <1>3, <1>4, <1>5, <1>6 DEF Inv
(* The key in hand is dealt with: what is left to show is what becomes of  *)
(* the line in the buffer.                                                 *)
LEMMA KeyDone ==
  ASSUME Inv, pc = "got", pc' \in {"read", "disable"},
         UNCHANGED <<kbdVars, charBuffer, taken, countVars>>,
         \/ \E ch \in Letters \cup {PromptCh, OutCh} : Scr!PutGlyph(ch)
         \/ Scr!PutNewline
         \/ ScreenBackspace
         \/ UNCHANGED scrVars,
         inputBuffer' \in [Places -> Keys],
         inputLength' \in 0 .. MaxLength - 1,
         Terminated',
         LineOf(inputBuffer', inputLength')
           = EditStep(LineOf(inputBuffer, inputLength), charBuffer)
  PROVE  Inv'
<1> USE DEF kbdVars, countVars
<1>1. ScreenEnds'
  BY ScreenKept DEF Inv
<1>2. Scr!TypeOK'
  BY <1>1, SameScreen DEF ScreenEnds, Fbp!EndsAt, Scr!TypeOK
<1>3. TypeOK'
  <2>1. Kbd!TypeOK'
    BY DEF Inv, TypeOK, Kbd!TypeOK
  <2>2. QED
    BY <1>2, <2>1, CharFacts DEF Inv, TypeOK
<1>4. KeyInHand' /\ NoGhostKeys'
  BY DEF Inv, KeyInHand, NoGhostKeys
<1>5. LineInv'
  <2>1. PICK t \in Seq(Keys) : taken = Append(t, charBuffer) /\ Line = Edited(t)
    BY DEF Inv, LineInv
  <2>2. charBuffer \in Keys
    BY DEF Inv, TypeOK, Keys
  <2>3. Edited(taken) = EditStep(Line, charBuffer)
    BY <2>1, <2>2, EditedAppend
  <2>4. Line' = EditStep(Line, charBuffer)
    BY DEF Line, LineOf
  <2>5. Line' = Edited(taken') /\ pc' # "got"
    BY <2>3, <2>4
  <2>6. QED
    BY <2>5 DEF LineInv, LineIsEdited
<1>6. QED
  BY <1>1, <1>3, <1>4, <1>5 DEF Inv

(* Enter ends the line.                                                    *)
LEMMA GotNewlineInv == ASSUME Inv, GotNewline PROVE Inv'
<1>1. /\ pc = "got" /\ charBuffer = Newline /\ Scr!PutNewline
      /\ pc' = "disable"
      /\ UNCHANGED <<kbdVars, charBuffer, taken, countVars>>
      /\ inputBuffer' = inputBuffer /\ inputLength' = inputLength
  BY DEF GotNewline, lineVars
<1>2. inputBuffer \in [Places -> Keys] /\ inputLength \in 0 .. MaxLength - 1
  BY CharFacts DEF Inv, TypeOK
<1>3. Terminated'
  BY <1>1 DEF Inv, Terminated
<1>4. LineOf(inputBuffer', inputLength')
        = EditStep(LineOf(inputBuffer, inputLength), charBuffer)
  BY <1>1, CharFacts DEF EditStep
<1>5. QED
  BY <1>1, <1>2, <1>3, <1>4, KeyDone

(* '\b' takes the last character back, on the screen and in the buffer, or  *)
(* does nothing in an empty line.                                          *)
LEMMA GotBackspaceInv == ASSUME Inv, GotBackspace PROVE Inv'
<1>1. /\ pc = "got" /\ charBuffer = BS
      /\ pc' = "read"
      /\ UNCHANGED <<kbdVars, charBuffer, taken, countVars>>
  BY DEF GotBackspace
<1>2. inputBuffer \in [Places -> Keys] /\ inputLength \in 0 .. MaxLength - 1
      /\ inputLength \in Nat /\ MaxLength \in Nat
  BY CharFacts, ConsoleAssumption DEF Inv, TypeOK
<1>3. CASE inputLength > 0
  <2>1. /\ inputBuffer' = [inputBuffer EXCEPT ![inputLength] = NUL]
        /\ inputLength' = inputLength - 1
        /\ ScreenBackspace
    BY <1>2, <1>3 DEF GotBackspace
  <2>2. /\ inputBuffer' \in [Places -> Keys]
        /\ inputLength' \in 0 .. MaxLength - 1
    <3>1. inputBuffer' \in [Places -> Keys]
      BY <1>2, <2>1, CharFacts
    <3>2. inputLength' \in 0 .. MaxLength - 1
      BY <1>2, <1>3, <2>1
    <3>3. QED
      BY <3>1, <3>2
  <2>3. Terminated'
    <3>1. \A i \in Places : inputBuffer'[i] =
            IF i = inputLength THEN NUL ELSE inputBuffer[i]
      BY <1>2, <2>1
    <3>2. \A i \in Places : i < inputLength' => i < inputLength /\ i # inputLength
      BY <1>2, <2>1 DEF Places
    <3>3. QED
      BY <3>1, <3>2, CharFacts DEF Inv, Terminated
  <2>4. LineOf(inputBuffer', inputLength')
          = EditStep(LineOf(inputBuffer, inputLength), charBuffer)
    BY <1>1, <1>2, <1>3, <2>1, LineShorter DEF EditStep
  <2>5. QED
    BY <1>1, <2>1, <2>2, <2>3, <2>4, KeyDone
<1>4. CASE inputLength = 0
  <2>1. UNCHANGED <<inputBuffer, inputLength, scrVars>>
    BY <1>4 DEF GotBackspace
  <2>2. Terminated'
    BY <2>1 DEF Inv, Terminated
  <2>3. LineOf(inputBuffer, inputLength) = <<>>
    BY <1>4 DEF LineOf
  <2>4. SubSeq(<<>>, 1, Len(<<>>) - 1) = <<>>
    OBVIOUS
  <2>5. LineOf(inputBuffer', inputLength')
          = EditStep(LineOf(inputBuffer, inputLength), charBuffer)
    BY <1>1, <2>1, <2>3, <2>4 DEF EditStep
  <2>6. QED
    BY <1>1, <1>2, <2>1, <2>2, <2>5, KeyDone
<1>5. QED
  BY <1>2, <1>3, <1>4

(* A character is echoed and added to the line, or dropped at the limit.   *)
LEMMA GotCharacterInv == ASSUME Inv, GotCharacter PROVE Inv'
<1>1. /\ pc = "got" /\ charBuffer # Newline /\ charBuffer # BS
      /\ pc' = "read"
      /\ UNCHANGED <<kbdVars, charBuffer, taken, countVars>>
  BY DEF GotCharacter
<1>2. inputBuffer \in [Places -> Keys] /\ inputLength \in 0 .. MaxLength - 1
      /\ inputLength \in Nat /\ MaxLength \in Nat
  BY CharFacts, ConsoleAssumption DEF Inv, TypeOK
<1>3. charBuffer \in Keys /\ charBuffer \in Letters /\ charBuffer # NUL
  BY <1>1, CharFacts DEF Inv, TypeOK, KeyInHand
<1>4. Len(LineOf(inputBuffer, inputLength)) = inputLength
  BY <1>2, LineSeq
<1>5. CASE inputLength < MaxLength - 1
  <2>1. /\ Scr!PutGlyph(charBuffer)
        /\ inputBuffer' = [inputBuffer EXCEPT ![inputLength] = charBuffer]
        /\ inputLength' = inputLength + 1
    BY <1>2, <1>5 DEF GotCharacter
  <2>2. /\ inputBuffer' \in [Places -> Keys]
        /\ inputLength' \in 0 .. MaxLength - 1
    <3>1. inputBuffer' \in [Places -> Keys]
      BY <1>2, <1>3, <2>1
    <3>2. inputLength' \in 0 .. MaxLength - 1
      BY <1>2, <1>5, <2>1
    <3>3. QED
      BY <3>1, <3>2
  <2>3. Terminated'
    <3>1. \A i \in Places : inputBuffer'[i] =
            IF i = inputLength THEN charBuffer ELSE inputBuffer[i]
      BY <1>2, <2>1
    <3>2. \A i \in Places : i < inputLength' => i < inputLength \/ i = inputLength
      BY <1>2, <2>1 DEF Places
    <3>3. MaxLength - 1 # inputLength
      BY <1>2, <1>5
    <3>4. QED
      BY <1>3, <3>1, <3>2, <3>3, CharFacts DEF Inv, Terminated
  <2>4. LineOf(inputBuffer', inputLength')
          = EditStep(LineOf(inputBuffer, inputLength), charBuffer)
    <3>1. inputLength # MaxLength - 1
      BY <1>2, <1>5
    <3>2. EditStep(LineOf(inputBuffer, inputLength), charBuffer)
            = Append(LineOf(inputBuffer, inputLength), charBuffer)
      BY <1>1, <1>4, <3>1 DEF EditStep
    <3>3. QED
      BY <1>2, <1>3, <1>5, <2>1, <3>2, LineAppend
  <2>5. QED
    BY <1>1, <1>3, <2>1, <2>2, <2>3, <2>4, KeyDone
<1>6. CASE inputLength >= MaxLength - 1
  <2>1. UNCHANGED <<inputBuffer, inputLength, scrVars>>
    BY <1>2, <1>6 DEF GotCharacter
  <2>2. Terminated'
    BY <2>1 DEF Inv, Terminated
  <2>3. inputLength = MaxLength - 1
    BY <1>2, <1>6
  <2>4. LineOf(inputBuffer', inputLength')
          = EditStep(LineOf(inputBuffer, inputLength), charBuffer)
    BY <1>1, <1>4, <2>1, <2>3 DEF EditStep
  <2>5. QED
    BY <1>1, <1>2, <2>1, <2>2, <2>4, KeyDone
<1>7. QED
  BY <1>2, <1>5, <1>6

(* Every step keeps the invariant.                                         *)
LEMMA StepInv == Inv /\ [Next]_vars => Inv'
<1> SUFFICES ASSUME Inv, [Next]_vars PROVE Inv'
  OBVIOUS
<1>0. input_on \in BOOLEAN
  BY DEF Inv, TypeOK, Kbd!TypeOK
<1>1. ASSUME NEW ch \in Kbd!Scanned, KeyboardInterrupt(ch) PROVE Inv'
  BY <1>1, InterruptInv
<1>2. CASE Prompt
  BY <1>2, PromptInv
<1>3. CASE EnableTyping
  BY <1>3, QuietStep DEF EnableTyping, Kbd!Activate
<1>4. CASE ReadChar
  BY <1>4, ReadCharInv
<1>5. CASE GotNewline
  BY <1>5, GotNewlineInv
<1>6. CASE GotBackspace
  BY <1>6, GotBackspaceInv
<1>7. CASE GotCharacter
  BY <1>7, GotCharacterInv
<1>8. CASE DisableTyping
  BY <1>8, QuietStep DEF DisableTyping, Kbd!Deactivate
<1>9. CASE RunCommand
  BY <1>0, <1>9, QuietStep DEF RunCommand, kbdVars
<1>10. CASE PsPoll
  BY <1>0, <1>10, QuietStep DEF PsPoll, kbdVars
<1>11. CASE EndCommand
  BY <1>0, <1>11, QuietStep DEF EndCommand, kbdVars
<1>12. ASSUME NEW zeros \in BOOLEAN, RunPs(zeros) PROVE Inv'
  BY <1>0, <1>12, QuietStep DEF RunPs, kbdVars
<1>13. CASE UNCHANGED vars
  <2> USE <1>13 DEF vars, kbdVars, scrVars, lineVars, countVars
  <2>1. TypeOK' /\ ScreenEnds'
    BY DEF Inv, TypeOK, Kbd!TypeOK, Scr!TypeOK, ScreenEnds, Fbp!EndsAt
  <2>2. KeyInHand' /\ Terminated' /\ LineInv' /\ NoGhostKeys'
    BY DEF Inv, KeyInHand, Terminated, LineInv, LineIsEdited, Line, NoGhostKeys
  <2>3. QED
    BY <2>1, <2>2 DEF Inv
<1>14. QED
  BY <1>1, <1>2, <1>3, <1>4, <1>5, <1>6, <1>7, <1>8, <1>9, <1>10, <1>11,
     <1>12, <1>13 DEF Next, Shell

-----------------------------------------------------------------------------
(* The text on a screen.                                                   *)

Screens == [Scr!Rows \X Scr!Cols -> Scr!Chars]

RowLen(f, r) ==
  Width - Cardinality({c \in 0 .. Width - 1 : f[<<r, c>>] = NUL})
RowText(f, r) == [c \in 1 .. RowLen(f, r) |-> f[<<r, c - 1>>]]

(* The text of the rows before each row, as Text puts it together.         *)
TextRun(t, f) ==
  t = [r \in 0 .. Height |-> IF r = 0 THEN <<>> ELSE t[r - 1] \o RowText(f, r - 1)]
RowsOf(f) == CHOOSE t : TextRun(t, f)

(* Rows and columns of a screen.                                           *)
LEMMA GridFacts ==
  /\ Scr!Rows = 0 .. Height - 1
  /\ Scr!Cols = 0 .. Width - 1
  /\ Width \in Nat /\ Width >= 1 /\ Height \in Nat /\ Height >= 1
  /\ Scr!NUL = NUL /\ Fbp!NUL = NUL /\ NUL \in Scr!Chars
BY ConsoleAssumption DEF Scr!Rows, Scr!Cols, Scr!NUL, Fbp!NUL, NUL, Kbd!NUL,
                         Scr!Chars

(* Text is the text of the rows up to the cursor's.                        *)
LEMMA TextIsRows == Text = RowsOf(cell)[row + 1]
BY DEF Text, Shown, RowsOf, TextRun, RowText, RowLen

(* The same of the next state.                                             *)
LEMMA TextIsRowsNext == Text' = RowsOf(cell')[row' + 1]
BY DEF Text, Shown, RowsOf, TextRun, RowText, RowLen

(* The text of a row.                                                      *)
LEMMA RowSeq ==
  ASSUME NEW f \in Screens, NEW r \in Scr!Rows
  PROVE  /\ RowLen(f, r) \in 0 .. Width
         /\ RowText(f, r) \in Seq(Scr!Chars)
         /\ Len(RowText(f, r)) = RowLen(f, r)
         /\ \A c \in 1 .. RowLen(f, r) : RowText(f, r)[c] = f[<<r, c - 1>>]
<1> DEFINE E == {c \in 0 .. Width - 1 : f[<<r, c>>] = NUL}
           n == RowLen(f, r)
<1>1. IsFiniteSet(0 .. Width - 1) /\ Cardinality(0 .. Width - 1) = Width
  BY FS_Interval, GridFacts
<1>2. Cardinality(E) \in Nat /\ Cardinality(E) <= Width
  <2>1. E \subseteq 0 .. Width - 1
    OBVIOUS
  <2>2. IsFiniteSet(E) /\ Cardinality(E) <= Cardinality(0 .. Width - 1)
    BY <1>1, <2>1, FS_Subset
  <2>3. Cardinality(E) \in Nat
    BY <2>2, FS_CardinalityType
  <2>4. QED
    BY <1>1, <2>2, <2>3
<1> HIDE DEF E
<1>3. n \in 0 .. Width
  BY <1>2, GridFacts DEF RowLen, E
<1> HIDE DEF n
<1>4. \A c \in 1 .. n : f[<<r, c - 1>>] \in Scr!Chars
  <2>1. \A c \in 1 .. n : c - 1 \in Scr!Cols
    BY <1>3, GridFacts
  <2>2. QED
    BY <2>1 DEF Screens
<1>5. RowText(f, r) = [c \in 1 .. n |-> f[<<r, c - 1>>]]
  BY DEF RowText, n
<1>6. n \in Nat
  BY <1>3, GridFacts
<1>7. /\ RowText(f, r) \in Seq(Scr!Chars)
      /\ Len(RowText(f, r)) = n
      /\ \A c \in 1 .. n : RowText(f, r)[c] = f[<<r, c - 1>>]
  BY <1>4, <1>5, <1>6
<1>8. QED
  BY <1>3, <1>7 DEF n

(* A row that is filled up to column n.                                    *)
LEMMA RowFilled ==
  ASSUME NEW f \in Screens, NEW r \in Scr!Rows, NEW n \in 0 .. Width,
         \A c \in Scr!Cols : f[<<r, c>>] # NUL <=> c < n
  PROVE  RowLen(f, r) = n
<1>1. {c \in 0 .. Width - 1 : f[<<r, c>>] = NUL} = n .. Width - 1
  BY GridFacts
<1>2. Cardinality(n .. Width - 1) = Width - n
  <2>1. n \in Int /\ Width - 1 \in Int
    BY GridFacts
  <2>2. Cardinality(n .. Width - 1)
          = IF n > Width - 1 THEN 0 ELSE (Width - 1) - n + 1
    BY <2>1, FS_Interval
  <2>3. QED
    BY <2>1, <2>2, GridFacts
<1>3. RowLen(f, r) = Width - (Width - n)
  BY <1>1, <1>2, Zenon DEF RowLen
<1>4. QED
  BY <1>3, GridFacts

(* The text of the rows goes row by row.                                   *)
LEMMA RowsRun ==
  ASSUME NEW f \in Screens
  PROVE  /\ RowsOf(f) \in [0 .. Height -> Seq(Scr!Chars)]
         /\ RowsOf(f)[0] = <<>>
         /\ \A r \in Scr!Rows : RowsOf(f)[r + 1] = RowsOf(f)[r] \o RowText(f, r)
<1> DEFINE L == Seq(Scr!Chars)
           step == [p \in L \X (1 .. Height) |-> p[1] \o RowText(f, p[2] - 1)]
           a == <<>>
           t == RowsOf(f)
<1>1. \A n \in 1 .. Height : n - 1 \in Scr!Rows /\ RowText(f, n - 1) \in L
  BY RowSeq, GridFacts
<1>2. step \in [L \X (1 .. Height) -> L]
  <2>1. \A p \in L \X (1 .. Height) : p[1] \o RowText(f, p[2] - 1) \in L
    BY <1>1
  <2>2. QED
    BY <2>1
<1>3. a \in L
  OBVIOUS
<1>4. PICK g : Recursion(g, Height, L, a, step)
  <2> HIDE DEF L, step, a
  <2>1. QED
    BY <1>2, <1>3, RecursionExists, GridFacts
<1>5. \A n \in 1 .. Height : g[n] = g[n - 1] \o RowText(f, n - 1)
  <2>1. \A n \in 1 .. Height : g[n - 1] \in L
    BY <1>4, GridFacts DEF Recursion
  <2>2. \A n \in 1 .. Height : <<g[n - 1], n>> \in L \X (1 .. Height)
    BY <2>1
  <2> HIDE DEF L
  <2>3. QED
    BY <1>4, <2>2, Zenon DEF Recursion
<1>6. TextRun(g, f)
  <2>1. \A n \in 0 .. Height :
          g[n] = IF n = 0 THEN <<>> ELSE g[n - 1] \o RowText(f, n - 1)
    <3>1. ASSUME NEW n \in 0 .. Height, n # 0
          PROVE  g[n] = g[n - 1] \o RowText(f, n - 1)
      <4>1. n \in 1 .. Height
        BY <3>1, GridFacts
      <4>2. QED
        BY <1>5, <4>1, Zenon
    <3>2. g[0] = <<>>
      BY <1>4 DEF Recursion
    <3>3. QED
      BY <3>1, <3>2, Zenon
  <2>2. QED
    BY <1>4, <2>1 DEF TextRun, Recursion
<1>7. TextRun(t, f)
  BY <1>6 DEF RowsOf
<1> HIDE DEF t
<1>8. t[0] = <<>> /\ \A n \in 1 .. Height : t[n] = t[n - 1] \o RowText(f, n - 1)
  <2>1. \A n \in 0 .. Height :
          t[n] = IF n = 0 THEN <<>> ELSE t[n - 1] \o RowText(f, n - 1)
    BY <1>7, Zenon DEF TextRun
  <2>2. 0 \in 0 .. Height /\ \A n \in 1 .. Height : n \in 0 .. Height /\ n # 0
    BY GridFacts
  <2>3. QED
    BY <2>1, <2>2, Zenon
<1>9. DOMAIN t = 0 .. Height /\ t = [n \in 0 .. Height |-> t[n]]
  BY <1>7 DEF TextRun
<1>10. \A n \in 0 .. Height : t[n] \in L
  <2> DEFINE S == {n \in 0 .. Height : t[n] \in L}
  <2> HIDE DEF L
  <2>0. \A u \in L, v \in L : u \o v \in L
    BY DEF L
  <2>1. 0 \in S
    BY <1>3, <1>8, GridFacts
  <2>2. ASSUME NEW n \in 0 .. Height - 1, n \in S PROVE n + 1 \in S
    <3>1. n + 1 \in 1 .. Height /\ (n + 1) - 1 = n
      BY GridFacts
    <3>2. t[n + 1] = t[n] \o RowText(f, n)
      BY <1>8, <3>1
    <3>3. t[n] \in L /\ RowText(f, n) \in L
      BY <1>1, <2>2, <3>1
    <3>4. n + 1 \in 0 .. Height
      BY GridFacts
    <3>5. t[n + 1] \in L
      BY <2>0, <3>2, <3>3
    <3>6. QED
      BY <3>4, <3>5
  <2> HIDE DEF S
  <2>3. \A n \in 0 .. Height : n \in S
    BY <2>1, <2>2, UpTo, GridFacts
  <2>4. QED
    BY <2>3 DEF S
<1>11. \A r \in Scr!Rows : t[r + 1] = t[r] \o RowText(f, r)
  <2>1. \A r \in Scr!Rows : r + 1 \in 1 .. Height /\ (r + 1) - 1 = r
    BY GridFacts
  <2>2. QED
    BY <1>8, <2>1
<1>12. QED
  BY <1>8, <1>9, <1>10, <1>11 DEF t

(* Two rows with the same cells have the same text.                        *)
LEMMA RowTextAgree ==
  ASSUME NEW f, NEW g, NEW r, NEW q,
         \A c \in Scr!Cols : f[<<r, c>>] = g[<<q, c>>],
         RowLen(g, q) \in 0 .. Width
  PROVE  RowText(f, r) = RowText(g, q)
<1>1. {c \in 0 .. Width - 1 : f[<<r, c>>] = NUL}
        = {c \in 0 .. Width - 1 : g[<<q, c>>] = NUL}
  BY GridFacts
<1>2. RowLen(f, r) = RowLen(g, q)
  BY <1>1 DEF RowLen
<1>3. \A c \in 1 .. RowLen(g, q) : c - 1 \in Scr!Cols
  BY GridFacts
<1>4. \A c \in 1 .. RowLen(g, q) : f[<<r, c - 1>>] = g[<<q, c - 1>>]
  BY <1>3
<1>5. QED
  BY <1>2, <1>4 DEF RowText

(* An empty row has no text.                                               *)
LEMMA RowEmpty ==
  ASSUME NEW f \in Screens, NEW r \in Scr!Rows,
         \A c \in Scr!Cols : f[<<r, c>>] = NUL
  PROVE  RowText(f, r) = <<>>
<1>1. 0 \in 0 .. Width /\ \A c \in Scr!Cols : ~ (c < 0)
  BY GridFacts
<1>2. RowLen(f, r) = 0
  BY <1>1, RowFilled
<1>3. RowText(f, r) \in Seq(Scr!Chars) /\ Len(RowText(f, r)) = 0
  BY <1>2, RowSeq
<1>4. QED
  BY <1>3

(* A character behind the text of a row.                                   *)
LEMMA RowPut ==
  ASSUME NEW f \in Screens, NEW r \in Scr!Rows, NEW n \in Scr!Cols,
         \A c \in Scr!Cols : f[<<r, c>>] # NUL <=> c < n,
         NEW ch \in Scr!Chars, ch # NUL
  PROVE  RowText(Scr!Write(f, r, n, ch), r) = Append(RowText(f, r), ch)
<1> DEFINE g == Scr!Write(f, r, n, ch)
<1>1. g \in Screens
  BY DEF Screens, Scr!Write
<1>2. \A c \in Scr!Cols : g[<<r, c>>] = IF c = n THEN ch ELSE f[<<r, c>>]
  <2>1. \A c \in Scr!Cols : <<r, c>> \in Scr!Rows \X Scr!Cols
    OBVIOUS
  <2>2. QED
    BY <2>1 DEF Screens, Scr!Write
<1> HIDE DEF g
<1>3. n \in Nat /\ n \in 0 .. Width /\ n + 1 \in 0 .. Width /\ Scr!Cols \subseteq Int
  BY GridFacts
<1>4. \A c \in Scr!Cols : c < n + 1 <=> (c < n \/ c = n)
  BY <1>3
<1>5. \A c \in Scr!Cols : g[<<r, c>>] # NUL <=> c < n + 1
  BY <1>2, <1>4
<1>6. RowLen(f, r) = n /\ RowLen(g, r) = n + 1
  BY <1>1, <1>3, <1>5, RowFilled
<1>7. /\ RowText(f, r) \in Seq(Scr!Chars)
      /\ Len(RowText(f, r)) = n
      /\ \A c \in 1 .. n : RowText(f, r)[c] = f[<<r, c - 1>>]
      /\ RowText(g, r) \in Seq(Scr!Chars)
      /\ Len(RowText(g, r)) = n + 1
      /\ \A c \in 1 .. n + 1 : RowText(g, r)[c] = g[<<r, c - 1>>]
  BY <1>1, <1>6, RowSeq
<1> DEFINE a == RowText(f, r)
           b == RowText(g, r)
<1>8. ASSUME NEW c \in 1 .. n + 1 PROVE b[c] = Append(a, ch)[c]
  <2>1. c - 1 \in Scr!Cols
    BY <1>3, GridFacts
  <2>2. CASE c = n + 1
    <3>1. c - 1 = n
      BY <1>3, <2>2
    <3>2. b[c] = ch
      BY <1>2, <1>7, <2>1, <3>1
    <3>3. Append(a, ch)[n + 1] = ch
      BY <1>7
    <3>4. QED
      BY <2>2, <3>2, <3>3
  <2>3. CASE c # n + 1
    <3>1. c \in 1 .. n /\ c - 1 # n
      BY <1>3, <2>3
    <3>2. b[c] = f[<<r, c - 1>>]
      BY <1>2, <1>7, <2>1, <3>1
    <3>3. Append(a, ch)[c] = a[c]
      BY <1>7, <3>1
    <3>4. QED
      BY <1>7, <3>1, <3>2, <3>3
  <2>4. QED
    BY <2>2, <2>3
<1>9. Append(a, ch) \in Seq(Scr!Chars) /\ Len(Append(a, ch)) = n + 1
  BY <1>7
<1> HIDE DEF a, b
<1>10. b \in Seq(Scr!Chars) /\ Len(b) = n + 1
  BY <1>7 DEF b
<1>11. b = Append(a, ch)
  BY <1>3, <1>8, <1>9, <1>10, SeqEqual
<1>12. QED
  BY <1>11 DEF a, b, g

(* Screens that agree up to a row have the same text up to that row.       *)
LEMMA RowsAgree ==
  ASSUME NEW f \in Screens, NEW g \in Screens, NEW R \in 0 .. Height,
         \A r \in Scr!Rows, c \in Scr!Cols : r < R => f[<<r, c>>] = g[<<r, c>>]
  PROVE  RowsOf(f)[R] = RowsOf(g)[R]
<1> DEFINE S == {r \in 0 .. R : RowsOf(f)[r] = RowsOf(g)[r]}
<1>1. R \in Nat /\ R <= Height /\ Height \in Nat
  BY GridFacts
<1>2. 0 \in S
  BY <1>1, RowsRun
<1>3. ASSUME NEW r \in 0 .. R - 1, r \in S PROVE r + 1 \in S
  <2>1. r \in Scr!Rows /\ r < R /\ r + 1 \in 0 .. R
    BY <1>1, GridFacts
  <2>2. RowText(f, r) = RowText(g, r)
    <3>1. RowLen(g, r) \in 0 .. Width
      BY <2>1, RowSeq
    <3>2. QED
      BY <2>1, <3>1, RowTextAgree
  <2>3. RowsOf(f)[r] = RowsOf(g)[r]
    BY <1>3
  <2>4. RowsOf(f)[r + 1] = RowsOf(g)[r + 1]
    BY <2>1, <2>2, <2>3, RowsRun
  <2>5. QED
    BY <2>1, <2>4
<1> HIDE DEF S
<1>4. R \in S
  BY <1>1, <1>2, <1>3, UpTo
<1>5. QED
  BY <1>4 DEF S

(* Scrolling takes the first row away.                                     *)
LEMMA RowsShift ==
  ASSUME NEW f \in Screens
  PROVE  /\ Scr!ShiftUp(f) \in Screens
         /\ \A r \in Scr!Rows :
              RowsOf(f)[r + 1] = RowText(f, 0) \o RowsOf(Scr!ShiftUp(f))[r]
<1> DEFINE g == Scr!ShiftUp(f)
           L == Seq(Scr!Chars)
           S == {r \in Scr!Rows : RowsOf(f)[r + 1] = RowText(f, 0) \o RowsOf(g)[r]}
<1>1. ASSUME NEW r \in Scr!Rows, NEW c \in Scr!Cols
      PROVE  /\ g[<<r, c>>] = IF r < Height - 1 THEN f[<<r + 1, c>>] ELSE NUL
             /\ g[<<r, c>>] \in Scr!Chars
  <2>1. <<r, c>> \in Scr!Rows \X Scr!Cols
    OBVIOUS
  <2>2. g[<<r, c>>] = IF r < Height - 1 THEN f[<<r + 1, c>>] ELSE NUL
    BY <2>1, GridFacts DEF Scr!ShiftUp
  <2>3. r < Height - 1 => r + 1 \in Scr!Rows
    BY GridFacts
  <2>4. r < Height - 1 => f[<<r + 1, c>>] \in Scr!Chars
    BY <2>3 DEF Screens
  <2>5. QED
    BY <2>2, <2>4, GridFacts
<1>2. g \in Screens
  <2>1. g = [p \in Scr!Rows \X Scr!Cols |-> g[p]]
    BY DEF Scr!ShiftUp
  <2>2. \A p \in Scr!Rows \X Scr!Cols : p = <<p[1], p[2]>> /\ p[1] \in Scr!Rows /\ p[2] \in Scr!Cols
    OBVIOUS
  <2> HIDE DEF g
  <2>3. \A p \in Scr!Rows \X Scr!Cols : g[p] \in Scr!Chars
    BY <1>1, <2>2
  <2>4. QED
    BY <2>1, <2>3 DEF Screens
<1> HIDE DEF g
<1>3. 0 \in Scr!Rows /\ RowText(f, 0) \in L
  BY GridFacts, RowSeq
<1>4. 0 \in S
  <2>1. RowsOf(f)[0 + 1] = <<>> \o RowText(f, 0) /\ RowsOf(g)[0] = <<>>
    BY <1>2, <1>3, RowsRun
  <2>2. RowsOf(f)[0 + 1] = RowText(f, 0) \o RowsOf(g)[0]
    BY <1>3, <2>1, ConcatEmptySeq
  <2>3. QED
    BY <1>3, <2>2
<1>5. ASSUME NEW r \in 0 .. (Height - 1) - 1, r \in S PROVE r + 1 \in S
  <2>1. r \in Scr!Rows /\ r + 1 \in Scr!Rows /\ r < Height - 1
    BY GridFacts
  <2>2. RowText(f, r + 1) = RowText(g, r)
    <3>1. RowLen(g, r) \in 0 .. Width
      BY <1>2, <2>1, RowSeq
    <3>2. \A c \in Scr!Cols : f[<<r + 1, c>>] = g[<<r, c>>]
      BY <1>1, <2>1
    <3>3. QED
      BY <3>1, <3>2, RowTextAgree
  <2>3. RowsOf(f)[r + 1] = RowText(f, 0) \o RowsOf(g)[r]
    BY <1>5
  <2>4. RowsOf(f)[(r + 1) + 1] = RowsOf(f)[r + 1] \o RowText(g, r)
    BY <2>1, <2>2, RowsRun
  <2>5. RowsOf(g)[r + 1] = RowsOf(g)[r] \o RowText(g, r)
    BY <1>2, <2>1, RowsRun
  <2>6. RowsOf(g)[r] \in L /\ RowText(g, r) \in L
    <3>1. r \in 0 .. Height
      BY GridFacts
    <3>2. QED
      BY <1>2, <2>1, <3>1, RowsRun, RowSeq
  <2>7. RowsOf(f)[(r + 1) + 1] = RowText(f, 0) \o RowsOf(g)[r + 1]
    <3>0. ASSUME NEW a \in Seq(Scr!Chars), NEW b \in Seq(Scr!Chars),
                 NEW c \in Seq(Scr!Chars)
          PROVE  (a \o b) \o c = a \o (b \o c)
      BY SMTT(30), ConcatAssociative
    <3>1. (RowText(f, 0) \o RowsOf(g)[r]) \o RowText(g, r)
            = RowText(f, 0) \o (RowsOf(g)[r] \o RowText(g, r))
      BY <1>3, <2>6, <3>0, Zenon
    <3>2. QED
      BY <2>3, <2>4, <2>5, <3>1, Zenon
  <2>8. QED
    BY <2>1, <2>7
<1> HIDE DEF S
<1>6. \A r \in 0 .. Height - 1 : r \in S
  <2>1. Height - 1 \in Nat
    BY GridFacts
  <2>2. QED
    BY <1>4, <1>5, <2>1, UpTo
<1>7. QED
  BY <1>2, <1>6, GridFacts DEF S, g

(* The cursor of a screen whose text ends at it.                           *)
LEMMA EndFacts ==
  ASSUME ScreenEnds
  PROVE  /\ cell \in Screens /\ row \in Scr!Rows /\ col \in Scr!Cols
         /\ \A c \in Scr!Cols : cell[<<row, c>>] # NUL <=> c < col
         /\ \A r \in Scr!Rows, c \in Scr!Cols : r > row => cell[<<r, c>>] = NUL
         /\ \A r \in Scr!Rows, c \in Scr!Cols, d \in Scr!Cols :
              r < row /\ c < d /\ cell[<<r, d>>] # NUL => cell[<<r, c>>] # NUL
BY SameScreen, GridFacts DEF ScreenEnds, Fbp!EndsAt, Screens

(* The text of the screen is a sequence of characters.                     *)
LEMMA TextSeq == ASSUME ScreenEnds PROVE Text \in Seq(Scr!Chars)
<1>1. row + 1 \in 0 .. Height
  BY EndFacts, GridFacts
<1>2. QED
  BY <1>1, EndFacts, RowsRun, TextIsRows

(* The same of the next state.                                             *)
LEMMA TextSeqNext == ASSUME ScreenEnds' PROVE Text' \in Seq(Scr!Chars)
<1>1. cell' \in Screens /\ row' \in Scr!Rows
  BY SameScreen DEF ScreenEnds, Fbp!EndsAt, Screens
<1>2. \A r \in Scr!Rows : r + 1 \in 0 .. Height
  BY GridFacts
<1>3. QED
  BY <1>1, <1>2, RowsRun, TextIsRowsNext

(* A character written behind the text of a row is added to the text.      *)
LEMMA RowsPut ==
  ASSUME NEW f \in Screens, NEW r \in Scr!Rows, NEW n \in Scr!Cols,
         \A c \in Scr!Cols : f[<<r, c>>] # NUL <=> c < n,
         NEW ch \in Scr!Chars, ch # NUL
  PROVE  /\ Scr!Write(f, r, n, ch) \in Screens
         /\ RowsOf(Scr!Write(f, r, n, ch))[r + 1] = Append(RowsOf(f)[r + 1], ch)
         /\ \A q \in Scr!Rows, c \in Scr!Cols :
              q # r => Scr!Write(f, r, n, ch)[<<q, c>>] = f[<<q, c>>]
<1> DEFINE g == Scr!Write(f, r, n, ch)
<1>1. g \in Screens
  BY DEF Screens, Scr!Write
<1>2. \A q \in Scr!Rows, c \in Scr!Cols : q # r => g[<<q, c>>] = f[<<q, c>>]
  <2>1. \A q \in Scr!Rows, c \in Scr!Cols :
          /\ <<q, c>> \in Scr!Rows \X Scr!Cols
          /\ q # r => <<q, c>> # <<r, n>>
    OBVIOUS
  <2>2. QED
    BY <2>1 DEF Screens, Scr!Write
<1>3. RowText(g, r) = Append(RowText(f, r), ch)
  BY RowPut
<1> HIDE DEF g
<1>4. r \in 0 .. Height /\ \A q \in Scr!Rows : q < r => q # r
  BY GridFacts
<1>5. RowsOf(g)[r] = RowsOf(f)[r]
  BY <1>1, <1>2, <1>4, RowsAgree
<1>6. /\ RowsOf(g)[r + 1] = RowsOf(f)[r] \o Append(RowText(f, r), ch)
      /\ RowsOf(f)[r + 1] = RowsOf(f)[r] \o RowText(f, r)
  BY <1>1, <1>3, <1>5, RowsRun
<1>7. RowsOf(f)[r] \in Seq(Scr!Chars) /\ RowText(f, r) \in Seq(Scr!Chars)
  BY <1>4, RowsRun, RowSeq
<1>8. ASSUME NEW a \in Seq(Scr!Chars), NEW b \in Seq(Scr!Chars)
      PROVE  a \o Append(b, ch) = Append(a \o b, ch)
  <2>1. Append(b, ch) = b \o <<ch>> /\ Append(a \o b, ch) = (a \o b) \o <<ch>>
        /\ <<ch>> \in Seq(Scr!Chars)
    BY AppendIsConcat
  <2>2. QED
    BY <2>1, ConcatAssociative
<1>9. QED
  BY <1>1, <1>2, <1>6, <1>7, <1>8 DEF g

(* After a character is put the text of the screen ends with it; the first *)
(* row may have been scrolled away.                                        *)
LEMMA GlyphText ==
  ASSUME ScreenEnds, NEW STATE ch, ch \in Scr!Chars, ch # NUL, Scr!PutGlyph(ch)
  PROVE  \E gone \in Seq(Scr!Chars) : Append(Text, ch) = gone \o Text'
<1> DEFINE f == Scr!Write(cell, row, col, ch)
           L == Seq(Scr!Chars)
<1>1. /\ cell \in Screens /\ row \in Scr!Rows /\ col \in Scr!Cols
      /\ row \in Nat /\ row < Height /\ row + 1 \in 0 .. Height
      /\ col \in Nat /\ col < Width /\ Width \in Nat /\ Height \in Nat
  BY EndFacts, GridFacts
<1>2. /\ f \in Screens
      /\ RowsOf(f)[row + 1] = Append(Text, ch)
      /\ \A q \in Scr!Rows, c \in Scr!Cols : q # row => f[<<q, c>>] = cell[<<q, c>>]
  BY <1>1, EndFacts, RowsPut, TextIsRows
<1>3. Scr!Place(f, row, col + 1)
  BY DEF Scr!PutGlyph
<1> HIDE DEF f
<1>4. Text' = RowsOf(cell')[row' + 1]
  BY TextIsRowsNext
<1>5. Text \in L /\ Append(Text, ch) \in L
  BY TextSeq
<1>6. <<>> \in L
  OBVIOUS
<1> HIDE DEF L
<1>7. CASE col + 1 < Width
  <2>1. (col + 1) \div Width = 0
    BY <1>1, <1>7
  <2>2. cell' = f /\ row' = row
    BY <1>1, <1>3, <2>1 DEF Scr!Place
  <2>3. Append(Text, ch) = Text'
    BY <1>2, <1>4, <2>2
  <2>4. Append(Text, ch) = <<>> \o Text'
    BY <1>5, <2>3, ConcatEmptySeq DEF L
  <2>5. QED
    BY <1>6, <2>4 DEF L
<1>8. CASE col + 1 = Width /\ row + 1 # Height
  <2>1. (col + 1) \div Width = 1
    BY <1>1, <1>8
  <2>2. cell' = f /\ row' = row + 1
    BY <1>1, <1>3, <1>8, <2>1 DEF Scr!Place
  <2>3. row + 1 \in Scr!Rows /\ row + 1 # row /\ row + 1 > row
    BY <1>1, <1>8, GridFacts
  <2>4. RowText(f, row + 1) = <<>>
    BY <1>2, <2>3, EndFacts, RowEmpty
  <2>5. Text' = Append(Text, ch) \o <<>>
    BY <1>2, <1>4, <2>2, <2>3, <2>4, RowsRun
  <2>6. Append(Text, ch) = <<>> \o Text'
    BY <1>5, <2>5, ConcatEmptySeq DEF L
  <2>7. QED
    BY <1>6, <2>6 DEF L
<1>9. CASE col + 1 = Width /\ row + 1 = Height
  <2> DEFINE g == Scr!ShiftUp(f)
  <2>1. (col + 1) \div Width = 1
    BY <1>1, <1>9
  <2>2. cell' = g /\ row' = Height - 1
    BY <1>1, <1>3, <1>9, <2>1 DEF Scr!Place
  <2>3. g \in Screens /\ Append(Text, ch) = RowText(f, 0) \o RowsOf(g)[row]
    BY <1>1, <1>2, RowsShift
  <2>4. RowText(g, row) = <<>>
    <3>1. \A c \in Scr!Cols : g[<<row, c>>] = NUL
      <4>1. \A c \in Scr!Cols : <<row, c>> \in Scr!Rows \X Scr!Cols
        BY <1>1
      <4>2. ~ (row < Height - 1)
        BY <1>1, <1>9
      <4>3. QED
        BY <4>1, <4>2, GridFacts DEF Scr!ShiftUp
    <3>2. QED
      BY <1>1, <2>3, <3>1, RowEmpty
  <2> HIDE DEF g
  <2>5. row' = row
    BY <1>1, <1>9, <2>2
  <2>6. RowsOf(g)[row + 1] = RowsOf(g)[row] \o <<>> /\ RowsOf(g)[row] \in L
    <3>1. row \in 0 .. Height
      BY <1>1
    <3>2. QED
      BY <1>1, <2>3, <2>4, <3>1, RowsRun DEF L
  <2>7. Text' = RowsOf(g)[row]
    BY <1>4, <2>2, <2>5, <2>6, ConcatEmptySeq DEF L
  <2>8. RowText(f, 0) \in L
    BY <1>2, RowSeq, GridFacts DEF L
  <2>9. Append(Text, ch) = RowText(f, 0) \o Text'
    BY <2>3, <2>7
  <2>10. QED
    BY <2>8, <2>9 DEF L
<1>10. col + 1 < Width \/ col + 1 = Width
  BY <1>1
<1>11. QED
  BY <1>7, <1>8, <1>9, <1>10

(* After '\b' the text of the screen is one character shorter, unless      *)
(* there was none.                                                         *)
LEMMA BackText ==
  ASSUME ScreenEnds, ScreenBackspace
  PROVE  \/ Text = <<>> /\ Text' = <<>>
         \/ \E x \in Scr!Chars : Text = Append(Text', x)
<1>1. /\ cell \in Screens /\ row \in Scr!Rows /\ col \in Scr!Cols
      /\ row \in Nat /\ row < Height /\ row + 1 \in 0 .. Height
      /\ col \in Nat /\ col < Width /\ Width \in Nat /\ Height \in Nat
  BY EndFacts, GridFacts
<1>2. Text = RowsOf(cell)[row + 1] /\ Text' = RowsOf(cell')[row' + 1]
  BY TextIsRows, TextIsRowsNext
<1>3. \A c \in Scr!Cols : c \div Width = 0
  BY <1>1, GridFacts
(* The cell that is erased is the last one of its row. *)
<1>4. ASSUME NEW r \in Scr!Rows, NEW d \in Scr!Cols,
             \A c \in Scr!Cols : cell[<<r, c>>] # NUL <=> c <= d
      PROVE  \E x \in Scr!Chars :
               RowsOf(cell)[r + 1] = Append(RowsOf(Scr!Write(cell, r, d, NUL))[r + 1], x)
  <2> DEFINE g == Scr!Write(cell, r, d, NUL)
             x == cell[<<r, d>>]
  <2>1. <<r, d>> \in Scr!Rows \X Scr!Cols /\ d <= d
    BY GridFacts
  <2>2. x \in Scr!Chars /\ x # NUL
    BY <1>1, <1>4, <2>1 DEF Screens
  <2>3. g \in Screens
    BY <1>1, GridFacts DEF Screens, Scr!Write
  <2>4. cell = Scr!Write(g, r, d, x)
    BY <1>1, <2>1 DEF Screens, Scr!Write
  <2>5. \A c \in Scr!Cols : g[<<r, c>>] = IF c = d THEN NUL ELSE cell[<<r, c>>]
    <3>1. \A c \in Scr!Cols : <<r, c>> \in Scr!Rows \X Scr!Cols
      OBVIOUS
    <3>2. QED
      BY <1>1, <3>1 DEF Screens, Scr!Write
  <2> HIDE DEF g, x
  <2>6. \A c \in Scr!Cols : c < d <=> (c <= d /\ c # d)
    BY GridFacts
  <2>7. \A c \in Scr!Cols : g[<<r, c>>] # NUL <=> c < d
    BY <1>4, <2>5, <2>6
  <2>8. RowsOf(cell)[r + 1] = Append(RowsOf(g)[r + 1], x)
    BY <2>2, <2>3, <2>4, <2>7, RowsPut
  <2>9. QED
    BY <2>2, <2>8 DEF g
<1>5. CASE Scr!Backspace
  <2>1. col > 0 /\ col - 1 \in Scr!Cols /\ (col - 1) \div Width = 0
    BY <1>1, <1>3, <1>5, GridFacts DEF Scr!Backspace
  <2>2. cell' = Scr!Write(cell, row, col - 1, NUL) /\ row' = row
    <3>1. Scr!Place(Scr!Write(cell, row, col - 1, Scr!NUL), row, col - 1)
      BY <1>5 DEF Scr!Backspace
    <3>2. row + (col - 1) \div Width = row /\ row # Height
      BY <1>1, <2>1
    <3>3. QED
      BY <3>1, <3>2, GridFacts DEF Scr!Place
  <2>3. \A c \in Scr!Cols : c <= col - 1 <=> c < col
    BY <1>1, GridFacts
  <2>4. \A c \in Scr!Cols : cell[<<row, c>>] # NUL <=> c <= col - 1
    BY <2>3, EndFacts
  <2>5. QED
    BY <1>1, <1>2, <1>4, <2>1, <2>2, <2>4
<1>6. CASE Scr!BackspaceRow
  <2> DEFINE d == Scr!Scan[2]
             s == row - 1
  <2>1. /\ col = 0 /\ row > 0
        /\ Scr!Place(Scr!Write(cell, Scr!Scan[1], d, Scr!NUL), Scr!Scan[1], d)
    BY <1>6 DEF Scr!BackspaceRow
  <2>2. /\ Scr!Scan[1] = s /\ d \in Scr!Cols
        /\ cell[<<s, d>>] # NUL
        /\ \A c \in Scr!Cols : cell[<<s, c>>] # NUL => c <= d
    <3>1. Fbp!Scan = Scr!Scan
      BY SameScreen DEF Fbp!Scan, Scr!Scan, Fbp!Before, Scr!Before, Fbp!Sooner, Scr!Sooner
    <3>2. Fbp!EndsAt(cell, row, col)
      BY DEF ScreenEnds
    <3>3. /\ Fbp!Scan[1] = row - 1
          /\ Fbp!Scan[2] \in Fbp!Cols
          /\ cell[<<row - 1, Fbp!Scan[2]>>] # Fbp!NUL
          /\ \A c \in Fbp!Cols : cell[<<row - 1, c>>] # Fbp!NUL => c <= Fbp!Scan[2]
      BY <2>1, <3>2, Fbp!ScanFacts, GlyphFacts
    <3>4. QED
      BY <3>1, <3>3, SameScreen, GridFacts
  <2> HIDE DEF d
  <2>3. s \in Scr!Rows /\ s < row /\ s + 1 = row /\ s # Height /\ s \in Int
    BY <1>1, <2>1, GridFacts
  <2>4. cell' = Scr!Write(cell, s, d, NUL) /\ row' = s
    <3>1. d \div Width = 0
      BY <1>3, <2>2
    <3>2. s + d \div Width = s
      BY <2>3, <3>1
    <3>3. QED
      BY <2>1, <2>2, <2>3, <3>2, GridFacts DEF Scr!Place
  <2> HIDE DEF s
  <2>5. \A c \in Scr!Cols : cell[<<s, c>>] # NUL <=> c <= d
    <3>1. \A c \in Scr!Cols : c <= d => c < d \/ c = d
      BY <2>2, GridFacts
    <3>2. QED
      BY <2>2, <2>3, <3>1, EndFacts
  <2>6. RowText(cell, row) = <<>>
    <3>1. \A c \in Scr!Cols : ~ (c < 0)
      BY GridFacts
    <3>2. QED
      BY <1>1, <2>1, <3>1, EndFacts, RowEmpty
  <2>7. RowsOf(cell)[row + 1] = RowsOf(cell)[row] \o <<>>
    BY <1>1, <2>6, RowsRun
  <2>8. RowsOf(cell)[row] \in Seq(Scr!Chars)
    <3>1. row \in 0 .. Height
      BY <1>1
    <3>2. QED
      BY <1>1, <3>1, RowsRun
  <2>9. Text = RowsOf(cell)[s + 1]
    BY <1>2, <2>3, <2>7, <2>8, ConcatEmptySeq
  <2>10. QED
    BY <1>2, <1>4, <2>2, <2>3, <2>4, <2>5, <2>9
<1>7. CASE Scr!BackspaceNothing
  <2>1. row = 0 /\ col = 0 /\ Scr!Place(cell, row, col)
    BY <1>7 DEF Scr!BackspaceNothing
  <2>2. cell' = cell /\ row' = row
    <3>1. 0 \div Width = 0 /\ row + 0 = row /\ row # Height
      BY <1>1, <2>1
    <3>2. QED
      BY <2>1, <3>1 DEF Scr!Place
  <2>3. RowText(cell, 0) = <<>>
    <3>1. \A c \in Scr!Cols : ~ (c < 0)
      BY GridFacts
    <3>2. QED
      BY <1>1, <2>1, <3>1, EndFacts, RowEmpty
  <2>4. RowsOf(cell)[0 + 1] = <<>> \o <<>>
    BY <1>1, <2>1, <2>3, RowsRun
  <2>5. <<>> \o <<>> = <<>>
    OBVIOUS
  <2>6. QED
    BY <1>2, <2>1, <2>2, <2>4, <2>5
<1>8. QED
  BY <1>5, <1>6, <1>7 DEF ScreenBackspace

-----------------------------------------------------------------------------
(* The end of the text is the prompt and the line, as far as the text goes. *)
Shows(text, line) ==
  \A i \in 0 .. Len(text) - 1 :
    /\ i < Len(line) => text[Len(text) - i] = line[Len(line) - i]
    /\ i = Len(line) => text[Len(text) - i] = PromptCh

(* It is so whenever the shell waits for a key or has just got one.        *)
ShowInv == pc \in {"enable", "read", "got"} => Shows(Text, Line)

(* Counted from their ends, b is as far as it goes a with ch behind it.    *)
SameEnd(a, ch, b) ==
  \A i \in 0 .. Len(b) - 1 :
    /\ i = 0 => b[Len(b) - i] = ch
    /\ i > 0 => /\ i - 1 \in 0 .. Len(a) - 1
                /\ b[Len(b) - i] = a[Len(a) - (i - 1)]

(* The end of a text from which the beginning was scrolled away.           *)
LEMMA EndKept ==
  ASSUME NEW S, NEW a \in Seq(S), NEW ch \in S, NEW gone \in Seq(S), NEW b \in Seq(S),
         Append(a, ch) = gone \o b
  PROVE  SameEnd(a, ch, b)
<1> DEFINE w == Append(a, ch)
           v == gone \o b
<1>1. /\ Len(w) = Len(a) + 1
      /\ w[Len(a) + 1] = ch
      /\ \A n \in 1 .. Len(a) : w[n] = a[n]
      /\ Len(a) \in Nat
  OBVIOUS
<1>2. /\ Len(v) = Len(gone) + Len(b)
      /\ \A n \in 1 .. Len(v) : n > Len(gone) => v[n] = b[n - Len(gone)]
      /\ Len(gone) \in Nat /\ Len(b) \in Nat
  OBVIOUS
<1>3. w = v
  OBVIOUS
<1> HIDE DEF w, v
<1>4. Len(a) + 1 = Len(gone) + Len(b)
  BY <1>1, <1>2, <1>3
<1>5. ASSUME NEW i \in 0 .. Len(b) - 1
      PROVE  /\ i = 0 => b[Len(b) - i] = ch
             /\ i > 0 => /\ i - 1 \in 0 .. Len(a) - 1
                         /\ b[Len(b) - i] = a[Len(a) - (i - 1)]
  <2> DEFINE n == Len(a) + 1 - i
  <2>1. /\ n \in 1 .. Len(v) /\ n > Len(gone)
        /\ n - Len(gone) = Len(b) - i
    BY <1>1, <1>2, <1>4
  <2>2. w[n] = b[Len(b) - i]
    BY <1>2, <1>3, <2>1
  <2>3. CASE i = 0
    <3>1. n = Len(a) + 1
      BY <1>1, <2>3
    <3>2. QED
      BY <1>1, <2>2, <2>3, <3>1
  <2>4. CASE i > 0
    <3>1. n \in 1 .. Len(a) /\ n = Len(a) - (i - 1) /\ i - 1 \in 0 .. Len(a) - 1
      BY <1>1, <1>2, <1>4, <2>4
    <3> HIDE DEF n
    <3>2. w[n] = a[n] /\ i # 0
      <4>1. w[n] = a[n]
        BY <1>1, <3>1
      <4>2. i # 0
        BY <2>4
      <4>3. QED
        BY <4>1, <4>2
    <3>3. b[Len(b) - i] = a[Len(a) - (i - 1)]
      BY <2>2, <3>1, <3>2
    <3>4. QED
      BY <3>1, <3>2, <3>3
  <2>5. QED
    BY <2>3, <2>4
<1>6. QED
  BY <1>5 DEF SameEnd

(* The line as a sequence.                                                 *)
LEMMA LineIsSeq ==
  ASSUME Inv
  PROVE  /\ Line = LineOf(inputBuffer, inputLength)
         /\ Line \in Seq(Keys) /\ Len(Line) = inputLength
         /\ inputBuffer \in [Places -> Keys] /\ inputLength \in 0 .. MaxLength - 1
         /\ inputLength \in Nat /\ MaxLength \in Nat
<1>1. /\ inputBuffer \in [Places -> Keys] /\ inputLength \in 0 .. MaxLength - 1
      /\ inputLength \in Nat /\ MaxLength \in Nat
  BY CharFacts, ConsoleAssumption DEF Inv, TypeOK
<1>2. Line = LineOf(inputBuffer, inputLength)
  BY DEF Line, LineOf
<1>3. QED
  BY <1>1, <1>2, LineSeq

(* The prompt is shown before an empty line.                               *)
LEMMA PromptShown ==
  ASSUME NEW T \in Seq(Scr!Chars), NEW U \in Seq(Scr!Chars),
         NEW gone \in Seq(Scr!Chars), Append(T, PromptCh) = gone \o U
  PROVE  Shows(U, <<>>)
<1>1. PromptCh \in Scr!Chars
  BY DEF Scr!Chars
<1>2. \A i \in 0 .. Len(U) - 1 : i = 0 => U[Len(U) - i] = PromptCh
  <2>1. SameEnd(T, PromptCh, U)
    BY <1>1, EndKept
  <2>2. QED
    BY <2>1 DEF SameEnd
<1>3. Len(<<>>) = 0 /\ Len(U) \in Nat
  OBVIOUS
<1>4. \A i \in 0 .. Len(U) - 1 : ~ (i < 0)
  BY <1>3
<1>5. QED
  BY <1>2, <1>3, <1>4 DEF Shows

(* A character is shown behind the line.                                   *)
LEMMA GlyphShown ==
  ASSUME NEW T \in Seq(Scr!Chars), NEW U \in Seq(Scr!Chars),
         NEW gone \in Seq(Scr!Chars), NEW ch \in Scr!Chars, ch \in Keys,
         Append(T, ch) = gone \o U,
         NEW l \in Seq(Keys), Shows(T, l)
  PROVE  Shows(U, Append(l, ch))
<1> DEFINE m == Append(l, ch)
<1>1. /\ Len(m) = Len(l) + 1 /\ Len(l) \in Nat
      /\ m[Len(l) + 1] = ch
      /\ \A n \in 1 .. Len(l) : m[n] = l[n]
  OBVIOUS
<1>2. Len(U) \in Nat /\ Len(T) \in Nat
  OBVIOUS
<1> HIDE DEF m
<1>3. \A i \in 0 .. Len(U) - 1 :
        /\ i = 0 => U[Len(U) - i] = ch
        /\ i > 0 => /\ i - 1 \in 0 .. Len(T) - 1
                    /\ U[Len(U) - i] = T[Len(T) - (i - 1)]
  <2>1. SameEnd(T, ch, U)
    BY EndKept
  <2>2. QED
    BY <2>1 DEF SameEnd
<1>4. ASSUME NEW i \in 0 .. Len(U) - 1
      PROVE  /\ i < Len(m) => U[Len(U) - i] = m[Len(m) - i]
             /\ i = Len(m) => U[Len(U) - i] = PromptCh
  <2>1. CASE i = 0
    <3>1. Len(m) - i = Len(l) + 1 /\ i # Len(m)
      BY <1>1, <2>1
    <3>2. QED
      BY <1>1, <1>3, <2>1, <3>1
  <2>2. CASE i > 0
    <3>1. i - 1 \in 0 .. Len(T) - 1 /\ U[Len(U) - i] = T[Len(T) - (i - 1)]
      BY <1>3, <2>2
    <3>2. /\ i - 1 < Len(l) => T[Len(T) - (i - 1)] = l[Len(l) - (i - 1)]
          /\ i - 1 = Len(l) => T[Len(T) - (i - 1)] = PromptCh
      BY <3>1 DEF Shows
    <3>3. i < Len(m) => /\ i - 1 < Len(l)
                        /\ Len(l) - (i - 1) \in 1 .. Len(l)
                        /\ Len(m) - i = Len(l) - (i - 1)
      BY <1>1, <1>2, <2>2
    <3>4. i = Len(m) => i - 1 = Len(l)
      BY <1>1, <1>2
    <3>5. i < Len(m) => m[Len(m) - i] = l[Len(l) - (i - 1)]
      BY <1>1, <3>3
    <3>6. QED
      BY <3>1, <3>2, <3>3, <3>4, <3>5
  <2>3. QED
    BY <1>2, <2>1, <2>2
<1>5. QED
  BY <1>4 DEF Shows, m

(* The last character of text and line is taken back.                      *)
LEMMA BackShown ==
  ASSUME NEW T \in Seq(Scr!Chars), NEW U \in Seq(Scr!Chars), NEW x \in Scr!Chars,
         T = Append(U, x), NEW l \in Seq(Keys), Len(l) > 0, Shows(T, l)
  PROVE  Shows(U, SubSeq(l, 1, Len(l) - 1))
<1> DEFINE m == SubSeq(l, 1, Len(l) - 1)
<1>1. /\ Len(m) = Len(l) - 1 /\ Len(l) \in Nat
      /\ \A n \in 1 .. Len(l) - 1 : m[n] = l[n]
  <2>1. Len(l) \in Nat /\ Len(l) - 1 \in Nat
    OBVIOUS
  <2>2. \A i \in 1 .. Len(l) - 1 : i \in 1 .. Len(l) /\ 1 + i - 1 = i
    BY <2>1
  <2>3. \A i \in 1 .. Len(l) - 1 : l[i] \in Keys
    BY <2>2
  <2>4. /\ Len(m) = IF 1 <= Len(l) - 1 THEN (Len(l) - 1) - 1 + 1 ELSE 0
        /\ \A i \in 1 .. (Len(l) - 1) - 1 + 1 : m[i] = l[1 + i - 1]
    BY <2>1, <2>3, SubSeqProperties
  <2>5. (Len(l) - 1) - 1 + 1 = Len(l) - 1
    BY <2>1
  <2>6. QED
    BY <2>1, <2>2, <2>4, <2>5
<1>2. /\ Len(T) = Len(U) + 1 /\ Len(U) \in Nat
      /\ \A n \in 1 .. Len(U) : T[n] = U[n]
  OBVIOUS
<1> HIDE DEF m
<1>3. ASSUME NEW i \in 0 .. Len(U) - 1
      PROVE  /\ i < Len(m) => U[Len(U) - i] = m[Len(m) - i]
             /\ i = Len(m) => U[Len(U) - i] = PromptCh
  <2>1. /\ i + 1 \in 0 .. Len(T) - 1
        /\ Len(U) - i \in 1 .. Len(U) /\ Len(T) - (i + 1) = Len(U) - i
    BY <1>2
  <2>2. U[Len(U) - i] = T[Len(T) - (i + 1)]
    BY <1>2, <2>1
  <2>3. /\ i + 1 < Len(l) => T[Len(T) - (i + 1)] = l[Len(l) - (i + 1)]
        /\ i + 1 = Len(l) => T[Len(T) - (i + 1)] = PromptCh
    BY <2>1 DEF Shows
  <2>4. /\ i < Len(m) => /\ i + 1 < Len(l) /\ Len(m) - i \in 1 .. Len(l) - 1
                         /\ Len(l) - (i + 1) = Len(m) - i
        /\ i = Len(m) => i + 1 = Len(l)
    BY <1>1, <1>2
  <2>5. i < Len(m) => m[Len(m) - i] = l[Len(l) - (i + 1)]
    BY <1>1, <2>4
  <2>6. QED
    BY <2>2, <2>3, <2>4, <2>5
<1>4. QED
  BY <1>3 DEF Shows, m

(* Nothing is shown on an empty screen, and nothing is missed.             *)
LEMMA NothingShown == ASSUME NEW l PROVE Shows(<<>>, l)
<1>1. \A i \in 0 .. Len(<<>>) - 1 : FALSE
  OBVIOUS
<1>2. QED
  BY <1>1 DEF Shows

(* The shell's steps keep prompt and line on the screen.                   *)
LEMMA ShowStep == ASSUME Inv, Inv', ShowInv, [Next]_vars PROVE ShowInv'
<1>1. ScreenEnds /\ ScreenEnds'
  BY DEF Inv
<1>2. Text \in Seq(Scr!Chars) /\ Text' \in Seq(Scr!Chars)
  <2>1. Text' \in Seq(Scr!Chars)
    BY <1>1, TextSeqNext
  <2>2. QED
    BY <1>1, <2>1, TextSeq
<1>3. /\ Line = LineOf(inputBuffer, inputLength)
      /\ Line' = LineOf(inputBuffer', inputLength')
      /\ Line \in Seq(Keys) /\ Len(Line) = inputLength
      /\ inputBuffer \in [Places -> Keys] /\ inputLength \in 0 .. MaxLength - 1
      /\ inputLength \in Nat /\ MaxLength \in Nat
  BY LineIsSeq DEF Line, LineOf
<1>4. CASE UNCHANGED <<cell, row, inputBuffer, inputLength>>
           /\ (pc' = pc \/ pc' \notin {"enable", "read", "got"}
               \/ pc \in {"enable", "read", "got"})
  <2>1. Text' = Text /\ Line' = Line
    BY <1>3, <1>4, TextIsRows, TextIsRowsNext
  <2>2. QED
    BY <1>4, <2>1 DEF ShowInv
<1>5. CASE pc' \notin {"enable", "read", "got"}
  BY <1>5 DEF ShowInv
<1>6. CASE Prompt
  <2>1. Scr!PutGlyph(PromptCh) /\ inputLength' = 0
    BY <1>6 DEF Prompt
  <2>2. PromptCh \in Scr!Chars /\ PromptCh # NUL
    BY DEF Scr!Chars, PromptCh, NUL, Kbd!NUL
  <2>3. PICK gone \in Seq(Scr!Chars) : Append(Text, PromptCh) = gone \o Text'
    BY <1>1, <2>1, <2>2, GlyphText
  <2>4. Shows(Text', <<>>)
    BY <1>2, <2>3, PromptShown
  <2>5. Line' = <<>>
    BY <1>3, <2>1 DEF LineOf
  <2>6. QED
    BY <2>4, <2>5 DEF ShowInv
<1>7. CASE GotCharacter
  <2>1. pc = "got" /\ charBuffer \in Letters /\ charBuffer \in Keys /\ charBuffer # NUL
        /\ charBuffer \in Scr!Chars
    BY <1>7, CharFacts DEF GotCharacter, Inv, TypeOK, KeyInHand, Scr!Chars
  <2>2. CASE inputLength < MaxLength - 1
    <3>1. /\ Scr!PutGlyph(charBuffer)
          /\ inputBuffer' = [inputBuffer EXCEPT ![inputLength] = charBuffer]
          /\ inputLength' = inputLength + 1
      BY <1>3, <1>7, <2>2 DEF GotCharacter
    <3>2. PICK gone \in Seq(Scr!Chars) : Append(Text, charBuffer) = gone \o Text'
      BY <1>1, <2>1, <3>1, GlyphText
    <3>3. Shows(Text, Line)
      BY <2>1 DEF ShowInv
    <3>4. Shows(Text', Append(Line, charBuffer))
      BY <1>2, <1>3, <2>1, <3>2, <3>3, GlyphShown
    <3>5. Line' = Append(Line, charBuffer)
      BY <1>3, <2>1, <2>2, <3>1, LineAppend
    <3>6. QED
      BY <3>4, <3>5 DEF ShowInv
  <2>3. CASE inputLength >= MaxLength - 1
    <3>1. UNCHANGED <<cell, row, inputBuffer, inputLength>>
      BY <1>3, <1>7, <2>3 DEF GotCharacter, scrVars
    <3>2. QED
      BY <1>4, <2>1, <3>1
  <2>4. QED
    BY <1>3, <2>2, <2>3
<1>8. CASE GotBackspace
  <2>1. pc = "got"
    BY <1>8 DEF GotBackspace
  <2>2. CASE inputLength > 0
    <3>1. /\ ScreenBackspace
          /\ inputBuffer' = [inputBuffer EXCEPT ![inputLength] = NUL]
          /\ inputLength' = inputLength - 1
      BY <1>3, <1>8, <2>2 DEF GotBackspace
    <3>2. Line' = SubSeq(Line, 1, Len(Line) - 1)
      BY <1>3, <2>2, <3>1, LineShorter
    <3>3. Shows(Text, Line)
      BY <2>1 DEF ShowInv
    <3>4. CASE Text' = <<>>
      BY <3>4, NothingShown DEF ShowInv
    <3>5. ASSUME NEW x \in Scr!Chars, Text = Append(Text', x) PROVE ShowInv'
      <4>1. Shows(Text', SubSeq(Line, 1, Len(Line) - 1))
        BY <1>2, <1>3, <2>2, <3>3, <3>5, BackShown
      <4>2. QED
        BY <3>2, <4>1 DEF ShowInv
    <3>6. QED
      BY <1>1, <3>1, <3>4, <3>5, BackText
  <2>3. CASE inputLength = 0
    <3>1. UNCHANGED <<cell, row, inputBuffer, inputLength>>
      BY <2>3, <1>8 DEF GotBackspace, scrVars
    <3>2. QED
      BY <1>4, <2>1, <3>1
  <2>4. QED
    BY <1>3, <2>2, <2>3
<1>9. CASE EnableTyping
  BY <1>4, <1>9 DEF EnableTyping, scrVars, lineVars
<1>10. CASE ReadChar
  BY <1>4, <1>10 DEF ReadChar, scrVars
<1>11. CASE \E ch \in Kbd!Scanned : KeyboardInterrupt(ch)
  BY <1>4, <1>11 DEF KeyboardInterrupt, scrVars, lineVars
<1>12. CASE GotNewline \/ DisableTyping \/ RunCommand \/ PsPoll \/ EndCommand
            \/ \E zeros \in BOOLEAN : RunPs(zeros)
  BY <1>5, <1>12 DEF GotNewline, DisableTyping, RunCommand, PsPoll, EndCommand, RunPs
<1>13. CASE UNCHANGED vars
  BY <1>4, <1>13 DEF vars, scrVars, lineVars
<1>14. QED
  BY <1>6, <1>7, <1>8, <1>9, <1>10, <1>11, <1>12, <1>13 DEF Next, Shell

(* What is shown in terms of the end of the text.                          *)
LEMMA ShowMeans == ASSUME Inv, ShowInv PROVE ScreenShowsLine
<1> DEFINE n == Len(Text)
           k == IF n < inputLength THEN n ELSE inputLength
<1>1. Text \in Seq(Scr!Chars) /\ n \in Nat
  <2>1. Text \in Seq(Scr!Chars)
    BY TextSeq DEF Inv
  <2>2. QED
    BY <2>1
<1>2. Line \in Seq(Keys) /\ Len(Line) = inputLength /\ inputLength \in Nat
  BY LineIsSeq
<1>3. SUFFICES ASSUME pc = "read"
      PROVE  /\ SubSeq(Text, n - k + 1, n)
                  = SubSeq(Line, inputLength - k + 1, inputLength)
             /\ n > inputLength => Text[n - inputLength] = PromptCh
  BY DEF ScreenShowsLine
<1>4. Shows(Text, Line)
  BY <1>3 DEF ShowInv
<1> HIDE DEF n
<1>5. \A i \in 0 .. n - 1 :
        /\ i < inputLength => Text[n - i] = Line[inputLength - i]
        /\ i = inputLength => Text[n - i] = PromptCh
  BY <1>2, <1>4 DEF Shows, n
<1>6. n > inputLength => Text[n - inputLength] = PromptCh
  BY <1>1, <1>2, <1>5
<1>7. k \in Nat /\ k <= n /\ k <= inputLength
  BY <1>1, <1>2
<1> HIDE DEF k
<1> DEFINE a == SubSeq(Text, n - k + 1, n)
           b == SubSeq(Line, inputLength - k + 1, inputLength)
           W == Scr!Chars \cup Keys
<1>8. ASSUME NEW s \in Seq(W), NEW m \in Nat, m = Len(s), k <= m
      PROVE  /\ SubSeq(s, m - k + 1, m) \in Seq(W)
             /\ Len(SubSeq(s, m - k + 1, m)) = k
             /\ \A j \in 1 .. k : SubSeq(s, m - k + 1, m)[j] = s[m - k + j]
  <2> HIDE DEF W
  <2>1. \A i \in m - k + 1 .. m : i \in 1 .. Len(s)
    BY <1>7, <1>8
  <2>2. m - k + 1 \in Int /\ m \in Int /\ \A i \in m - k + 1 .. m : s[i] \in W
    BY <1>7, <2>1
  <2>3. /\ SubSeq(s, m - k + 1, m) \in Seq(W)
        /\ Len(SubSeq(s, m - k + 1, m))
             = IF m - k + 1 <= m THEN m - (m - k + 1) + 1 ELSE 0
        /\ \A i \in 1 .. m - (m - k + 1) + 1 :
             SubSeq(s, m - k + 1, m)[i] = s[(m - k + 1) + i - 1]
    BY <2>2, SubSeqProperties
  <2>4. /\ (IF m - k + 1 <= m THEN m - (m - k + 1) + 1 ELSE 0) = k
        /\ m - (m - k + 1) + 1 = k
        /\ \A i \in 1 .. k : (m - k + 1) + i - 1 = m - k + i
    BY <1>7
  <2>5. QED
    BY <2>3, <2>4
<1>9. ASSUME NEW j \in 1 .. k PROVE Text[n - k + j] = Line[inputLength - k + j]
  <2> DEFINE i == k - j
  <2>1. /\ i \in 0 .. n - 1 /\ i < inputLength
        /\ n - i = n - k + j /\ inputLength - i = inputLength - k + j
    BY <1>1, <1>2, <1>7
  <2> HIDE DEF i
  <2>2. Text[n - i] = Line[inputLength - i]
    BY <1>5, <2>1
  <2>3. QED
    BY <2>1, <2>2
<1>10. Text \in Seq(W) /\ Line \in Seq(W)
  <2>1. Seq(Scr!Chars) \subseteq Seq(W) /\ Seq(Keys) \subseteq Seq(W)
    OBVIOUS
  <2>2. QED
    BY <1>1, <1>2, <2>1
<1> HIDE DEF W
<1>11. /\ a \in Seq(W) /\ Len(a) = k /\ \A j \in 1 .. k : a[j] = Text[n - k + j]
       /\ b \in Seq(W) /\ Len(b) = k
       /\ \A j \in 1 .. k : b[j] = Line[inputLength - k + j]
  BY <1>1, <1>2, <1>7, <1>8, <1>10 DEF n
<1> HIDE DEF a, b
<1>12. a = b
  BY <1>9, <1>11, SeqEqual
<1>13. QED
  BY <1>6, <1>12 DEF a, b

-----------------------------------------------------------------------------
(* The theorems.                                                           *)

(* Every reachable state satisfies the invariant.                          *)
THEOREM ConsoleInvariant == Spec => []Inv
BY InitInv, StepInv, PTL DEF Spec

(* Keyboard driver, screen and line buffer always hold values of their     *)
(* kind: inputLength stays inside inputBuffer, the cursor on the screen.   *)
THEOREM ConsoleTypes == Spec => []TypeOK
<1>1. Inv => TypeOK
  BY DEF Inv
<1>2. QED
  BY <1>1, ConsoleInvariant, PTL

(* handleInput() always leaves a C string for parseCommand().              *)
THEOREM TerminatedCorrect == Spec => []Terminated
<1>1. Inv => Terminated
  BY DEF Inv
<1>2. QED
  BY <1>1, ConsoleInvariant, PTL

(* The line in inputBuffer is what a line editor makes of the keys that    *)
(* were read, however interrupts and steps of the shell interleave.        *)
THEOREM EditingCorrect == Spec => []LineIsEdited
<1>1. Inv => LineIsEdited
  BY DEF Inv, LineInv
<1>2. QED
  BY <1>1, ConsoleInvariant, PTL

(* get_keyboard_buffer() never delivers a key twice, nor one that was not  *)
(* pressed while typing was enabled.                                       *)
THEOREM KeysCorrect == Spec => []NoGhostKeys
<1>1. Inv => NoGhostKeys
  BY DEF Inv
<1>2. QED
  BY <1>1, ConsoleInvariant, PTL

(* While a line is typed the screen ends with the prompt and the line.     *)
THEOREM ScreenShows == Spec => []ScreenShowsLine
<1>1. Init => ShowInv
  BY DEF Init, ShowInv
<1>2. Inv /\ Inv' /\ ShowInv /\ [Next]_vars => ShowInv'
  BY ShowStep
<1>3. Inv /\ ShowInv => ScreenShowsLine
  BY ShowMeans
<1>4. QED
  BY <1>1, <1>2, <1>3, ConsoleInvariant, PTL DEF Spec
=============================================================================
