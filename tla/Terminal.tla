------------------------------ MODULE Terminal ------------------------------
(***************************************************************************)
(* What a text terminal shows, without cells and cursor: at most MaxLines  *)
(* lines of text, of which only the last one is still being written.       *)
(* Characters are added and taken away at the end of the text only, and    *)
(* when there is no room for another line the oldest one goes.             *)
(***************************************************************************)
EXTENDS Integers, Sequences

CONSTANTS
  MaxLines,     \* the lines that fit on the terminal
  LineLength,   \* the characters that fit on a line
  Visible,      \* the characters that can be put
  EndMark       \* the mark of a line that has been ended

VARIABLE lines

Init == lines = <<<<>>>>

Current == lines[Len(lines)]
Done    == SubSeq(lines, 1, Len(lines) - 1)

(* A line has been completed: a new one is begun below it.                 *)
Complete(l) ==
  LET all == Append(Append(Done, l), <<>>)
  IN  lines' = IF Len(all) > MaxLines THEN Tail(all) ELSE all

Put(ch) ==
  LET l == Append(Current, ch)
  IN  IF Len(l) = LineLength THEN Complete(l) ELSE lines' = Append(Done, l)

End == Complete(Append(Current, EndMark))

(* Taking back the last character there is, if there is one.               *)
Erase ==
  LET Front(s) == SubSeq(s, 1, Len(s) - 1)
  IN  \/ /\ Current # <<>>
         /\ lines' = Append(Done, Front(Current))
      \/ /\ Current = <<>> /\ Done # <<>>
         /\ lines' = Append(Front(Done), Front(Done[Len(Done)]))

Wipe == lines' = <<<<>>>>

Next == (\E ch \in Visible : Put(ch)) \/ End \/ Erase \/ Wipe

Spec == Init /\ [][Next]_lines
=============================================================================
