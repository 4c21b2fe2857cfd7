------------------------------ MODULE Console -------------------------------
(***************************************************************************)
(* The input loop of the shell (src/src/user-shell.c: shell and            *)
(* handleInput) together with the keyboard driver it polls and the screen  *)
(* it echoes to.  A keyboard interrupt may come between any two steps of   *)
(* the shell; a system call is one step, because interrupts are off in it. *)
(*                                                                         *)
(* taken, presses and reads are history: they record what was read and     *)
(* how often, and no step looks at them but for the bound on presses.      *)
(***************************************************************************)
EXTENDS Integers, Sequences, FiniteSets

CONSTANTS
  Width, Height,     \* the screen
  Letters,           \* the keys that carry an ordinary character
  ColRange,          \* see Keyboard
  MaxLength,         \* SHELL_MAX_LENGTH (256)
  PsColumn,          \* COL_FRAME_COUNT of ps (36)
  MaxPresses         \* bound: the characters that are typed

BS       == "backspace"      \* '\b'
PromptCh == "prompt"         \* the last character of the prompt
OutCh    == "output"         \* what a command prints

ASSUME ConsoleAssumption ==
  /\ MaxLength \in Nat \ {0}
  /\ MaxPresses \in Nat /\ PsColumn \in Nat
  /\ ColRange \in Nat \ {0}
  /\ Width \in 1 .. 255 /\ Height \in 1 .. 255
  /\ Letters \cap {BS, PromptCh, OutCh, "NUL", "newline"} = {}

VARIABLES
  input_on, buffer, kcol,          \* the keyboard driver
  cell, row, col,                  \* the screen
  pc,                              \* where the shell is
  charBuffer, inputBuffer, inputLength,
  taken, presses, reads            \* history

Kbd == INSTANCE Keyboard WITH
  KeyChars <- Letters \cup {BS, "newline"}
Scr == INSTANCE Framebuffer WITH
  Glyphs <- Letters \cup {PromptCh, OutCh}

NUL     == Kbd!NUL
Newline == Kbd!Newline

kbdVars   == <<input_on, buffer, kcol>>
scrVars   == <<cell, row, col>>
lineVars  == <<inputBuffer, inputLength, taken>>
countVars == <<presses, reads>>
vars == <<kbdVars, scrVars, pc, charBuffer, lineVars, countVars>>

Places == 0 .. MaxLength - 1
Cleared == [i \in Places |-> NUL]

Init ==
  /\ Kbd!Init
  /\ Scr!Init
  /\ pc = "prompt"
  /\ charBuffer = NUL
  /\ inputBuffer = Cleared
  /\ inputLength = 0
  /\ taken = <<>>
  /\ presses = 0
  /\ reads = 0

(* IRQ 1: a key is pressed or released.                                    *)
KeyboardInterrupt(ch) ==
  /\ Kbd!Isr(ch)
  /\ \/ ch = NUL /\ UNCHANGED presses
     \/ /\ ch # NUL
        /\ presses < MaxPresses
        /\ presses' = IF input_on THEN presses + 1 ELSE presses
  /\ UNCHANGED <<scrVars, pc, charBuffer, lineVars, reads>>

(* Mutated form: the length of the last line is kept.                      *)
PromptKeepingLength ==
  /\ pc = "prompt"
  /\ Scr!PutGlyph(PromptCh)
  /\ inputBuffer' = Cleared
  /\ taken' = <<>>
  /\ pc' = "enable"
  /\ UNCHANGED <<kbdVars, charBuffer, inputLength, countVars>>

(* The prompt is shown and the line is cleared.                            *)
Prompt ==
  /\ pc = "prompt"
  /\ Scr!PutGlyph(PromptCh)
  /\ inputBuffer' = Cleared
  /\ inputLength' = 0
  /\ taken' = <<>>
  /\ pc' = "enable"
  /\ UNCHANGED <<kbdVars, charBuffer, countVars>>

EnableTyping ==
  /\ pc = "enable"
  /\ Kbd!Activate
  /\ pc' = "read"
  /\ UNCHANGED <<scrVars, charBuffer, lineVars, countVars>>

(* SYSCALL_READ_CHAR, polled until there is a character.                   *)
ReadChar ==
  /\ pc = "read"
  /\ charBuffer' = buffer
  /\ Kbd!GetBuffer
  /\ \/ /\ buffer = NUL
        /\ UNCHANGED <<pc, taken, reads>>
     \/ /\ buffer # NUL
        /\ pc' = "got"
        /\ taken' = Append(taken, buffer)
        /\ reads' = reads + 1
  /\ UNCHANGED <<scrVars, inputBuffer, inputLength, presses>>

GotNewline ==
  /\ pc = "got"
  /\ charBuffer = Newline
  /\ Scr!PutNewline
  /\ pc' = "disable"
  /\ UNCHANGED <<kbdVars, charBuffer, lineVars, countVars>>

(* putchar() of '\b', wherever the cursor is.                              *)
ScreenBackspace == Scr!Backspace \/ Scr!BackspaceRow \/ Scr!BackspaceNothing

(* Mutated form: '\b' is always sent to the screen.                        *)
GotBackspaceUnchecked ==
  /\ pc = "got"
  /\ charBuffer = BS
  /\ inputLength' = IF inputLength > 0 THEN inputLength - 1 ELSE 0
  /\ inputBuffer' = [inputBuffer EXCEPT ![inputLength] = NUL]
  /\ ScreenBackspace
  /\ pc' = "read"
  /\ UNCHANGED <<kbdVars, charBuffer, taken, countVars>>

(* Mutated form: '\b' in an empty line never lets go of the key.           *)
GotBackspaceStuck ==
  /\ pc = "got"
  /\ charBuffer = BS
  /\ \/ /\ inputLength > 0
        /\ inputBuffer' = [inputBuffer EXCEPT ![inputLength] = NUL]
        /\ inputLength' = inputLength - 1
        /\ ScreenBackspace
        /\ pc' = "read"
     \/ /\ inputLength = 0
        /\ UNCHANGED <<inputBuffer, inputLength, scrVars, pc>>
  /\ UNCHANGED <<kbdVars, charBuffer, taken, countVars>>

(* The character that is erased is the one behind the last: the last one   *)
(* stays in the buffer, behind the new inputLength.                        *)
GotBackspace ==
  /\ pc = "got"
  /\ charBuffer = BS
  /\ \/ /\ inputLength > 0
        /\ inputBuffer' = [inputBuffer EXCEPT ![inputLength] = NUL]
        /\ inputLength' = inputLength - 1
        /\ ScreenBackspace
     \/ /\ inputLength = 0
        /\ UNCHANGED <<inputBuffer, inputLength, scrVars>>
  /\ pc' = "read"
  /\ UNCHANGED <<kbdVars, charBuffer, taken, countVars>>

(* Mutated form: the limit leaves no room for the terminating NUL.         *)
GotCharacterTooMany ==
  /\ pc = "got"
  /\ charBuffer \notin {Newline, BS}
  /\ \/ /\ inputLength < MaxLength
        /\ Scr!PutGlyph(charBuffer)
        /\ inputBuffer' = [inputBuffer EXCEPT ![inputLength] = charBuffer]
        /\ inputLength' = inputLength + 1
     \/ /\ inputLength >= MaxLength
        /\ UNCHANGED <<inputBuffer, inputLength, scrVars>>
  /\ pc' = "read"
  /\ UNCHANGED <<kbdVars, charBuffer, taken, countVars>>

GotCharacter ==
  /\ pc = "got"
  /\ charBuffer \notin {Newline, BS}
  /\ \/ /\ inputLength < MaxLength - 1
        /\ Scr!PutGlyph(charBuffer)
        /\ inputBuffer' = [inputBuffer EXCEPT ![inputLength] = charBuffer]
        /\ inputLength' = inputLength + 1
     \/ /\ inputLength >= MaxLength - 1
        /\ UNCHANGED <<inputBuffer, inputLength, scrVars>>
  /\ pc' = "read"
  /\ UNCHANGED <<kbdVars, charBuffer, taken, countVars>>

DisableTyping ==
  /\ pc = "disable"
  /\ Kbd!Deactivate
  /\ pc' = "run"
  /\ UNCHANGED <<scrVars, charBuffer, lineVars, countVars>>

(* parseCommand(), as far as it shows: some output or none.  What the      *)
(* commands do to the file system is the subject of ShellCommands.         *)
RunCommand ==
  /\ pc = "run"
  /\ Scr!PutGlyph(OutCh) \/ UNCHANGED scrVars
  /\ pc' = "done"
  /\ UNCHANGED <<kbdVars, charBuffer, lineVars, countVars>>

(* The command ps.  Its calls of puts() have the count 0 and print nothing. *)
(* Its loops wait for the column of the keyboard driver to come to a       *)
(* number, 36 in the end.  The kernel stores one byte of col and the other *)
(* three are never set: unless they happen to be zeros, no loop waits.     *)
RunPs(zeros) ==
  /\ pc = "run"
  /\ pc' = IF zeros THEN "ps" ELSE "done"
  /\ UNCHANGED <<kbdVars, scrVars, charBuffer, lineVars, countVars>>

(* A round of these loops: SYSCALL_GET_CURSOR_COL and the comparison.      *)
PsPoll ==
  /\ pc = "ps"
  /\ pc' = IF kcol < PsColumn THEN "ps" ELSE "done"
  /\ UNCHANGED <<kbdVars, scrVars, charBuffer, lineVars, countVars>>

(* The line break after each command.                                      *)
EndCommand ==
  /\ pc = "done"
  /\ Scr!PutNewline
  /\ pc' = "prompt"
  /\ UNCHANGED <<kbdVars, charBuffer, lineVars, countVars>>

Shell ==
  \/ Prompt \/ EnableTyping \/ ReadChar \/ GotNewline \/ GotBackspace
  \/ GotCharacter \/ DisableTyping \/ RunCommand \/ PsPoll \/ EndCommand
  \/ \E zeros \in BOOLEAN : RunPs(zeros)

Next == Shell \/ \E ch \in Kbd!Scanned : KeyboardInterrupt(ch)

(* The shell is the only process, it never blocks, and the timer interrupt *)
(* always resumes it.                                                      *)
Spec == Init /\ [][Next]_vars /\ WF_vars(Shell)

-----------------------------------------------------------------------------
(***************************************************************************)
(* Properties.                                                             *)
(***************************************************************************)

(* Every variable holds a value of its kind.                               *)
TypeOK ==
  /\ Kbd!TypeOK
  /\ Scr!TypeOK
  /\ pc \in {"prompt", "enable", "read", "got", "disable", "run", "ps", "done"}
  /\ charBuffer \in Kbd!Scanned
  /\ inputBuffer \in [Places -> Kbd!Scanned]
  /\ inputLength \in 0 .. MaxLength - 1
  /\ taken \in Seq(Kbd!Scanned)
  /\ presses \in 0 .. MaxPresses
  /\ reads \in Nat

(* The line as far as the shell counts it.                                 *)
Line == [i \in 1 .. inputLength |-> inputBuffer[i - 1]]

(* What parseCommand() is handed is a C string: the last place is never    *)
(* written, whatever is typed and erased at the limit, and the line that   *)
(* the shell counts is no longer than the string.                          *)
Terminated ==
  /\ inputBuffer[MaxLength - 1] = NUL
  /\ \A i \in Places : i < inputLength => inputBuffer[i] # NUL

(* What a line editor makes of the keys: letters are added up to the       *)
(* limit, '\b' takes back the last one.                                    *)
Edited(keys) ==
  LET e[n \in 0 .. Len(keys)] ==
        CASE n = 0 -> <<>>
          [] n > 0 /\ keys[n] = BS ->
               SubSeq(e[n - 1], 1, Len(e[n - 1]) - 1)
          [] OTHER ->
               IF keys[n] = Newline \/ Len(e[n - 1]) = MaxLength - 1
                 THEN e[n - 1] ELSE Append(e[n - 1], keys[n])
  IN  e[Len(keys)]

(* Outside of handling a key the line is what the keys read since the      *)
(* prompt make of it, wherever interrupts came in between.                 *)
LineIsEdited == pc # "got" => Line = Edited(taken)

(* The rows of the screen down to the cursor, one after the other.         *)
Shown(r) ==
  LET n == Width - Cardinality({c \in 0 .. Width - 1 : cell[<<r, c>>] = NUL})
  IN  [c \in 1 .. n |-> cell[<<r, c - 1>>]]
Text ==
  LET t[r \in 0 .. Height] == IF r = 0 THEN <<>> ELSE t[r - 1] \o Shown(r - 1)
  IN  t[row + 1]

(* While a line is typed the screen ends with the prompt and the line, or  *)
(* with as much of them as has not been scrolled away: the user sees what  *)
(* the shell counts, and '\b' never erases the prompt or earlier output.   *)
ScreenShowsLine ==
  pc = "read" =>
    LET n == Len(Text)
        k == IF n < inputLength THEN n ELSE inputLength
    IN  /\ SubSeq(Text, n - k + 1, n)
             = SubSeq(Line, inputLength - k + 1, inputLength)
        /\ n > inputLength => Text[n - inputLength] = PromptCh

(* No key is read twice, and none that was not pressed while typing was    *)
(* enabled: get_keyboard_buffer() flushes what it delivers.                *)
NoGhostKeys == reads + (IF buffer = NUL THEN 0 ELSE 1) <= presses

(* A key does not stay in the buffer: once no more keys are pressed, the   *)
(* shell reads the last one, in this line or in the next.  The exception   *)
(* is ps, which waits for the column to move while typing is disabled.     *)
KeysAreRead == []<>(buffer = NUL \/ (pc = "ps" /\ ~ input_on))

=============================================================================
