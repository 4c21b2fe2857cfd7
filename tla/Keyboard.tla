------------------------------ MODULE Keyboard ------------------------------
(***************************************************************************)
(* The keyboard driver of src/src/keyboard.c: one character of buffer,     *)
(* filled by the interrupt handler and emptied by the system call that     *)
(* reads it.  A scancode is what keyboard_scancode_1_to_ascii_map makes of *)
(* it; key releases and keys without a character map to NUL, and their     *)
(* interrupt overwrites the buffer like any other.                         *)
(***************************************************************************)
EXTENDS Integers

CONSTANTS
  KeyChars,     \* the characters that the scancode map yields, without NUL
  ColRange      \* 256: col is a uint8_t

NUL     == "NUL"
Newline == "newline"

VARIABLES
  input_on,     \* keyboard_input_on
  buffer,       \* keyboard_buffer
  kcol          \* col: counts the interrupts since the last '\n'

keyboard == <<input_on, buffer, kcol>>

Scanned == KeyChars \cup {NUL}

(* keyboard_status has static storage and starts out as zeros.             *)
Init ==
  /\ input_on = FALSE
  /\ buffer = NUL
  /\ kcol = 0

(* keyboard_isr(), with the character of the scancode it has read.         *)
Isr(ch) ==
  /\ \/ /\ input_on
        /\ buffer' = ch
        /\ kcol' = IF ch = Newline THEN 0 ELSE (kcol + 1) % ColRange
     \/ /\ ~ input_on
        /\ UNCHANGED <<buffer, kcol>>
  /\ UNCHANGED input_on

(* keyboard_state_activate() and keyboard_state_deactivate()               *)
Activate ==
  /\ input_on' = TRUE
  /\ UNCHANGED <<buffer, kcol>>

Deactivate ==
  /\ input_on' = FALSE
  /\ UNCHANGED <<buffer, kcol>>

(* Mutated form: the buffer is not flushed.                                *)
GetBufferUnflushed == UNCHANGED keyboard

(* get_keyboard_buffer(): the caller gets buffer, which is then flushed.   *)
GetBuffer ==
  /\ buffer' = NUL
  /\ UNCHANGED <<input_on, kcol>>

(* The driver's state has its type.                                        *)
TypeOK ==
  /\ input_on \in BOOLEAN
  /\ buffer \in Scanned
  /\ kcol \in 0 .. ColRange - 1
=============================================================================
