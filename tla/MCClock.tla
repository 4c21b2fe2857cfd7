------------------------------ MODULE MCClock -------------------------------
(***************************************************************************)
(* The clock for TLC: the chip in each of its four modes.                  *)
(***************************************************************************)
EXTENDS Clock

AllModes == [binary : BOOLEAN, h24 : BOOLEAN]
=============================================================================
