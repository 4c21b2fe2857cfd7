----------------------------- MODULE MCProcess ------------------------------
(***************************************************************************)
(* Processes for TLC.                                                      *)
(***************************************************************************)
EXTENDS Process

(* The stack holds zeros where the new kernel entry is.                    *)
Zeros == {[frame |-> 0, user |-> FALSE]}
=============================================================================
