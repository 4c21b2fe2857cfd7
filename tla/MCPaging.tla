------------------------------ MODULE MCPaging ------------------------------
(***************************************************************************)
(* The page manager for TLC.                                               *)
(***************************************************************************)
EXTENDS Paging

(* The stack may hold anything where the new kernel entry is: a frame of   *)
(* the machine, the first one behind it or the last number of the field.   *)
Anything == [frame : Frames \cup {FrameCount, 1023}, user : BOOLEAN]
=============================================================================
