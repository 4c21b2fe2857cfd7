------------------------------- MODULE MCFAT32 -------------------------------
(***************************************************************************)
(* The FAT32 driver for TLC, and what its header says of it.               *)
(***************************************************************************)
EXTENDS FAT32, TLC

(* The driver compares names and does nothing else with them, so those     *)
(* that it gives no meaning to may be exchanged.                           *)
NameSymmetry == Permutations(Names \ {"..", RootName})

-----------------------------------------------------------------------------
(* What src/src/header/filesystem/fat32.h says of the calls.               *)

Called == disk.cell[op.parent].table

(* write(): "write a file or folder to file system", "0 success".          *)
WrittenIsListed ==
  op.call = "write" /\ op.ret = 0 /\ Quiet =>
    SlotsNamed(Called, op.name, op.ext) # {}

(* delete(): "delete a file or empty directory in file system": what has   *)
(* been deleted is no longer listed.                                       *)
DeletedIsGone ==
  op.call = "delete" /\ op.ret = 0 /\ Quiet =>
    \A l \in Listed(disk) :
      disk.fat[EntryAt(disk, l).cluster] # FAT32_FAT_EMPTY_ENTRY

=============================================================================
