---------------------------- MODULE MCInodeTable ----------------------------
(* The inode table for TLC. *)
EXTENDS InodeTable, TLC
Symmetry == Permutations(Proc) \cup Permutations(Ino)
=============================================================================
