---------------------------- MODULE MCProcTable ----------------------------
(* Model-checking instances of ProcTable.                                    *)
EXTENDS ProcTable, TLC

Symmetry == Permutations(Slot \ {InitSlot})
=============================================================================
