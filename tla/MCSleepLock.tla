---------------------------- MODULE MCSleepLock ----------------------------
(* Model-checking instances of SleepLock.                                    *)
EXTENDS SleepLock, TLC

Symmetry == Permutations(Proc)
=============================================================================
