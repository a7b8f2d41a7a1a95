------------------------------ MODULE MCTraps ------------------------------
(* The instance of Traps on which kernel_vec's promise to the interrupted     *)
(* kernel code is checked.                                                    *)
EXTENDS Traps
=============================================================================
