------------------------------ MODULE MCKernel ------------------------------
(* Kernel for TLC: the values of its constants are in the .cfg files.       *)
EXTENDS Kernel
=============================================================================
