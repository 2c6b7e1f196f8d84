------------------------------ MODULE MCKernel ------------------------------
(* Kernel for TLC: small instances of the constants are in the .cfg files. *)
EXTENDS PcbLists
=============================================================================
