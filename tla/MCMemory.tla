------------------------------ MODULE MCMemory ------------------------------
(* Memory for TLC: the constants have their values in the .cfg files.      *)
EXTENDS Memory
=============================================================================
