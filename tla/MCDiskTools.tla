---------------------------- MODULE MCDiskTools ----------------------------
(* DiskTools for TLC: the constants have their values in the .cfg files.   *)
EXTENDS DiskTools
=============================================================================
