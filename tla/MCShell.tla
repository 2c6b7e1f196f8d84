----------------------------- MODULE MCShell -----------------------------
(* Shell for TLC: the constants have their values in the .cfg file.     *)
EXTENDS Shell
=============================================================================
