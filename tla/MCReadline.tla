----------------------------- MODULE MCReadline -----------------------------
(* Readline for TLC: the constants have their values in the .cfg file.     *)
EXTENDS Readline
=============================================================================
