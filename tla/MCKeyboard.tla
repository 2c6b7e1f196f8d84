----------------------------- MODULE MCKeyboard -----------------------------
(* Keyboard for TLC: the constants have their values in the .cfg file.     *)
EXTENDS Keyboard
=============================================================================
