----------------------------- MODULE MCVideo -----------------------------
(* Video for TLC: the constants have their values in the .cfg file.     *)
EXTENDS Video
=============================================================================
