------------------------------- MODULE MCGame -------------------------------
(* Game for TLC: a small field and monsters that move along it.            *)
EXTENDS Game

MCDirs == {<<-1, 0>>, <<1, 1>>}
=============================================================================
