--------------------------- MODULE MCControlWindow ---------------------------
(* Two tasks at once.                                                      *)
EXTENDS ControlWindow

CONSTANTS task1, task2
=============================================================================
