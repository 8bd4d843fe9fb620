---------------------------- MODULE MCCliBroker ----------------------------
(* Two tasks share the broker of the control window; one command is safe,  *)
(* one needs approval.                                                     *)
EXTENDS CliBroker, TLC

CONSTANTS task1, task2, list, delete

Symmetry == Permutations(Callers)
=============================================================================
