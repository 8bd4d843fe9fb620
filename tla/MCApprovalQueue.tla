--------------------------- MODULE MCApprovalQueue ---------------------------
(* Two tasks started with the Run button, each on a thread of its own.     *)
EXTENDS ApprovalQueue

CONSTANTS task1, task2
=============================================================================
