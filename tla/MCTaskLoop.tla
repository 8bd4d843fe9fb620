----------------------------- MODULE MCTaskLoop -----------------------------
(* One action of each sort the loop tells apart: a click may be retried,   *)
(* typing may not, a stroke may not and draws.                             *)
EXTENDS TaskLoop

CONSTANTS click, type, stroke
=============================================================================
