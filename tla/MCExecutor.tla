----------------------------- MODULE MCExecutor -----------------------------
(* Two task threads on one executor, with the `strict` threshold, and a    *)
(* registry that lacks a tool.                                             *)
EXTENDS Executor

CONSTANTS left, right
=============================================================================
