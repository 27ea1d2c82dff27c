----------------------------- MODULE MCExecutor -----------------------------
(* The executor with a few tasks, for TLC.                                  *)
EXTENDS Executor, TLC
=============================================================================
