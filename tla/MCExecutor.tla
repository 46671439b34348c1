----------------------------- MODULE MCExecutor -----------------------------
(* Two tasks, one of which runs the executor in its poll, or one that does. *)
EXTENDS Executor

CONSTANT t2

MCReentrant == {Main, t2}
=============================================================================
