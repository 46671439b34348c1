---------------------------- MODULE MCJoinHandle ----------------------------
(* One completer, one handle, two wakers.                                  *)
EXTENDS JoinHandle
=============================================================================
