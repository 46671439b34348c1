-------------------------------- MODULE Pipe --------------------------------
(***************************************************************************)
(* What one direction of a transport promises: the bytes put in come out   *)
(* once each and in order, and the end of the stream is reported only      *)
(* after the writing side has closed and everything was taken.             *)
(***************************************************************************)
EXTENDS Naturals, Sequences, SequencesExt

VARIABLES in,      \* bytes accepted from the writer
          out,     \* bytes given to the reader
          closed,  \* the writer has closed
          ended    \* the reader was told the end of the stream

pipe == <<in, out, closed, ended>>

Init == in = <<>> /\ out = <<>> /\ closed = FALSE /\ ended = FALSE

Put   == ~closed /\ IsPrefix(in, in') /\ UNCHANGED <<out, closed, ended>>
Get   == ~ended /\ IsPrefix(out, out') /\ IsPrefix(out', in) /\ UNCHANGED <<in, closed, ended>>
Close == closed' = TRUE /\ UNCHANGED <<in, out, ended>>
End   == closed /\ out = in /\ ended' = TRUE /\ UNCHANGED <<in, out, closed>>

Next == Put \/ Get \/ Close \/ End

Spec == Init /\ [][Next]_pipe
=============================================================================
