---------------------------- MODULE MCTimerDriver ---------------------------
(* The driver over a 2 x 2 wheel, with a cap of two ticks for the 100 of   *)
(* the code.                                                               *)
EXTENDS TimerDriver

MCBehavior == [i \in {} |-> "Skip"]
MCDeadlines == 0..MaxTick
=============================================================================
