--------------------------- MODULE MCTimerFutures ---------------------------
(* A Sleep, a Timeout and an Interval of each behaviour on a 2 x 2 wheel.  *)
EXTENDS TimerFutures, TLC

CONSTANTS burst, delay, skip

MCDeadlines == 0..MaxTick
MCIntervals == {burst, delay, skip}
MCBehavior == (burst :> "Burst") @@ (delay :> "Delay") @@ (skip :> "Skip")
=============================================================================
