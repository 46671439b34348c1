---------------------------- MODULE MCTimerWheel ----------------------------
(* Small wheels for TLC: see the .cfg files for SLOTS x LEVELS.            *)
EXTENDS TimerWheel

CONSTANT MaxDeadline
MCDeadlines == 0..MaxDeadline
=============================================================================
