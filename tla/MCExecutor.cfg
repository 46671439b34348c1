\* The polls of block_on's future and of t2 may call run_until_stalled; one
\* thread besides the executor's own calls wakers.
CONSTANTS
  Tasks = {t1, t2}
  Main = Main
  t2 = t2
  Threads = {a}
  Exec = Exec
  Reentrant <- MCReentrant
  MaxNest = 1
SPECIFICATION FairSpec
INVARIANTS ScheduledOnce PolledOnlyWhilePending WakeNotLost ParkedOnlyWhenIdle
PROPERTY WokenIsPolled
