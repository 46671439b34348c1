\* Rotation of 4 ticks, deadlines up to 5: both levels and the clamped case.
CONSTANTS
  SLOTS = 2
  LEVELS = 2
  Sleeps = {s1}
  Timeouts = {t1}
  burst = burst
  delay = delay
  skip = skip
  Intervals <- MCIntervals
  Behavior <- MCBehavior
  Period = 2
  MaxLive = 2
  Wakers = {k1, k2}
  NoWaker = NoWaker
  MaxTick = 5
  Deadlines <- MCDeadlines
SPECIFICATION FairSpec
INVARIANTS EntriesSound SleeperStillArmed TicksWithinPeriods
PROPERTY PolledFuturesResolve
