\* Durations, and retry delays, above and below the cap of two ticks: the
\* second delay is 4, cut to 3.  The driver misses its signal in some
\* behaviours.
CONSTANTS
  SLOTS = 2
  LEVELS = 2
  Sleeps = {s1}
  Timeouts = {t1}
  Intervals = {}
  Behavior <- MCBehavior
  Period = 1
  MaxLive = 2
  Wakers = {k1}
  NoWaker = NoWaker
  MaxTick = 8
  Deadlines <- MCDeadlines
  CAP = 2
  Durations = {1, 3}
  Retrying = {s1}
  MaxAttempts = 3
  InitialDelay = 1
  Multiplier = 4
  MaxDelay = 3
  MaxClock = 5
SPECIFICATION DriverSpec
INVARIANTS LateByLessThanCap EarlyByAtMostCap RetryWaits
