\* Three entries on a 2 x 3 wheel: 8 ticks per rotation, deadlines up to 9 so
\* that the top level is clamped; entries share slots, are unlinked from the
\* middle of a list and cascade together.
CONSTANTS
  SLOTS = 2
  LEVELS = 3
  Entries = {e1, e2, e3}
  MaxDeadline = 9
  Deadlines <- MCDeadlines
  MaxTick = 10
SPECIFICATION Spec
INVARIANT WheelSound
PROPERTY ImplementsTimerService
