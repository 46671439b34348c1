CONSTANTS
  Wakers = {k1, k2}
  NoWaker = NoWaker
SPECIFICATION FairJoinSpec
INVARIANTS AwaiterNotLost ReadyHasResult OutcomeIsTrue DroppedTaskIsSettled
PROPERTY AwaitTerminates
CHECK_DEADLOCK FALSE
