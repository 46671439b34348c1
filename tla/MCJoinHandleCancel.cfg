\* A handle is cancelled, polled, and its task completes.
CONSTANTS
  Wakers = {k1, k2}
  NoWaker = NoWaker
SPECIFICATION JoinSpec
PROPERTY CancelledIsRepeatable
CHECK_DEADLOCK FALSE
