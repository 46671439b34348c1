\* Both ends read and write up to three bytes in every way.
CONSTANTS
  MaxBytes = 3
  Wants = {0, 2}
  Slices <- MCSlices
  ShortIo = TRUE
SPECIFICATION FairIoSpec
INVARIANTS BytesInOrder ReaderNotLost
PROPERTIES ImplementsPipe ReadReturns
CHECK_DEADLOCK FALSE
