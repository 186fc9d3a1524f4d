\* The request is queued when the worker already waits.
SPECIFICATION FairSpec
CONSTANTS
  Base = 2
  Sizes = {0, 1, 3}
  Window = 2
  Split = FALSE
  Lossy = FALSE
  None = None
PROPERTY
  QueuedIsWritten
CHECK_DEADLOCK FALSE
