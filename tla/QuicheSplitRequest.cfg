\* The header and the end of the request arrive separately.
SPECIFICATION Spec
CONSTANTS
  Base = 2
  Sizes = {0, 1, 3}
  Window = 2
  Split = TRUE
  Lossy = FALSE
  None = None
INVARIANT
  ClientGetsBlob
CHECK_DEADLOCK FALSE
