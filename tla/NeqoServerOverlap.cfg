\* Two clients at the same time.
SPECIFICATION Spec
CONSTANTS
  Conns = {c1, c2}
  Base = 2
  Sizes = {0, 1, 3}
  Window = 2
  Overlap = TRUE
  None = None
  c1 = c1
  c2 = c2
INVARIANTS
  ExactResponse
CHECK_DEADLOCK FALSE
