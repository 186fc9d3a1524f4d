\* A client asks for more bytes than the length of a buffer can count.
SPECIFICATION FairSpec
CONSTANTS
  Conns = {c1}
  Base = 3
  Sizes = {3, 7}
  Limit = 6
  Memory = 7
INVARIANTS
  ExactResponse
CHECK_DEADLOCK FALSE
