\* Two clients, one after the other.
SPECIFICATION FairSpec
CONSTANTS
  Conns = {c1, c2}
  Base = 2
  Sizes = {0, 1, 3}
  Window = 2
  Overlap = FALSE
  None = None
  c1 = c1
  c2 = c2
INVARIANTS
  TypeOK
  ExactResponse
  NothingUnasked
  WaitsOnlyForCredit
  EntryTracksExchange
PROPERTIES
  EveryRequestServed
  ImplementsExchange
CHECK_DEADLOCK FALSE
