\* Calls of both processes; the ring buffer may be full.
SPECIFICATION FairSpec
CONSTANTS
  Calls <- AllCalls
  Capacity = 2
  MaxCalls = 4
  Word = 4
  Faults = TRUE
INVARIANTS
  TypeOK
  EachEventOnce
  OutputIsPrefix
PROPERTIES
  PollerCatchesUp
  SignalEnds
CHECK_DEADLOCK FALSE
