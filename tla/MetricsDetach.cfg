\* The programs are detached while the polling task sleeps.
SPECIFICATION Spec
CONSTANTS
  Calls <- SomeCalls
  Capacity = 2
  MaxCalls = 2
  Word = 8
  Faults = FALSE
INVARIANT
  DetachFlushes
CHECK_DEADLOCK FALSE
