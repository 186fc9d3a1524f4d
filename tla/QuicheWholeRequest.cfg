\* The request arrives as the client sends it, in one piece; the connection may be lost.
SPECIFICATION FairSpec
CONSTANTS
  Base = 2
  Sizes = {0, 1, 3}
  Window = 2
  Split = FALSE
  Lossy = TRUE
  None = None
INVARIANTS
  TypeOK
  ClientGetsBlob
  ResponseContinues
  WorkerSurvives
  NeverQuietUnanswered
PROPERTIES
  WrittenIsAnswered
  ImplementsExchange
CHECK_DEADLOCK FALSE
