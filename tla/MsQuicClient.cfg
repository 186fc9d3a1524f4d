\* A server whose response may be too short or too long or that may abort, a connection
\* that may go down.
SPECIFICATION FairSpec
CONSTANTS
  Blobs <- BlobStrings
  Replies = {0, 1, 2, 3, 4}
  Kilo = 16
  Word = 64
INVARIANTS
  TypeOK
  StateOutlivesCallbacks
  NothingLeftOpen
PROPERTIES
  RunReturns
  ImplementsExchange
CHECK_DEADLOCK FALSE
