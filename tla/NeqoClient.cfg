\* A client, a server whose response may be too short or too long and that may close
\* the connection.
SPECIFICATION FairSpec
CONSTANTS
  Sizes = {0, 1, 3}
  Replies = {0, 1, 2, 3, 4}
INVARIANTS
  TypeOK
PROPERTIES
  CallsReturn
  ImplementsExchange
CHECK_DEADLOCK FALSE
