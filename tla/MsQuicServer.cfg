\* Two clients, whose sizes are below the limit of a buffer; the larger response does
\* not fit into the memory beside another.
SPECIFICATION FairSpec
CONSTANTS
  Conns = {c1, c2}
  Base = 3
  Sizes = {3, 5}
  Limit = 6
  Memory = 7
INVARIANTS
  TypeOK
  BufferOutlivesSend
  NothingLeaked
  WholeRequestServed
PROPERTIES
  ServerStops
  ImplementsExchange
CHECK_DEADLOCK FALSE
