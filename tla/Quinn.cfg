\* Two experiments of the script, or two health checks and the run of the test.
SPECIFICATION FairSpec
CONSTANTS
  Clients = {1, 2, 3}
  Base = 3
  Sizes = {0, 2}
  Experiments = 2
  Attempts = 2
INVARIANTS
  TypeOK
  FreshServer
  NothingLeftRunning
PROPERTIES
  ExchangeSucceeds
  TasksEnd
  ScriptEnds
  ImplementsExchange
CHECK_DEADLOCK FALSE
