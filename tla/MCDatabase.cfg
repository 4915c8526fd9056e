SPECIFICATION FairSpec
CONSTANTS
  c1 = c1
  c2 = c2
  Callers = {c1}
  MaxQueries = 2
  Limit <- Two
  Connections = 3
  Spurious = TRUE
INVARIANTS
  TypeOK
  NoSleepOnWork
PROPERTIES
  QueuedIsPerformed
  CallsReturn
  EndThreadsReturns
  ImplementsService
CHECK_DEADLOCK FALSE
