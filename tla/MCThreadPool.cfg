CONSTANTS
  Tasks = {k1, k2}
  MaxThreads = 3
  StartCount = 0
  ThreadCount = 1
  Reserve = 1
  MaxChecks = 2
  NoTask = NoTask
SPECIFICATION FairSpec
INVARIANTS
  TypeOK
  GoneIsNowhere
  BegunOnce
  Undisturbed
PROPERTIES
  GivenIsBegun
  ShutdownEnds
CHECK_DEADLOCK FALSE
