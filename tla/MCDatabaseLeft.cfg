SPECIFICATION Spec
CONSTANTS
  c1 = c1
  c2 = c2
  Callers = {c1, c2}
  MaxQueries = 1
  Limit <- OneEach
  Connections = 2
  Spurious = FALSE
INVARIANT
  NothingLeft
CHECK_DEADLOCK FALSE
