CONSTANTS
  s1 = s1
  s2 = s2
  s3 = s3
  Sessions = {s1, s2}
  Account <- SameAccount
  Continents = {"east"}
  Instances = {}
  Twice = {"a"}
  Strays = {}
  PlayerLimit = 2
  MaxPackets <- TwoAndNone
  NoMap = NoMap
  NoSession = NoSession
SPECIFICATION FairSpec
INVARIANTS HandedBack OneSessionPerAccount
PROPERTY DisconnectedIsDeleted
CHECK_DEADLOCK FALSE
