CONSTANTS
  s1 = s1
  s2 = s2
  s3 = s3
  Sessions = {s1}
  Account <- OneAccount
  Continents = {"east"}
  Instances = {"cave"}
  Twice = {}
  Strays = {}
  PlayerLimit = 1
  MaxPackets <- Two
  NoMap = NoMap
  NoSession = NoSession
SPECIFICATION FairSpec
PROPERTY StrandedIsDeleted
CHECK_DEADLOCK FALSE
