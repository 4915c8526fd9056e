CONSTANTS
  s1 = s1
  s2 = s2
  s3 = s3
  Sessions = {s1, s2}
  Account <- TwoAccounts
  Continents = {"east"}
  Instances = {"cave"}
  Twice = {}
  Strays = {"cave"}
  PlayerLimit = 1
  MaxPackets <- TwoAndNone
  NoMap = NoMap
  NoSession = NoSession
SPECIFICATION Spec
INVARIANTS
  TypeOK
  PushedIsPending
  HandedBack
CHECK_DEADLOCK FALSE
