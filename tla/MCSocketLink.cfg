SPECIFICATION FairSpec
CONSTANTS
  here = here
  there = there
  t1 = t1
  t2 = t2
  t3 = t3
  Ends = {here, there}
  Senders = {t1, t2, t3}
  Home <- AllThree
  NoThread = NoThread
  Byte = {"h", "b"}
  AnyByte = "b"
  Capacity = 5
  BodySize = 1
  MaxPackets = 2
  KernelRoom = 3
  ReadRoom = 2
  LockModulus = 4
  ChecksSpace = TRUE
INVARIANTS
  TypeOK
  WholePackets
  SendLockIsBinary
  NothingUnpushed
  OnlyThreeStalls
PROPERTIES
  AllDelivered
  IsPacketStream
CHECK_DEADLOCK FALSE
