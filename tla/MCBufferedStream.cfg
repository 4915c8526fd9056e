SPECIFICATION Spec
CONSTANTS
  Byte = {0, 1}
  Capacity = 5
  AnyByte = 0
INVARIANTS
  TypeOK
  HalfUsable
PROPERTIES
  IsFifo
