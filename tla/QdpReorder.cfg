\* The sequence numbers wrap after the second packet.
SPECIFICATION FairSpec
CONSTANTS
  Modulus = 16
  Window = 4
  SendWindow = 4
  AckCnt = 2
  NBuf = 8
  First = 14
  MaxMade = 19
  MaxReg = 2
  MaxDacks = 1
INVARIANTS
  AckedIsHeld
  NeverClash
PROPERTIES
  InOrder
  CatchesUp
CHECK_DEADLOCK FALSE
