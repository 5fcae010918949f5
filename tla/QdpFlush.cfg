\* The digitiser forgets the library with packets in the reorder buffer.
SPECIFICATION Spec
CONSTANTS
  Modulus = 16
  Window = 4
  SendWindow = 4
  AckCnt = 2
  NBuf = 8
  First = 14
  MaxMade = 19
  MaxReg = 2
  MaxDacks = 1
INVARIANTS
  QueueAgrees
CHECK_DEADLOCK FALSE
