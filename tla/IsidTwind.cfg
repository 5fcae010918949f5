\* One client, and a writer that comes round the ring.
SPECIFICATION TFairSpec
CONSTANTS
  NRec = 3
  NHide = 1
  MaxRec = 5
  Requests <- MCRequests
INVARIANTS
  WindowWhole
PROPERTIES
  Consecutive
  KeepsUp
CHECK_DEADLOCK FALSE
