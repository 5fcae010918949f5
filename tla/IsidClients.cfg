\* Two connections for one CLIENT: reuse, rejection and the gate.
SPECIFICATION FairSpec
CONSTANTS
  Conn = {c1, c2}
  NumSlots = 1
  MaxMsgs = 2
  MayFail = TRUE
INVARIANTS
  OwnRequest
  OpenWhileUsed
PROPERTIES
  Reclaimed
  KeepsListening
CHECK_DEADLOCK FALSE
