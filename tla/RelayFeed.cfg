\* Three things go wrong: a connection breaks, a write fails, the relay is killed
\* or told to stop; the server may overrun the relay.
SPECIFICATION RFairSpec
CONSTANTS
  NumPkt = 2
  NHide = 1
  Pid = {p1}
  NoPid = NoPid
  Reader = {}
  Generate = FALSE
  MaxSeqno = 5
  MaxLog = 6
  HubPkt = 2
  MaxBreaks = 3
INVARIANTS
  StoredOnce
  LostOnlyIfCut
PROPERTIES
  EventuallyStored
CHECK_DEADLOCK FALSE
