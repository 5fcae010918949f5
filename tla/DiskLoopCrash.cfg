\* Two writers that take turns, die, fail and are refused; a reader; 2 + 1 slots.
SPECIFICATION FairSpec
CONSTANTS
  NumPkt = 2
  NHide = 1
  Pid = {p1, p2}
  NoPid = NoPid
  Reader = {r1}
  Generate = TRUE
  MaxSeqno = 6
  MaxLog = 5
INVARIANTS
  IInv
  WindowIntact
  ReaderSeesWhole
  SeqnoIncreases
  CountNeverAhead
PROPERTIES
  StableUnderReadLock
  AppendsOneByOne
  LockComesBack
