\* One client among any number, writers killed where it matters to readers.
SPECIFICATION SFairSpec
CONSTANTS
  NumPkt = 2
  NHide = 1
  Pid = {p1}
  NoPid = NoPid
  Reader = {isid}
  Generate = TRUE
  MaxSeqno = 4
  MaxLog = 4
  Thread = {t1}
  Requests <- MCRequests
  KillPc = {"incyngest", "committed"}
  MayHangUp = TRUE
INVARIANTS
  DeliversInOrder
PROPERTIES
  EventuallyServed
  RequestCompletes
