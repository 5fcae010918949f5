\* Nobody kills the foreground process while it hands over to its child.
SPECIFICATION DSpec
CONSTANTS
  NumPkt = 1
  NHide = 1
  Pid = {p1, p2, p3}
  NoPid = NoPid
  Reader = {}
  Generate = TRUE
  MaxSeqno = 3
  MaxLog = 2
  ForkerDies = FALSE
SYMMETRY Symmetry
INVARIANTS
  SingleWriter
