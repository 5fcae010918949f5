\* Every sound loop of 4 + 1 slots, every numbering with gaps, every target.
SPECIFICATION FairSpec
CONSTANTS
  NumPkt = 4
  NHide = 1
  MaxSeqno = 5
INVARIANTS
  StartsAtFirstWanted
  RefusedRightly
  ProbesOnlyWindow
PROPERTIES
  Answers
CHECK_DEADLOCK FALSE
