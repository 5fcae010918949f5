\* One buffer, two packets, sockets that hold one frame, one fault.
SPECIFICATION FairSpec
CONSTANTS
  SockBuf = 3
  Depth = 1
  MaxPkt = 2
  MaxFaults = 1
INVARIANTS
  ArrivesAsSent
  NeverHosed
PROPERTIES
  Pushed
CHECK_DEADLOCK FALSE
