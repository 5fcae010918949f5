\* A data connection over a console, all six threads.
SPECIFICATION MSpec
CONSTANTS
  Console = TRUE
  Started <- AllThreads
  Buffers = 2
  MaxUp = 1
  MayFail = TRUE
INVARIANTS
  SocketsOutliveThreads
  HandleOutlivesThreads
  ConnectedIsUpOrDead
CHECK_DEADLOCK FALSE
