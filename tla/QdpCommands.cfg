\* A control connection, room for the digitiser to forget it once.
SPECIFICATION MFairSpec
CONSTANTS
  Console = FALSE
  Started <- ControlThreads
  Buffers = 3
  MaxUp = 2
  MayFail = FALSE
PROPERTIES
  CommandAnswered
  ThreadsEnd
  ShutdownCompletes
CHECK_DEADLOCK FALSE
