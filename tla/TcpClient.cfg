SPECIFICATION FairSpec
CONSTANTS
  Callers = {t1, t2}
  Sockets = {s1, s2, s3}
  None = none
  kInitRetryDelayMs = 1
  kMaxRetryDelayMs = 3
  MaxTimers = 4
  MaxPending = 2
CHECK_DEADLOCK FALSE
INVARIANTS
  OneAttempt
  SocketsOwned
  StopIsKept
  NothingLeft
PROPERTIES
  StoppedBeginsNothing
  KeepsTrying
