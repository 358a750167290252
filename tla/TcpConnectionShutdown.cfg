SPECIFICATION Spec
CONSTANTS
  Callers = {t1}
  LoopThread = loopThread
  None = none
  MaxMessages = 2
  MessageSize = 2
INVARIANTS
  SentBeforeShutdown
