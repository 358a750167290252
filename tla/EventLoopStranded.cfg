SPECIFICATION FairSpec
CONSTANTS
  Callers = {t1}
  LoopThread = loopThread
  Functors = {f1, f2}
  MaxCount = 1
PROPERTIES
  QueuedFunctorIsCalled
