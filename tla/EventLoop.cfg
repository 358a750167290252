SPECIFICATION FairSpec
CONSTANTS
  Callers = {t1, t2}
  LoopThread = loopThread
  Functors = {f1, f2, f3}
  MaxCount = 2
INVARIANTS
  NoLostWakeup
PROPERTIES
  BatchNeverGrows
  ImplementsExecutor
  RemoteFunctorIsCalled
  QuitStopsLoop
