SPECIFICATION FairSpec
CONSTANTS
  Callers = {t1, t2}
  LoopThread = loopThread
  None = none
  MaxMessages = 2
  MessageSize = 2
INVARIANTS
  StreamIntact
  WritingWhilePending
PROPERTIES
  FinAfterBytes
  ImplementsMessageStream
  ShutdownSendsFin
  BytesGoOut
