SPECIFICATION FairSpec
CONSTANTS
  Names = {a, b, c}
  MaxThreads = 2
CHECK_DEADLOCK FALSE
INVARIANTS
  FunctorsFindConnection
  RegisteredAreLive
  Balanced
PROPERTIES
  Serves
  ClosedIsErased
