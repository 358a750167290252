CONSTANTS
  MaxConns = 2
  TIMEOUT = 2
  FirstTimeout = 5
SPECIFICATION FairSpec
INVARIANTS
  Paired
  ActiveAreLive
  OneUpstream
  NothingStuck
PROPERTIES
  NotSweptEarly
  OneSidedIsSwept
  WaitEnds
