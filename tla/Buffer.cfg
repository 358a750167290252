SPECIFICATION Spec
CONSTANTS
  kCheapPrepend = 2
  kInitialSize = 2
  ExtraSize = 2
  Bytes = {0, 1}
  MaxLen = 3
  MaxReadable = 4
INVARIANTS
  SpaceIsMade
PROPERTIES
  GrowsOnlyWhenFull
  ImplementsByteQueue
