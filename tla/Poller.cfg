SPECIFICATION Spec
CONSTANTS
  Channels = {c1, c2, c3}
  Fds = {0, 4, 6}
SYMMETRY Symmetry
INVARIANTS
  IndexConsistent
  AssertsHold
PROPERTIES
  ActiveAreEnabled
