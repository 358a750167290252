SPECIFICATION Spec
CONSTANTS
  Channels = {c1, c2}
  Fds = {3, 4}
INVARIANTS
  InterestIsPolled
