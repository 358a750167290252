SPECIFICATION Spec
CONSTANTS
  Addresses = {a1, a2}
  Callers = {t1}
  Intervals = {1}
  Whens = {0, 2, 3}
  MaxTime = 3
  MaxTimers = 2
  MaxPending = 1
INVARIANTS
  ReturnsOwnId
