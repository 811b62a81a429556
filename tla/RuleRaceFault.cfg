SPECIFICATION Spec
CONSTANTS
  Workers = {w1, w2}
  Cap = 2
  MaxEvents = 4
  MaxResets = 2
CHECK_DEADLOCK FALSE
INVARIANTS
  ConcurrentUseIsSafe
