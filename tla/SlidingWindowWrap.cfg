SPECIFICATION HSpec
CONSTANTS
  Cap = 3
  Window = 2
  MaxTime = 3
  MaxHead = 7
INVARIANTS
  CountIsExact
