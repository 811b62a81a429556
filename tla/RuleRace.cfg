SPECIFICATION Spec
CONSTANTS
  Workers = {w1, w2}
  Cap = 2
  MaxEvents = 5
  MaxResets = 2
CHECK_DEADLOCK FALSE
INVARIANTS
  TypeOK
  RacesOnlyLose
  OrphansBounded
PROPERTIES
  WindowSettles
SYMMETRY WorkerSymmetry
