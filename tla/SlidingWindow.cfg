SPECIFICATION Spec
CONSTANTS
  Cap = 3
  Window = 2
  MaxTime = 3
  MaxHead = 7
INVARIANTS
  TypeOK
  Indices
  CountScansContents
PROPERTIES
  RefinesUnlessWrapped
