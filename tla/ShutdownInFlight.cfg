SPECIFICATION Spec
CONSTANTS
  Workers = {w1, w2}
  MaxMsgs = 2
  RawCap = 1
  OutCap = 1
  HasAlertChannel = FALSE
INVARIANTS
  InFlightIsIndexed
CHECK_DEADLOCK FALSE
