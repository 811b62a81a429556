SPECIFICATION FairSpec
CONSTANTS
  Workers = {w1, w2}
  MaxMsgs = 2
  RawCap = 1
  OutCap = 1
  HasAlertChannel = TRUE
CHECK_DEADLOCK FALSE
INVARIANTS
  TypeOK
  AcceptedIsStored
  NothingLostWhileRunning
PROPERTIES
  ShutdownCompletes
