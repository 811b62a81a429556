SPECIFICATION FairSpec
CONSTANTS
  Partitions = {p1}
  Workers = {w1, w2}
  LogLen = 2
  InitialOffsets = {"oldest", "newest"}
  Dated = {0}
  MaxDay = 1
  OutCap = 1
  MaxPoll = 2
  MaxCrashes = 1
  MaxRebalances = 1
  MayCancel = TRUE
CHECK_DEADLOCK FALSE
INVARIANTS
  TypeOK
  MarkedWasSent
  NothingSkipped
  ReprocessingIsIdempotent
PROPERTIES
  CommittedNeverRewinds
  EveryRecordStored
  CancelEndsRun
  ClosedChannelDrains
