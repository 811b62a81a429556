SPECIFICATION Spec
CONSTANTS
  Partitions = {p1}
  Workers = {w1, w2}
  LogLen = 2
  InitialOffsets = {"oldest"}
  Dated = {0}
  MaxDay = 0
  OutCap = 1
  MaxPoll = 2
  MaxCrashes = 1
  MaxRebalances = 1
  MayCancel = FALSE
INVARIANTS
  NoSilentLoss
