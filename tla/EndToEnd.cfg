SPECIFICATION Spec
CONSTANTS
  Absent = Absent
  Malformed = Malformed
  MaxPage = 3
  DefaultSize = 1
  MaxSize = 2
  ResultWindow = 5
  Unit = 2
  Workers = {1, 2}
  Files <- MCFiles
  Duration = 1
  MaxBuffered = 1
  PassPercent = 60
  WarnPercent = 40
  SettledPercent = 30
  MaxRecords = 2
CHECK_DEADLOCK FALSE
INVARIANTS
  TypeOK
  VerdictRight
  PagesPartition
PROPERTY
  DriverEnds
