SPECIFICATION RulesSpec
CONSTANTS
  Services = {s1, s2}
  Messages = {m1}
  Addresses = {a1}
  Users = {u1}
  None = None
  EvictInterval = 2
  Cooldown = 3
  Window = 1
  Threshold = 2
  BreachRate = 50
  StartHours = {9, 22}
  EndHours = {17}
  Zones = {0, 7}
  SilenceAfter = 1
  MinLogCount = 2
  CheckInterval = 2
  Ahead = 1
  Delays = {0, 1, 2}
  MaxTime = 5
  MaxEvents = 3
  MaxSilenceTime = 12
CHECK_DEADLOCK FALSE
INVARIANTS
  TypeOK
  MemoryBounded
  WindowPerService
  SilenceTypeOK
  SilenceFoundInTime
  UnalertedOnlyAsRepeatOrLost
  CooldownsForgotten
PROPERTIES
  AnswersAsIfNothingEvicted
  ImplementsAlertDedup
  ReportedOnlyIfSilent
  OneReportPerOutage
SYMMETRY ServiceSymmetry
