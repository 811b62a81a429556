SPECIFICATION Spec
CONSTANTS
  Workers = {w1, w2}
  Watcher = Watcher
  Services = {s1}
  NumDetectors = 1
  Cooldown = 2
  Warmup = 1
  OutCap = 1
  MaxTime = 6
  Never = Never
INVARIANTS
  TypeOK
  CooldownSpacing
  WarmupSuppression
  CooldownsRemember
PROPERTIES
  ImplementsAlertDedup
