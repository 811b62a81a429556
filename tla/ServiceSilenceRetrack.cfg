SPECIFICATION Spec
CONSTANTS
  Services = {s1, s2}
  EvictInterval = 2
  Cooldown = 3
  Window = 1
  Threshold = 1
  BreachRate = 0
  StartHours = {}
  EndHours = {}
  Zones = {}
  SilenceAfter = 1
  MinLogCount = 2
  CheckInterval = 2
  MaxTime = 12
INVARIANTS
  RetrackedAfterMinLogCount
