SPECIFICATION Spec
CONSTANTS
  Slots = {1}
  WRAP = 7
  PREACTIVE_TIMEOUT_MS = 4
  Heartbeats = {2, 3}
  MaxGap = 2
  MaxTime = 15
INVARIANTS
  ClockExact
  SilentSessionEnds
PROPERTIES
  EvictedOnlyAfterSilence
