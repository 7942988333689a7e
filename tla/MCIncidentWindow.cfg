SPECIFICATION Spec
CONSTANTS
  Task = {t1}
  Timer = {i1}
  Gap = 2
  Window = 3
  MinRequests = 2
  MaxSamples = 3
  Lag = 0
  MaxPending = 4
  MaxClock = 9
INVARIANTS
  WindowWithinLimit
CHECK_DEADLOCK FALSE
