SPECIFICATION FairSpec
CONSTANTS
  Task = {t1, t2}
  Timer = {i1, i2, i3}
  Gap = 2
  Window = 3
  MinRequests = 2
  MaxSamples = 3
  Lag = 1
  MaxPending = 4
  MaxClock = 5
INVARIANTS
  TypeOK
  NoLostWakeup
PROPERTIES
  SignalsSpaced
  EventuallyReported
CHECK_DEADLOCK FALSE
