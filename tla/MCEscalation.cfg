SPECIFICATION Spec
CONSTANTS
  PerRequest = 10
  ThrottleAt = 14
  TarpitAt = 20
  BlockAt = 24
  Engine = {e1}
  Request = {r1, r2, r3}
  s1 = s1
  t1 = t1
  Source = {s1, t1, unknown}
  Unknown = unknown
  Trusted = {t1}
  Call <- MCCall
  Detector = {"heuristic"}
  Window = 2
  Slack = 2
  Burst = 1
  MaxClock = 4
  MaxFaults = 1
CONSTRAINT OneStray
SYMMETRY Symmetry
INVARIANTS
  IdleForgotten
  OneTearCostsOne
PROPERTIES
  NotInflated
  NotForgotten
  BurstHasCompany
  OnlyAsEarned
CHECK_DEADLOCK FALSE
