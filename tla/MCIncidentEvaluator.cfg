SPECIFICATION EvaluatorFairSpec
CONSTANTS
  Site = {s1, s2}
  Request = {r1, r2}
  Patience = {2, 3}
  CallTimeout = 2
  Cooldown = 3
PROPERTIES
  ConfirmedNotRepeated
  AttackAlerted
CHECK_DEADLOCK FALSE
