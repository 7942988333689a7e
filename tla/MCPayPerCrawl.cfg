SPECIFICATION FairSpec
CONSTANTS
  Token = {t1}
  Request = {r1, r2}
  Amount = {1, 2}
  Charge = 2
  NoRow = none
  Gateway = TRUE
  MaxCharged = 4
INVARIANTS
  TypeOK
  Solvent
  NothingLost
PROPERTIES
  ChargeSettled
