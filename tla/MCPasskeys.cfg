SPECIFICATION Spec
CONSTANTS
  User = {u1, u2}
  Request = {r1, r2}
  Credential = {k1, k2}
  Ceremony = {c1, c2, c3}
  Token = {t1, t2}
  None = None
SYMMETRY Symmetry
INVARIANTS
  OneSessionPerCeremony
  SessionEarned
PROPERTIES
  CredentialKeepsOwner
CHECK_DEADLOCK FALSE
