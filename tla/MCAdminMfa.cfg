SPECIFICATION Spec
CONSTANTS
  User = {u1}
  Request = {r1, r2, r3}
  Secret = {s1, s2, s3}
  Code = {k1, k2, k3, k4}
  BatchSize = 2
SYMMETRY Symmetry
INVARIANTS
  CodesCurrent
  UsedOnceUnlessStale
PROPERTIES
  SecretKept
