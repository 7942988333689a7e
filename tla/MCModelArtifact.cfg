SPECIFICATION Spec
CONSTANTS
  Training = {t1, t2, t3}
  Engine = {e1}
  Request = {r1, r2}
  Missing = missing
  Malformed = malformed
INVARIANTS
  ReportedIsFound
  EngineNeverGoesBack
SYMMETRY Symmetry
