SPECIFICATION Spec
CONSTANTS
  p1 = p1
  p2 = p2
  r1 = r1
  r2 = r2
  a = a
  aMapped = aMapped
  proxy = proxy
  junk = junk
  none = none
  Process = {p1, p2}
  Request = {r1, r2}
  Text = {a, aMapped, proxy, junk}
  Addr = {a, proxy}
  NoAddr = none
  Trusted = {proxy}
  Enabled = {p1, p2}
  Canon <- MCCanon
  Serves <- MCServes
SYMMETRY Symmetry
INVARIANTS
  ServingSeesOnlyCanonical
PROPERTIES
  OnlyABlockCallAdds
  SharedSpec
