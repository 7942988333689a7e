SPECIFICATION CaptchaSpec
CONSTANTS
  Replica = {c1, c2}
  Visit = {r1, r2}
  Challenge = {h1, h2, h3}
  Nonce = {n1, n2}
  Ttl = 1
  MaxChallenges = 2
  MaxTokens = 1
  MaxClock = 2
SYMMETRY Symmetry
INVARIANTS
  CaptchaTypeOK
  AcceptedOnce
PROPERTIES
  LiveTokenHonoured
  TurnedAwayWhenFull
