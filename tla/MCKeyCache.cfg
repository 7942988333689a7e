SPECIFICATION KeysFairSpec
CONSTANTS
  issued = issued
  unknown = unknown
  Bearer <- MCBearer
  Document <- MCDocument
  Verification = {r1, r2}
  Throttle = 2
  Ttl = 3
  FetchTime = 1
  MaxVersion = 2
PROPERTIES
  KeysNeverGoBack
  WithdrawnKeyRefused
  RotatedKeyAccepted
  ForcedRefreshesSpaced
  EveryTokenAnswered
CHECK_DEADLOCK FALSE
