SPECIFICATION FairSpec
CONSTANTS
  Request = {r1}
  Provider = {"mcp", "http", "none"}
  Tokens = {2, 3}
  MaxLocalTokens = 2
  LocalTarget = {"local-inference", "cloud-proxy"}
  Timeout = 2
  HttpTimeout = 3
  Chunk = {1, 2}
  MaxBytes = 3
  Id = {1, 2}
INVARIANTS
  AnswerIsOwn
  EndsInTime
PROPERTIES
  EveryPredictionEnds
