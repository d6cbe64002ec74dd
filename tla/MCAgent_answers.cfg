SPECIFICATION ObservedFairSpec
CONSTANTS
  MaxId = 24
  Id <- Ids
  read = read bash = bash c1 = c1 c2 = c2
  m1 = m1 m2 = m2 d1 = d1 d2 = d2 e1 = e1 e2 = e2 k1 = k1 k2 = k2
  CallId = {c1, c2}
  ToolName = {read, bash}
  Model = {m1, m2}
  Definition = {d1, d2}
  Environment = {e1, e2}
  ReplayKey = {k1, k2}
  MaxUsage = 2
  None = None
  Setups <- FewerTools
  Answers <- Odd
  Keep = 1
  Reserve = 9
  Prompts = 1
  Escs = 2
  Crashes = 1
INVARIANTS
  EndsAreTrue
PROPERTIES
  RefusedOnly
  AnswerReported
  AbortEnds
  RecoveryEnds
