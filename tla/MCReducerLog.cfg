SPECIFICATION Spec
CONSTANTS
  MaxId = 10
  Id <- Ids
  Offered <- Least
  CallLists <- TwoCalls
  read = read c1 = c1 c2 = c2
  CallId = {c1, c2}
  ToolName = {read}
  Model = {m1}
  Definition = {d1}
  Environment = {e1}
  ReplayKey = {k1}
  MaxUsage = 1
  None = None
INVARIANTS
  TypeOK
  OneUnfinished
  OpenAttemptIsCurrent
  IntentMatchesResult
PROPERTIES
  CompletedRunAnswered
  FinishedIsFinal
  ImplementsProtocol
CONSTRAINT Small
CHECK_DEADLOCK FALSE
