SPECIFICATION Spec
CONSTANTS
  MaxId = 6
  Id <- Ids
  Offered <- Least
  CallLists <- OneCall
  read = read c1 = c1 c2 = c2
  CallId = {c1, c2}
  ToolName = {read}
  Model = {m1}
  Definition = {d1}
  Environment = {e1}
  ReplayKey = {k1}
  MaxUsage = 0
  None = None
INVARIANTS SettledNotRetried
CHECK_DEADLOCK FALSE
