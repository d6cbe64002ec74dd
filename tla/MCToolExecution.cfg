SPECIFICATION Spec
CONSTANTS
  p1 = p1 k1 = k1 None = None
  Proc = {p1}
  Cap = 1
  Chunk = 2
  MaxWritten = 2
  Call = {k1}
INVARIANTS
  NothingLost
  NothingLeftRunning
  AnswerTruth
  RecordedTruth
PROPERTIES
  Returns
  CallAnswered
  CloseReturns
CHECK_DEADLOCK FALSE
