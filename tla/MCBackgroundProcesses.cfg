SPECIFICATION Spec
CONSTANTS
  a1 = a1 a2 = a2 p1 = p1 None = None
  Agent = {a1, a2}
  Pid = {p1}
  MaxLife = 3
INVARIANTS
  EndedIsEnded
  SignalsOwn
PROPERTIES
  CloseLeavesNone
CHECK_DEADLOCK FALSE
