SPECIFICATION Spec
CONSTANTS
  t1 = t1 t2 = t2 t3 = t3 h1 = h1 h2 = h2
  Txn = {t1, t2, t3}
  Facts <- OneOrTwoFacts
  Handle = {h1, h2}
  MaxClones = 2
  Crashes = 2
  MaxUnits = 7
INVARIANTS
  AckedIsKept
CHECK_DEADLOCK FALSE
