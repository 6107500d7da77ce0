SPECIFICATION Spec
CONSTANTS
  Target = {t1, t2}
  Primitive = {p1, p2}
  Task = {k1, k2}
  FirstTarget = t1
  FirstPrimitive = p1
  None = None
  MaxEdits = 1
  MaxTurns = 1
CHECK_DEADLOCK FALSE
INVARIANT
  UnstaleIsCurrent
