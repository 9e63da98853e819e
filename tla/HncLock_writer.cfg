SPECIFICATION Spec
CONSTANTS
  p1 = p1
  p2 = p2
  p3 = p3
  a = a
  Proc = {p1, p2, p3}
  Mac = {a}
  Gate = Gate
  None = None
  Slow = {}
  Killable = {}
  TimeoutRounds = 3
  StaleFrom = 1
  StaleEvery = 1
INVARIANT SingleWriterAlways
CHECK_DEADLOCK FALSE
