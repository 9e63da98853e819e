SPECIFICATION Spec
CONSTANTS
  p1 = p1
  p2 = p2
  p3 = p3
  a = a
  Proc = {p1, p2, p3}
  Mac = {a}
  Gate = Gate
  None = None
  Slow = {a, Gate}
  Killable = {p1}
  TimeoutRounds = 2
  StaleFrom = 0
  StaleEvery = 1
SYMMETRY Symm
INVARIANTS TypeOK SingleWriter GateDrains NoOrphan NeverSelfBlocked
CHECK_DEADLOCK FALSE
