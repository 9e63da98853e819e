SPECIFICATION FairSpec
CONSTANTS
  p1 = p1
  p2 = p2
  p3 = p3
  a = a
  Proc = {p1, p2, p3}
  Mac = {a}
  Gate = Gate
  None = None
  Slow = {}
  Killable = {p1}
  TimeoutRounds = 2
  StaleFrom = 0
  StaleEvery = 2
PROPERTIES ScriptEnds StaleMacReclaimed
CHECK_DEADLOCK FALSE
