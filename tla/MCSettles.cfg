SPECIFICATION Spec
CONSTANTS
  Tok = {"t1", "t2"}
  Lines = {"t1"}
  Req = {"r1"}
  TokAttempts = 2
  MaxSaves = 1
  MaxTokFaults = 1
  MaxGen = 6
  MaxToggles = 3
  MaxPortMishaps = 2
  Addr = {1, 2}
  BackoffMin = 1
  BackoffMax = 2
  Recheck = 1
  HealthyReset = 2
  MaxChanges = 2
  MaxDnsFaults = 1
  Caller = {"t", "u"}
  SimMac = {"s"}
  RealMac = {"r"}
  PostKinds <- MCPostKinds
  WriteWindow = 1
  WriteMax = 1
  WriteTTL = 1
  ActHorizon = 2
  MaxActFaults = 1
  Quota = 1
  MaxTraffic = 2
  MaxEdits = 2
  MaxMishaps = 1
  AlwaysOnline = FALSE
  Limit = 2
  WarnBefore = 1
  MaxDays = 1
  MaxUse = 3
  MaxCtl = 2
  MaxHitches = 1
  MaxRate = 1
  MaxLimEdits = 2
  MaxLimFaults = 1
  MaxLimWorld = 2
  MaxLimMoves = 3
  VMac = {"m"}
  VAddr = {"p", "q"}
  MaxV6Events = 1
  MaxV6Moves = 2
  MaxV6Faults = 1
  CrashWindow = 2
  CrashesAllowed = 2
  HealthyAfter = 3
  IdleFor = 3
  StepBack = 2
  MaxStepsBack = 1
  Iface = {"w", "p"}
  MaxAttempts = 4
  MaxNet = 2
  MaxSilent = 1
  MaxFatal = 1
  SelfIf = {"a", "b"}
  ChanCap = 2
  DailyCap = 2
  Retention = 1
  LastDay = 2
  MaxDeaths = 1
  MaxFlips = 1
  MaxRemovals = 1
  TConn = {"c", "d", "big"}
  TLen <- MCTLen
  SniEnd = 4
  Isn <- MCIsn
  SeqSpace = 16
  Marked = {0, 2}
  TlsMaxBytes = 5
  TlsMaxEntries = 1
  TlsTTL = 1
  MaxTlsTime = 3
  MaxTold = 1
  QTuple = {"u", "x", "big"}
  QHello <- MCQHello
  QHeader = 2
  QMaxBytes = 5
  QMaxEntries = 1
  QTTL = 1
  MaxQTime = 2
  MaxQTold = 1
INVARIANTS AccessKept PolicyKept CaptureKept
PROPERTIES AccessSettles PolicySettles CaptureSettles TlsKeepsPromise QuicKeepsPromise
CHECK_DEADLOCK FALSE
