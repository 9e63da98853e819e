SPECIFICATION Spec
CONSTANTS
  Mac = {"m1", "m2"}
  Ip = {"i1"}
  Flow = {"f", "g"}
  NoAddr = ""
  MaxClients = 2
  MaxFlows = 1
  MaxGlobalFlows = 1
  MaxIdle = 1
  MaxUnix = 3
  RuleId = {"a", "b", "c"}
  NoParent = "-"
  Hosts = {"w", "aw"}
  Tails <- MCTails
  MaxRules = 3
  MaxAttachDepth = 2
  RFile = {"f", "g"}
  Loader = {"l1", "l2"}
  MaxRuleEdits = 3
  Apex = {"x", "y"}
  Uid = {1, 2}
  PromoteAt = 1
  SharedAt = 3
  ConduitAt = 2
  MaxPromoted = 1
  MaxAge = 0
  ExpandHits = 1
  MaxFwDay = 1
  MaxSeen = 2
  MaxUser = 1
  MaxFwFaults = 2
  Reg = {1, 2, 3}
  DDev = {"d", "e"}
  Listed = {}
  MaxNodes = 2
  MaxEdges = 1
  WindowMax = 2
  PairUnit = 4
  EdgeThreshold = 4
  RestoreEdgeW = 8
  EdgePruneBelow = 3
  SharedEdgeMin = 4
  HubDegree = 1
  MinHits = 2
  MinDevices = 2
  SharedDevices = 2
  SharedGroups = 2
  StickyFor = 3
  NodeMaxAge = 0
  MaxDiscClk = 1
  MaxDiscSeen = 3
  MaxDiscFaults = 1
  FamStep = 2
  MaxFamSamples = 3
  Conn = {"k", "l"}
  ConnDev <- MCConnDev
  Ja4 = {"f"}
  AppLab = {"p"}
  FlowLogMax = 1
  FlowLogMaxAge = 0
  DedupSec = 0
  PairSec = 0
  Unit = 4
  MinSupport = 8
  MinMulti = 4
  MinFpDevs = 2
  TotalCap = 10
  MaxHello = 2
  MaxFpTime = 1
  MaxFpFaults = 1
  Pkg = {"a"}
  Token = {"x", "y"}
  LearnDays = 2
  GapSec = 2
  WinSec = 1
  ReadLines = 2
  MaxSamples = 4
  MaxSfTime = 4
  MaxSfFaults = 1
  SApp <- MCSApp
  STok = {"x", "y", "z"}
  Count = {5, 9}
  FeatMaxApps = 2
  SeenWin = 1
  EventDedup = 2
  MaxSeen0 = 3
  MaxSeenTime = 2
  Cand <- MCCand
  Owners = {"y", "z"}
  TopAddr = 2
  OwnerTables <- MCOwnerTables
  OwnerRecheck = 1
  MaxOwnerTime = 2
  MaxOwnerEdits = 2
  MaxOwnerFaults = 1
  ScanMac = {"a"}
  ScanIp = {1, 2}
  Sync = 1
  Offline = 1
  ReResolve = 2
  MaxScanClk = 4
  MaxKern = 2
  MaxScanMishaps = 1
  MaxAsks = 1
  MaxQueue = 1
  WaitLoop = {"w1", "w2"}
  ProbeEvery = 2
  UiWindow = 3
  BaseEvery = 1
  SlowEvery = 5
  MaxClk = 12
  ProbePace = 1
  IdlePace = 3
  DozePace = 4
  EvSettle = 1
  EvMinGap = 3
  ActWrite = 2
  ActMaxAge = 2
  ActCache = 1
  Boundary = 7
  MaxTick = 10
  MaxNoise = 1
  Tuple = {"k"}
  BufMax = 1
  MaxMoved = 2
  MaxGens = 2
  MaxUseDays = 2
  MaxUseFaults = 1
INVARIANTS TablesKept LearningKept
PROPERTY GroupsKept
CHECK_DEADLOCK FALSE
