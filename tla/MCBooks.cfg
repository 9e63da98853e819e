SPECIFICATION Spec
CONSTANTS
  Verifier = {"v1", "v2"}
  MaxCodes = 2
  BurnAfter = 2
  MaxWrong = 6
  MaxRenameErr = 1
  MaxSids = 1
  MaxLost = 1
  IP = {"a", "b"}
  MaxEntries = 1
  PinMax = 3
  PinWindow = 3
  LockBase = 3
  LockMax = 4
  BackoffMemory = 3
  GlobalWindow = 2
  GlobalMax = 3
  Capacity = 1
  EntryTTL = 1
  Horizon = 7
  Guest = {"g", "k"}
  Hw = {"h", "i"}
  MaxAccSaves = 1
  MaxAccFaults = 1
  MaxAccHeals = 1
  Handler = {"h1", "h2"}
  Client = {"a", "b"}
  Name = {"x"}
  TTL = 2
  CacheMax = 1
  Burst = 1
  RatePerSec = 1
  MaxClients = 1
  IdleDrop = 1
  TcpConn = {"k", "l", "m"}
  MaxTcp = 2
  MaxSec = 3
  MaxQueries = 2
  MaxVersions = 1
  MaxBlockEdits = 1
  Mac = {"a", "b", "c"}
  Old = "a"
  New = "b"
  MaxMerges = 2
  MaxFail = 2
  MaxCrash = 1
  Macs = {"n", "o"}
  Randomised = {"n"}
  NewWindow = 1
  CandMaxAge = 2
  ProfileTTL = 3
  DismissTTL = 2
  Slop = 0
  MaxProfiles = 2
  TopN = 1
  MaxClk = 5
  MaxDismissals = 1
  MaxMerged = 1
  MaxBadSaves = 1
  Host = {"w", "aw", "v", "u"}
  Ups <- MCUps
  App = {"p", "q"}
  Shared = {"u"}
  MaxImports = 2
  MaxWriteErr = 1
  Dev = {"d", "e"}
  Odd = {"d"}
  Cooldown = 1
  Day = 1
  MaxTime = 2
  MaxAppendErr = 1
  MaxScanCrash = 1
  MaxMarks = 1
  Writer = {"w1"}
  MinWall = 1
  BackTolerance = 2
  JumpThreshold = 2
  PersistEvery = 2
  HealAfter = 3
  TrustAfterBoot = 2
  MaxWall = 6
  MaxBoot = 5
  MaxSets = 2
  MaxRestarts = 1
  Plan = 3
  Warn = 2
  PuDays = 2
  MaxBytes = 3
  MaxBad = 1
  SampleEvery = 2
  CreditMax = 5
  FlushEvery = 6
  DayLen = 7
  MaxOnlineTime = 16
  MaxOnlineFaults = 2
INVARIANTS GatesKept WordKept BooksKept
CHECK_DEADLOCK FALSE
PROPERTY LocksGrow
