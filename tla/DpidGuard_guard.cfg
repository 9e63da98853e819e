\* Short times that keep the order of the real ones: the shift reaches its cap, one
\* sleep is as long as QuickDeath (idle probe and doze) and one is shorter.
SPECIFICATION FairSpec
CONSTANTS
  SpawnBase = 1
  SpawnMax = 4
  QuickDeath = 3
  MaxBackoff = 2
  LogFresh = 4
  Window = 6
  Gaps = {1, 3}
  Choices = {"direct", ""}
  Bins = {"ok", "aborts", "missing"}
  Rebinds = 1
  FewDeaths = TRUE
  Deaths = 3
  StartLimit = 3
INVARIANTS TypeOK NoStorm StillbornCounts
PROPERTY Recovers
