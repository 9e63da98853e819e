\* The constants of hnc_launcher.c; a dpid dies at once, soon, later or after
\* the crash window.  The launcher may end: no deadlock check.
SPECIFICATION LauncherFairSpec
CONSTANTS
  BackoffMin = 2
  BackoffMax = 30
  CrashWindow = 60
  CrashLimit = 5
  CrashCooldown = 120
  RunTimes = {0, 7, 25, 61}
  ForkFails = TRUE
  MayHang = TRUE
INVARIANTS LauncherTypeOK StormBound NoOrphan FlagMeansNoDpid
PROPERTIES Respawns StopsOutsideWindow
CHECK_DEADLOCK FALSE
