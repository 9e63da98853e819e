\* Every fault, three of them in any order; short times that
\* keep the order of the real ones (window < 2 windows, fuse, suppression).
SPECIFICATION FairSpec
CONSTANTS
  Iface = {wlan2, usb0}
  None = None
  Window = 2
  WindowMax = 4
  RestoreMax = 2
  MaxGap = 1
  FuseMax = 2
  FuseTime = 2
  Suppress = 3
  Cores = {TRUE, FALSE}
  Kinds = {"flush", "unseen flush", "move", "refused", "init refused", "tc busy", "tc fails", "fails",
           "kill", "cleanup", "restart", "reboot", "reprobe", "check busy"}
  Faults = 3
INVARIANT
  TypeOK
PROPERTY
  Converges
  BlacklistReturns
