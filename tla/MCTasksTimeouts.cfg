CONSTANTS
  s1 = s1
  s2 = s2
  Servers = {s1}
  Routes = {"rtt", "firmware"}
  TargetOps = {"access"}
  FwOps = {"handler"}
  Firmwares = {"rtt"}
  BinApi = FALSE
  Timeouts = TRUE
SPECIFICATION Spec
INVARIANTS NoOrphanedWait RttReadsOwn RttFollowsFw
