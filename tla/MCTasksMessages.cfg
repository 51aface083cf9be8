CONSTANTS
  s1 = s1
  s2 = s2
  Servers = {s1, s2}
  Routes = {"target", "page", "firmware", "rtt"}
  TargetOps = {"access"}
  FwOps = {"info", "handler"}
  Firmwares = {"rtt"}
  BinApi = TRUE
  Timeouts = FALSE
SYMMETRY ServerSymmetry
SPECIFICATION Spec
INVARIANTS TypeOK NoOrphanedWait AnswersOwn
