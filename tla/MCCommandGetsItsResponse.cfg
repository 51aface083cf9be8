CONSTANTS
  s1 = s1
  s2 = s2
  Servers = {s1}
  Routes = {"target"}
  TargetOps = {"access"}
  FwOps = {}
  Firmwares = {"plain"}
  BinApi = TRUE
  Timeouts = TRUE
SPECIFICATION Spec
INVARIANT CommandGetsItsResponse
