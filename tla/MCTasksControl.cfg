CONSTANTS
  s1 = s1
  Servers = {s1}
  Routes = {"target"}
  TargetOps = {"reset", "raw_reset", "settings"}
  FwOps = {}
  Firmwares = {"plain"}
  BinApi = TRUE
  Timeouts = FALSE
  Sends = {"Read", "Write", "MultiRegWrite", "Ping", "Disconnect", "Unknown"}
SPECIFICATION BinSpec
INVARIANT OnlyWholeCommands
PROPERTY DisconnectStopsFw SessionsEnd
