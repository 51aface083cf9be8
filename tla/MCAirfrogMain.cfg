CONSTANTS
  NetModes = {"StaFallbackToAp", "ApOnly"}
  Names = {"whole"}
  Fails = {"radio", "flash"}
  MaxLosses = 1
SPECIFICATION FairSpec
INVARIANTS TypeOK ServedRuns
PROPERTIES RebootKeepsUpdate Serves Stored Reconnects
CHECK_DEADLOCK FALSE
