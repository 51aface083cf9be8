CONSTANTS
  APs = {0}
  NWords = 4
  PageWords = 2
  Kinds = {"m4", "other", "rp"}
  RawApi = FALSE
  MaxLen = 3
SPECIFICATION BulkSpec
INVARIANTS BulkTypeOK SelectCoherent ConnectedFacts ReadReturnsRequested WritesLandAsAsked BulkInOrder IncOffAfterSuccess
