CONSTANTS
  APs = {0, 1}
  NWords = 1
  PageWords = 1
  Kinds = {"m33"}
  RawApi = TRUE
SPECIFICATION Spec
INVARIANT PowerCheckOn
