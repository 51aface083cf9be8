CONSTANTS
  NetModes = {"StaFallbackToAp", "ApOnly"}
  Names = {"whole", "cut"}
  Fails = {}
  MaxLosses = 0
SPECIFICATION Spec
INVARIANT NoPanic
