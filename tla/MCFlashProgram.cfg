CONSTANTS
  Mcus = {"F4", "G0", "other", "none"}
  SnbBits = 1
  NSectors = 2
  AskSectors = {1, 2}
  BitsOf <- MCBitsOf
  SectorOf <- MCSectorOf
  Starts = {0, 1}
  MaxLen = 2
SPECIFICATION FairSpec
INVARIANTS TypeOK EraseExact WriteDone ErrorsAreOwn UnlockOpens
PROPERTY OperationsEnd
