CONSTANTS
  RingSize = 4
  BUFFER_SIZE = 5
  MAX_BYTES_PER_READ = 3
  MaxBytes = 9
  MaxBoots = 0
  Controls = {"start"}
  Failing = {}
SPECIFICATION FairSpec
PROPERTY Drains
