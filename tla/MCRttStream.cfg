CONSTANTS
  RingSize = 4
  BUFFER_SIZE = 3
  MAX_BYTES_PER_READ = 2
  MaxBytes = 5
  MaxBoots = 1
  Controls = {"start", "stop"}
  Failing = {"read", "write"}
SPECIFICATION Spec
INVARIANTS TypeOK NothingLost ResetNoticed
PROPERTY ImplementsStream
CHECK_DEADLOCK FALSE
