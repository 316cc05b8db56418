SPECIFICATION Spec
CONSTANTS
  PERFBUF_SIZE = 7
  MaxWrite = 3
  MaxRead = 8
  MaxBytes = 24
PROPERTY OverwritesOldData
CHECK_DEADLOCK FALSE
