SPECIFICATION Spec
CONSTANTS
  PERFBUF_SIZE = 7
  MaxWrite = 3
  MaxRead = 8
  MaxBytes = 24
INVARIANTS TypeOK UnreadIsNewest
PROPERTY ReadsMoveForward
CHECK_DEADLOCK FALSE
