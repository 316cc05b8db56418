SPECIFICATION Spec
CONSTANTS
  t1 = t1
  t2 = t2
  b = b
  NoConn = NoConn
  Conn = {1}
  Task = {t1}
  Process <- OneProcess
  TargetTask = {t1}
  BpfTask = {}
  Call <- MCCall
  Mappings <- Shapes
  MaxLen = 3
  Backlog = 2
  Word = 7
  MaxMisread = 2
  MaxCalls = 1
  MaxReboots = 0
  SendBuffer = 2
  KernelFaults = {}
  ServerFaults = {}
INVARIANT SparseMemoryReconstructed
CHECK_DEADLOCK FALSE
