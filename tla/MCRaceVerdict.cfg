SPECIFICATION Spec
CONSTANTS
  t1 = t1
  t2 = t2
  b = b
  NoConn = NoConn
  Conn = {1, 2}
  Task = {t1, t2}
  Process <- AllProcesses
  TargetTask = {t1, t2}
  BpfTask = {}
  Call <- MCCall
  Mappings <- TwoShapes
  MaxLen = 3
  Backlog = 2
  Word = 7
  MaxMisread = 2
  MaxCalls = 1
  MaxReboots = 0
  SendBuffer = 2
  KernelFaults = {}
  ServerFaults = {}
INVARIANT OwnVerdict
CHECK_DEADLOCK FALSE
