SPECIFICATION Spec
CONSTANTS
  t1 = t1
  t2 = t2
  b = b
  NoConn = NoConn
  Conn = {1, 2}
  Task = {t1, t2}
  Process <- OneProcess
  TargetTask = {t1, t2}
  BpfTask = {}
  Call <- MCCall
  Mappings <- TwoShapes
  MaxLen = 3
  Backlog = 2
  Word = 7
  MaxMisread = 2
  MaxCalls = 2
  MaxReboots = 1
  SendBuffer = 2
  KernelFaults = {"kvmalloc", "connect"}
  ServerFaults = {}
INVARIANT FramingKept
INVARIANT DumpsPure
INVARIANT OwnVerdict
INVARIANT VerdictAfterDump
INVARIANT QuietBetweenCalls
PROPERTY SockKept
PROPERTY HookReturns
PROPERTY NextClientServed
CHECK_DEADLOCK FALSE
