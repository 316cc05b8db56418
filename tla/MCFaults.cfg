SPECIFICATION Spec
CONSTANTS
  t1 = t1
  t2 = t2
  b = b
  NoConn = NoConn
  Conn = {1, 2}
  Task = {t1, b}
  Process <- OneProcess
  TargetTask = {t1}
  BpfTask = {t1}
  Call <- MCCall
  Mappings <- LongRuns
  MaxLen = 3
  Backlog = 2
  Word = 7
  MaxMisread = 2
  MaxCalls = 2
  MaxReboots = 0
  SendBuffer = 2
  KernelFaults = {"kvrealloc", "flush", "signal", "connect"}
  ServerFaults = {"mmap"}
INVARIANT PayloadFits
INVARIANT FramingKept
INVARIANT DumpsPure
INVARIANT VerdictAfterDump
CHECK_DEADLOCK FALSE
