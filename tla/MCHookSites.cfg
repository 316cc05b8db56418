SPECIFICATION SitesSpec
CONSTANTS
  t1 = t1
  t2 = t2
  a1 = a1
  a2 = a2
  NoAnalyzer = NoAnalyzer
  Task = {t1, t2}
  Process <- OneProcess
  BpfTask = {}
  Analyzer = {a1}
  MaxCalls <- TwoAndOne
  MaxVmas = 2
  Findings = {TRUE, FALSE}
  Faults = {"kmalloc", "kthread", "remap", "register"}
INVARIANT SitesTypeOK
INVARIANT ChangedAreCleared
INVARIANT OwnVerdict
INVARIANT QuietBetweenCalls
INVARIANT ReferencesReturned
INVARIANT AnalyzerUnlocked
PROPERTY MappedWhenAnalysed
PROPERTY SyscallReturns
CHECK_DEADLOCK FALSE
