SPECIFICATION SitesSpec
CONSTANTS
  t1 = t1
  t2 = t2
  a1 = a1
  a2 = a2
  NoAnalyzer = NoAnalyzer
  Task = {t1, t2}
  Process <- OneProcess
  BpfTask = {t2}
  Analyzer = {a1, a2}
  MaxCalls <- OneCall
  MaxVmas = 1
  Findings = {TRUE}
  Faults = {"pages", "vm_mmap", "send", "reply", "crash"}
SYMMETRY AnalyzerSymmetry
INVARIANT TypeOK
INVARIANT ThreadKeepsItsData
CHECK_DEADLOCK FALSE
