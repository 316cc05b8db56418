SPECIFICATION Spec
CONSTANTS
  NPages = 5
  InitialCapacity = 2
  AllocFails = TRUE
PROPERTIES
  CopySpec
INVARIANTS
  TypeOK
  ArrayHoldsBatch
  BatchIsRun
  PagesInPlace
  EveryPageAccounted
  RefsMatchBatch
  WholeMappingAtEnd
  RunsAreMaximal
CHECK_DEADLOCK FALSE
