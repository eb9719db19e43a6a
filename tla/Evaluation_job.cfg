\* Any adapter, jobs that may be lost, downloads that may fail.
SPECIFICATION ReaderSpec
CONSTANTS
  Diagnostics <- AnyAdapter
  Reliable = FALSE
  None = None
INVARIANTS
  TypeOK
  VerdictIsEvaluations
PROPERTIES
  ReaderDecides
CHECK_DEADLOCK FALSE
