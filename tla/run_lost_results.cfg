CONSTANTS
  a = a
  b = b
  None = None
  Units <- MCUnits
  Roots <- MCRoots
  Config <- MCConfig1
  Successor <- MCSuccessor
  SyncUnits <- MCRoots
  Overlap = FALSE
  Shutdown = FALSE
  StreamsBreak = TRUE
  ReporterSize = 2
  MaxInvocations = 2
SPECIFICATION Spec
INVARIANT AllResultsReported
CHECK_DEADLOCK FALSE
