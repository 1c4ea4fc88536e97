CONSTANTS
  a = a
  b = b
  None = None
  Units <- MCUnits
  Roots <- MCRoots
  Config <- MCConfig1
  Successor <- MCSuccessor
  SyncUnits = {}
  Overlap = FALSE
  Shutdown = TRUE
  StreamsBreak = TRUE
  ReporterSize = 1
  MaxInvocations = 2
SPECIFICATION FairSpec
PROPERTIES
  SettledResultsReported
  RunEnds
CHECK_DEADLOCK FALSE
