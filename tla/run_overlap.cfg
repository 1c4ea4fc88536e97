CONSTANTS
  a = a
  b = b
  None = None
  Units <- MCUnits
  Roots <- MCRoots
  Config <- MCConfig
  Successor <- MCSuccessor
  SyncUnits <- MCRoots
  Overlap = TRUE
  Shutdown = FALSE
  StreamsBreak = FALSE
  ReporterSize = 1
  MaxInvocations = 2
SPECIFICATION Spec
INVARIANTS
  TypeOK
  MapBelongsToRun
  OneLoadAtATime
  GeneratorsHalted
  CrashOnlyDuringSetup
PROPERTIES
  StrayResults
  ImplementsProtocol
CHECK_DEADLOCK FALSE
