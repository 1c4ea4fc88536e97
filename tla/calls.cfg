CONSTANTS
  w1 = w1
  x1 = x1
  y1 = y1
  z1 = z1
  z2 = z2
  None = None
  Units <- MCUnits
  ServiceOf <- MCServiceOf
  Successors <- MCSuccessors
  Follows <- MCFollows
  Roots <- MCRoots
  MaxTraces = 1
  MaxInvocations = 8
SPECIFICATION FairSpec
INVARIANTS
  TypeOK
  SyncOrder
  SyncCallsArrive
  SpansConnected
PROPERTY TracesEnd
CHECK_DEADLOCK FALSE
