\* A buffer of 2 for 3 results: the buffer can overflow, and then the reporter
\* stops for good, so a state without successor is expected.
CONSTANTS
  r1 = r1
  r2 = r2
  r3 = r3
  g1 = g1
  Handler = Handler
  NoOne = NoOne
  Results <- MCResults
  Reports <- MCReports
  bufferSize = 2
SPECIFICATION FairSpec
INVARIANTS
  TypeOK
  OrderKept
  StreamExclusive
PROPERTIES
  OverflowIsFatal
  ImplementsLog
  ResultsHandedOver
CHECK_DEADLOCK FALSE
