\* One result more than the buffer holds arrives between two reports.
CONSTANTS
  r1 = r1
  r2 = r2
  r3 = r3
  g1 = g1
  Handler = Handler
  NoOne = NoOne
  Results <- MCResults
  Reports <- MCReports
  bufferSize = 2
SPECIFICATION FairSpec
PROPERTY KeepsReporting
CHECK_DEADLOCK FALSE
