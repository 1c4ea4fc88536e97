CONSTANTS
  w1 = w1
  w2 = w2
  Workers <- MCWorkers
  Runtime = 11
  MaxConnect = 0
  MaxSetup = 2
SPECIFICATION FairSpec
INVARIANTS
  TypeOK
  AllPackagesWritten
  BacklogBounded
PROPERTIES
  ImplementsProtocol
  BenchmarkEnds
CHECK_DEADLOCK FALSE
