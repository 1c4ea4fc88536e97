CONSTANTS
  Inputs <- MCInputs
  MaxWorkers = 2
SPECIFICATION FairSpec
INVARIANTS
  TypeOK
  FlagsPrevail
  OwnFileFirst
  NoReportAfterSignal
PROPERTY SignalEndsProcess
CHECK_DEADLOCK FALSE
