CONSTANTS
  Inputs <- MCInputs
  MaxWorkers = 2
SPECIFICATION Spec
INVARIANT DefaultsApply
CHECK_DEADLOCK FALSE
