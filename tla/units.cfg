CONSTANTS
  w1 = w1
  w2 = w2
  x = x
  y = y
  i1 = i1
  i2 = i2
  Workers <- MCWorkers
  Letters <- MCLetters
  Configs <- MCConfigs
  Deviations <- MCDeviations
  Invocations <- MCInvocations
SPECIFICATION Spec
INVARIANTS
  TypeOK
  OwnWorkUnlessContended
  MetadataConstant
  RateMeetsTarget
CHECK_DEADLOCK FALSE
