CONSTANTS
  A = A
  B = B
  C = C
  a = a
  b = b
  p1 = p1
  p2 = p2
  q1 = q1
  q2 = q2
  Empty = Empty
  Names <- MCNames
  Addresses <- MCAddresses
  Architectures <- MCArchitectures
  Deployments <- MCDeployments
SPECIFICATION Spec
INVARIANTS
  TypeOK
  CallsReachTheirUnit
  UndefinedCallsMiss
  EveryUnitDeployed
CHECK_DEADLOCK FALSE
