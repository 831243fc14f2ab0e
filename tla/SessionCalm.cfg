CONSTANTS
  MaxInstances = 1
  MaxPool = 3
  MaxPoint = 2
  PointLimit = 2
  MaxPackets = 2
  MaxCommands = 1
  Asides = {FALSE}
  A = A
  Out1 = Out1
  Identities = {A}
  NoIdentity = NoIdentity
  Outputs = {Out1}
SPECIFICATION CalmSpec
INVARIANTS
  HealthyIsNotBroken
PROPERTIES
  StopEnds
  PointsReturn
CHECK_DEADLOCK FALSE
