CONSTANTS
  MaxInstances = 1
  MaxPool = 3
  MaxPoint = 3
  PointLimit = 3
  MaxPackets = 2
  MaxCommands = 2
  Asides = {TRUE}
  A = A
  Out1 = Out1
  Identities = {A}
  NoIdentity = NoIdentity
  Outputs = {}
SPECIFICATION CalmSafety
INVARIANTS
  WriteOnlyReleased
CHECK_DEADLOCK FALSE
