CONSTANTS
  MaxInstances = 1
  MaxPool = 3
  MaxPoint = 3
  PointLimit = 3
  MaxPackets = 2
  MaxCommands = 1
  Asides = {FALSE, TRUE}
  A = A
  Out1 = Out1
  Identities = {A}
  NoIdentity = NoIdentity
  Outputs = {Out1}
SPECIFICATION BothKinds
INVARIANTS
  NoCommandRefused
  BackendsBehave
CHECK_DEADLOCK FALSE
