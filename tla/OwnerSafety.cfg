CONSTANTS
  MaxInstances = 3
  MaxPool = 1
  MaxPoint = 2
  A = A
  B = B
  Out1 = Out1
  Out2 = Out2
  Identities = {A, B}
  NoIdentity = NoIdentity
  Outputs = {Out1, Out2}
SPECIFICATION Spec
SYMMETRY Symmetry
INVARIANTS
  TypeOK
  StopBeforeSpawn
  BarrierBeforeNegotiation
  GenerationTellsStale
  ShutdownAfterUnbind
  DeadlineCovers
PROPERTIES
  StopIsFinal
  ImplementsLease
CHECK_DEADLOCK FALSE
