CONSTANTS
  MaxInstances = 2
  MaxPool = 1
  MaxPoint = 2
  A = A
  B = B
  Out1 = Out1
  Out2 = Out2
  Identities = {A, B}
  NoIdentity = NoIdentity
  Outputs = {Out1}
SPECIFICATION Spec
PROPERTIES
  StartupErrorIsOfDesired
CHECK_DEADLOCK FALSE
