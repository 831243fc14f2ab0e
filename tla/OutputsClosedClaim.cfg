CONSTANTS
  MaxSlots = 2
  MaxPlugs = 2
  MaxTurns = 0
  MaxTransports = 3
SPECIFICATION OutputsSpec
INVARIANT RestartReplacesOutputs
CHECK_DEADLOCK FALSE
