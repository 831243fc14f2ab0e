CONSTANTS
  o1 = o1
  o2 = o2
  Outs = {o1, o2}
  MaxEvents = 1
SPECIFICATION SettingsSpec
INVARIANTS
  WorkerEndsUnread
  FramesMatch
PROPERTIES
  OutputsGetBound
  
CHECK_DEADLOCK FALSE
