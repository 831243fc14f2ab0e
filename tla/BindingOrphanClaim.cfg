CONSTANTS
  o1 = o1
  o2 = o2
  Outs = {o1}
  MaxEvents = 2
SPECIFICATION RoughSpec
PROPERTIES
  OrphanEnds
CHECK_DEADLOCK FALSE
