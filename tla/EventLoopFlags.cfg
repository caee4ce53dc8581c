SPECIFICATION Spec
CONSTANTS
  Object = {}
  Edge = {}
  Once = {}
  Timer = {}
  Periodic = {}
  Intervals = {1}
  TickInterval = 1
  MaxLate = 0
  MaxLevel = 0
  MaxOps = 2
  MaxTold = 1
CHECK_DEADLOCK FALSE
PROPERTIES
  ThreadFlagHeard
