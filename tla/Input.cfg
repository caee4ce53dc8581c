SPECIFICATION Spec
CONSTANTS
  Pins = 2
  DebounceTicks = 2
  LongCounts = 2
  QueueDepth = 2
  MaxEdges = 4
CHECK_DEADLOCK FALSE
PROPERTIES
  ImplementsKeys
  OneMeaning
  KeysSettle
