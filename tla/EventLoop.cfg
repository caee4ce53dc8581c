SPECIFICATION Spec
CONSTANTS
  q1 = q1
  q2 = q2
  t1 = t1
  t2 = t2
  Object = {q1, q2}
  Edge = {q2}
  Once = {q2}
  Timer = {t1, t2}
  Periodic = {t2}
  Intervals = {1, 2}
  TickInterval = 1
  MaxLate = 1
  MaxLevel = 2
  MaxOps = 2
  MaxTold = 2
CHECK_DEADLOCK FALSE
INVARIANTS
  NoSleepOnWork
  FrontIsEarliest
  ListsAlive
  LevelWaits
PROPERTIES
  StopMeansStop
