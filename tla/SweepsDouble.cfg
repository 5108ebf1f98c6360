SPECIFICATION SweepsSpec
CONSTANTS
  Scheduler = {s1, s2}
  MaxLive = 2
  Cluster = {c1, c2}
  MaxId = 3
PROPERTIES
  NoDoubleDispatch
CHECK_DEADLOCK FALSE
