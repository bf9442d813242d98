SPECIFICATION Spec
CONSTANTS
  Timers = {t1}
  Connections = {c1}
  Minute = 3
  PerHour = 2
  PerDay = 2
  Days = 1
  IdleTime = 2
  Delays = {1, 2, 3, 4, 5, 7, 12, 99}
  Second = 2
  Steps = {1, 3}
  MaxNow = 15
INVARIANTS Punctual IdleExactly
PROPERTIES AtMostASecondEarly
CHECK_DEADLOCK FALSE
