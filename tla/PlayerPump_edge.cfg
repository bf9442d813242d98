SPECIFICATION Spec
CONSTANTS
  Eager = 2
  Every = 2
  Batch = 2
  Headers = 1
  SingleMax = 1
  MaxLag = 3
  MaxWaiting = 2
  MaxTasks = 2
INVARIANT WriteEventHandled
CHECK_DEADLOCK FALSE
