SPECIFICATION Spec
CONSTANTS
  Task = {a, b}
  Half = 8
  MaxDelay = 3
  kWaitForPrecision = 1
  Slack = 1
  StartTime <- NearTheEnd
  MaxTime = 40
INVARIANTS
  NotForgotten
CHECK_DEADLOCK FALSE
