SPECIFICATION Spec
CONSTANTS
  Task = {a, b}
  Half = 8
  MaxDelay = 3
  kWaitForPrecision = 1
  Slack = 1
  StartTime <- AtZero
  MaxTime = 13
INVARIANTS
  TypeOK
  RunOnTime
PROPERTIES
  NeverEarly
CHECK_DEADLOCK FALSE
