SPECIFICATION Spec
CONSTANTS
  a = a
  b = b
  c = c
  Threads = 2
  User = {a, b, c}
  Home <- Apart
  Crosses <- Forward
  Direct = {}
  StopsLast = FALSE
  SelfCancels = {}
PROPERTIES
  CancelCompletes
CHECK_DEADLOCK FALSE
