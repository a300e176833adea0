SPECIFICATION Spec
CONSTANTS
  a = a
  b = b
  c = c
  Threads = 2
  User = {a, b, c}
  Home <- Apart
  Crosses <- Forward
  Direct = {c}
  StopsLast = TRUE
  SelfCancels = {}
PROPERTIES
  CallsReturn
  
CHECK_DEADLOCK FALSE
