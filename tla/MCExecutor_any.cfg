SPECIFICATION Spec
CONSTANTS
  a = a
  b = b
  c = c
  Threads = 2
  User = {a, b, c}
  Home <- Apart
  Crosses <- Mutual
  Direct = {c}
  StopsLast = FALSE
  SelfCancels = {c}
INVARIANTS
  IInv
  Exclusive
  CancelledIsGone
CHECK_DEADLOCK FALSE
