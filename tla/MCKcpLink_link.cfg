SPECIFICATION Spec
CONSTANTS
  a = a
  b = b
  Endpoint = {a, b}
  Mtu = 50
  SndWnd = 3
  RcvWnd = 2
  NoCwnd = TRUE
  FastResend = 1
  DeadLink = 1
  Redeliver = TRUE
  Joined = TRUE
  MessageSizes = {28}
  MaxSent <- OneWay2
  MaxNet <- Net12
  MaxAcks = 1
  MaxNumbered = 4
INVARIANTS
  TypeOK
  InOrderDelivery
  BuffersBounded
  NothingDropped
  CwndTracksIncr
  IInv
