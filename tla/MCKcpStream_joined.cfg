SPECIFICATION StreamFairSpec
CONSTANTS
  a = a
  b = b
  Endpoint = {a, b}
  Mtu = 50
  SndWnd = 2
  RcvWnd = 2
  NoCwnd = FALSE
  FastResend = 0
  DeadLink = 1
  Redeliver = FALSE
  Joined = TRUE
  MessageSizes = {2}
  MaxSent <- OneWay1
  MaxNet <- Net11
  MaxAcks = 1
  MaxNumbered = 1
PROPERTIES
  AcceptedIsDelivered
