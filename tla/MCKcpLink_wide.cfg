SPECIFICATION FairSpec
CONSTANTS
  a = a
  b = b
  Endpoint = {a, b}
  Mtu = 50
  SndWnd = 2
  RcvWnd = 1
  NoCwnd = FALSE
  FastResend = 0
  DeadLink = 1
  Redeliver = FALSE
  Joined = FALSE
  MessageSizes = {28}
  MaxSent <- OneWay1
  MaxNet <- Net11
  MaxAcks = 1
  MaxNumbered = 2
PROPERTIES
  AcceptedIsDelivered
