SPECIFICATION Spec
CONSTANTS
  a = a
  b = b
  c = c
  Stream = {a, b, c}
  Conv <- Convs
  NoStream = NoStream
  MaxMessages = 2
INVARIANTS
  TypeOK
  RegisteredIsAlive
  MuxOutlivesStreams
  MuxDiesOnExecutor
  DatagramsFindStream
  IInv
PROPERTIES
  KeptWhileCalled
  CallsReturn
  AddressIsFreed
CHECK_DEADLOCK FALSE
