SPECIFICATION ListSpec
CONSTANTS
  Peer = {p, q}
  NoPeer = NoPeer
  Writing = Writing
  MaxDatagram = 2
  MaxSends = 4
  MaxErrors = 2
  MaxReads = 2
INVARIANTS
  TypeOK
  NothingLost
  BuffersOutliveWrite
  ListsAgree
  TailIsLast
  NothingLeaks
PROPERTIES
  AllWritten
  OperationsEnd
CHECK_DEADLOCK FALSE
