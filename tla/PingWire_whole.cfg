\* Every way to cut a ping whose header arrives in one piece.
SPECIFICATION FairWireSpec
CONSTANTS
  HeaderSize = 8
  BodySize = 120
  ReadMax = 40
  BufSize = 80
  MinFirst = 8
INVARIANT Framed
PROPERTY PingIsHandled
\* The ping has been handled.
CHECK_DEADLOCK FALSE
