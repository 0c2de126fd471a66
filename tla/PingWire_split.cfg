\* The header may be cut, too.
SPECIFICATION WireSpec
CONSTANTS
  HeaderSize = 8
  BodySize = 120
  ReadMax = 40
  BufSize = 80
  MinFirst = 1
INVARIANTS ToReadIsRemaining
CHECK_DEADLOCK FALSE
