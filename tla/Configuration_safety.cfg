\* Three calls on loose elements, and two that change the file of a node.
SPECIFICATION Spec
CONSTANTS
  Key <- MCKey
  Inputs <- MCInputs
  Made <- MCMade
  IntMax = 7
  Int64Max = 15
  Double <- MCDouble
  MaxObjects = 13
  my_port_default = 5
  miner_timeout_default = 3
  msg_size_default = 6
  log_level_default = 1
INVARIANTS
  ArraysReadWhole
  ClonesAreApart
  LookupsAreExact
  ConfigIsOfTheFile
\* The program has made its calls.
CHECK_DEADLOCK FALSE
