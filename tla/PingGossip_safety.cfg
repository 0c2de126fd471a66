\* Three processes, every strongly connected graph of out-degree at most two,
\* with late starts, failing binds and failing connects.
SPECIFICATION FairSpec
CONSTANTS
  Node = {peer0, peer1, peer2}
  Peer0 = peer0
  MaxPeers = 2
  Configs <- MCConfigs
  Faults = {"skew", "bind", "connect"}
  NoClient = NoClient
INVARIANTS OneLogLine HopIsAPathLength NoPingVanishes
PROPERTIES IsAFlood EveryProcessLogs
\* The flood ends: with nothing left to read every process waits in its loop.
CHECK_DEADLOCK FALSE
