\* Two peers, four blocks, every interval, SIGINT at any time.
SPECIFICATION MinerFairSpec
CONSTANTS
  Peers = {p1, p2}
  MaxBlocks = 4
INVARIANT EachBlockIsPadded
PROPERTIES KeepsMining MinedIsSent
\* No timer expires after MaxBlocks.
CHECK_DEADLOCK FALSE
