\* What becomes of an orphan that is read through a pointer to another block.
SPECIFICATION Spec
CONSTANTS
  Me = Me
  Peer = Peer
  Nonce <- MCNonce
  PeerBlock <- MCPeerBlock
  MaxHeight = 2
  OrphanReads = {"slot"}
  NULL = NULL
  EmptyString = EmptyString
  DEADBEEF = DEADBEEF
  g_genesis_hash = OtherHash
INVARIANT NoOrphanLeftBehind
\* The process stops when an assertion fails, and when the bounds are reached.
CHECK_DEADLOCK FALSE
