\* The assertion of accept_block.
SPECIFICATION Spec
CONSTANTS
  Me = Me
  Peer = Peer
  Nonce <- MCNonce
  PeerBlock <- MCPeerBlock
  MaxHeight = 2
  OrphanReads = {"kept", "slot"}
  NULL = NULL
  EmptyString = EmptyString
  DEADBEEF = DEADBEEF
  g_genesis_hash = OtherHash
INVARIANT NoAbort
\* The process stops when an assertion fails, and when the bounds are reached.
CHECK_DEADLOCK FALSE
