\* Every order of arrival of four peer blocks, every interleaving with own mining.
SPECIFICATION FairSpec
CONSTANTS
  Me = Me
  Peer = Peer
  Nonce <- MCNonce
  PeerBlock <- MCPeerBlock
  MaxHeight = 2
  OrphanReads = {"kept", "slot", "crash"}
  NULL = NULL
  EmptyString = EmptyString
  DEADBEEF = DEADBEEF
  g_genesis_hash = OtherHash
INVARIANTS IsATree NextIsAChild HeadIsHighestUnlessRaced
PROPERTIES OrphansAreNotLost AppendOnly ConnectEnds
\* The process stops when an assertion fails, and when the bounds are reached.
CHECK_DEADLOCK FALSE
