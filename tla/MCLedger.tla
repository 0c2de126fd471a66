------------------------------- MODULE MCLedger -------------------------------
(* A small block tree for Ledger: a chain of three blocks above the        *)
(* genesis block and a sibling of the second one.  The blocks this process *)
(* mines are a branch of its own and the second block of the chain, which  *)
(* it may find again: the miner's name is not part of a hash.              *)
EXTENDS Ledger

CONSTANT Peer

Made(parent, nonce) ==
  [prev_hash_ |-> parent, index_ |-> parent[2] + 1, nonce_ |-> nonce, miner_ |-> Peer]

A == Made(Root, 0)
B == Made(get_hash(A), 1)
C == Made(get_hash(B), 0)
D == Made(get_hash(A), 0)

MCPeerBlock == {A, B, C, D}
MCNonce == {1}
===============================================================================
