---------------------------- MODULE MCPingGossip ----------------------------
(***************************************************************************)
(* Instances of PingGossip: every strongly connected graph on a set of     *)
(* nodes, of bounded out-degree, as connect_graph of run_multinode.py      *)
(* produces them.                                                          *)
(***************************************************************************)
EXTENDS PingGossip, Relation

CONSTANT MaxPeers   \* bound: the out-degree of a configuration

StronglyConnected(g) ==
  LET R == [e \in Edge |-> e[2] \in g[e[1]]]
  IN  \A m, n \in Node : m # n => TransitiveClosure(R, Node)[m, n]

Degrees == {S \in SUBSET Node : Cardinality(S) \in 1..MaxPeers}

MCConfigs == {g \in [Node -> Degrees] : StronglyConnected(g)}
=============================================================================
