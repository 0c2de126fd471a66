------------------------------- MODULE Topology -------------------------------
(***************************************************************************)
(* The graph the experiments deploy (run_multinode.py): generate_graph     *)
(* gives every node peer_cnt random peers, and connect_graph rewires nodes  *)
(* until the graph is strongly connected.  Row n of the matrix, the peers  *)
(* written into the configuration file of peer n, is graph[n].             *)
(*                                                                         *)
(* random.choice is a choice; so is scipy's numbering of the components,   *)
(* which decides which of them is number 0 and in which order the nodes of *)
(* the others are visited.  const_out_deg is True, as do_experiment has it.*)
(***************************************************************************)
EXTENDS Integers, FiniteSets

CONSTANT Arguments   \* the pairs <<node_num, peer_cnt>> of the calls

(* random.choice(node_set) needs enough other nodes to choose from.        *)
ASSUME TopologyAssumption ==
  Arguments \subseteq {a \in Nat \X Nat : a[2] >= 1 /\ a[2] < a[1]}

VARIABLES
  node_num, peer_cnt,   \* the arguments of connect_graph
  graph,   \* temp_graph
  base,    \* base_set: component 0 at the start of the pass
  todo,    \* nodes of the other components not yet visited in this pass
  pc       \* "check" the components, "rewire" a node, "done"

vars == <<node_num, peer_cnt, graph, base, todo, pc>>

Node == 0..(node_num - 1)

TypeOK ==
  /\ <<node_num, peer_cnt>> \in Arguments
  /\ graph \in [Node -> SUBSET Node]
  /\ base \in SUBSET Node
  /\ todo \in SUBSET (Node \ base)
  /\ pc \in {"check", "rewire", "done"}

(* A directed path leads from m to n: no set of nodes that the edges do    *)
(* not leave holds m without n.                                            *)
Closed(g, S) == \A n \in S : g[n] \subseteq S

Reaches(g, m, n) == \A S \in SUBSET Node : m \in S /\ Closed(g, S) => n \in S

Component_weak(g, n) ==
  LET both == [m \in Node |-> g[m] \cup {k \in Node : m \in g[k]}]
  IN  {m \in Node : Reaches(both, n, m)}

Component(g, n) == {m \in Node : Reaches(g, n, m) /\ Reaches(g, m, n)}

-------------------------------------------------------------------------------
(* generate_graph: distinct peers other than the node itself.              *)
Rows == {S \in SUBSET Node : Cardinality(S) = peer_cnt}

generate_graph == {g \in [Node -> Rows] : \A n \in Node : n \notin g[n]}

Init ==
  /\ \E a \in Arguments : node_num = a[1] /\ peer_cnt = a[2]
  /\ graph \in generate_graph
  /\ base = {}
  /\ todo = {}
  /\ pc = "check"

(* The nodes of the components from number 1 on.                           *)
Others(c) == Node \ c

(* connected_components(graph, True, 'strong'), and base_set of the pass.  *)
CheckComponents ==
  /\ pc = "check"
  /\ \E n \in Node :
        LET c == Component(graph, n) IN
        IF c = Node
        THEN pc' = "done" /\ UNCHANGED <<base, todo>>
        ELSE pc' = "rewire" /\ base' = c /\ todo' = Others(c)
  /\ UNCHANGED <<node_num, peer_cnt, graph>>

(***************************************************************************)
(* One node of another component drops a peer; a random edge v -> u of a   *)
(* node v of base_set becomes v -> node -> u.                              *)
(***************************************************************************)
Splice_cut_last(g, v, u, node) ==
  [g EXCEPT ![v] = (@ \cup {node}) \ {u}, ![node] = @ \cup {u}]

Splice(g, v, u, node) ==
  [g EXCEPT ![v] = (@ \ {u}) \cup {node}, ![node] = @ \cup {u}]

Rewire(node) ==
  /\ pc = "rewire"
  /\ node \in todo
  /\ \E peer \in graph[node], v \in base :
        LET g == [graph EXCEPT ![node] = @ \ {peer}] IN
        \E u \in g[v] : graph' = Splice(g, v, u, node)
  /\ todo' = todo \ {node}
  /\ pc' = IF todo' = {} THEN "check" ELSE "rewire"
  /\ UNCHANGED <<node_num, peer_cnt, base>>

connect_graph == CheckComponents \/ \E node \in todo : Rewire(node)

Next == connect_graph

Spec == Init /\ [][Next]_vars

-------------------------------------------------------------------------------
(***************************************************************************)
(* random.choice raises on an empty list: node_peers and us are            *)
(* never empty, because every node keeps at least one peer; and a node is  *)
(* never given more peers than peer_cnt, the out-degree of the experiment.  *)
(***************************************************************************)
DegreeWithinBounds == \A n \in Node : Cardinality(graph[n]) \in 1..peer_cnt

(***************************************************************************)
(* Rewiring other nodes into the edges of base_set never disconnects       *)
(* base_set, although each step removes one of its edges.                  *)
(***************************************************************************)
BaseStaysConnected == \A m, n \in base : Reaches(graph, m, n)

(***************************************************************************)
(* A node once rewired stays reachable from base_set for the rest of the   *)
(* pass, although later steps remove edges that lead to it.                *)
(***************************************************************************)
RewiredStaysReachable ==
  base # {} => \A n \in Node \ todo : \E m \in base : Reaches(graph, m, n)

===============================================================================
